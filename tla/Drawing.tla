------------------------------ MODULE Drawing ------------------------------
(***************************************************************************)
(* Drawing into the framebuffer, kernel/fb.c, and the windows that         *)
(* kernel/wm.c draws with it.  A pixel is one place of video memory; a row *)
(* of the screen is Pitch places, of which Width are seen.  Coordinates    *)
(* are unsigned and wrap; those of a line are signed.                      *)
(*                                                                         *)
(* todo holds the calls still to be made: the one that a caller asked for, *)
(* or those of wm_render_all.  A line takes one step per pixel, a string   *)
(* one per character, a window one per call it makes, and every other call *)
(* one step: its loops only walk over the pixels that the operator of the  *)
(* same name describes.                                                    *)
(***************************************************************************)
EXTENDS Integers, Sequences, FiniteSets

CONSTANTS
    Width, Height, Pitch,       \* fb_width, fb_height, and fb_pitch in pixels
    Wrap,                       \* 2^32
    FONT_WIDTH, FONT_HEIGHT,
    Glyphs,                     \* per printable character its set pixels
    WM_MAX_WINDOWS, WM_BORDER, WM_TITLEBAR_HEIGHT, WM_TEXT_COLS, WM_TEXT_ROWS,
    TitleIndent,                \* 8
    Requests                    \* what callers ask for

\* A pixel has four bytes, and an address 32 bits.
ASSUME ScreenAssumption ==
    /\ Pitch \in Nat /\ Width \in 1 .. Pitch /\ Height \in Nat \ {0}
    /\ Wrap \in Nat /\ 4 * (Pitch * Height) <= Wrap
    /\ " " \in DOMAIN Glyphs
\* A character fits on the screen, and a title into its bar.
ASSUME WindowsAssumption ==
    /\ FONT_WIDTH \in 1 .. Width /\ FONT_HEIGHT \in Nat \ {0}
    /\ {WM_MAX_WINDOWS, WM_BORDER, WM_TEXT_COLS, WM_TEXT_ROWS, TitleIndent} \subseteq Nat
    /\ WM_TITLEBAR_HEIGHT \in Nat /\ WM_BORDER + FONT_HEIGHT <= WM_TITLEBAR_HEIGHT

(* What callers may ask for.  A line's coordinates are far from the ends   *)
(* of int32_t, so that its errors and their doubles fit.  A character is a *)
(* string of length one; a window comes with an empty grid.                *)
Coordinates == 0 .. Wrap - 1
LineCoordinates == 0 - (Wrap \div 16) .. Wrap \div 16
Colors == STRING \ {"untouched"}
Windows == [x : Coordinates, y : Coordinates, w : Coordinates, h : Coordinates,
            title : Seq(STRING), ch : STRING, cols : {0}, rows : {0}]
RectRequests == [op : {"rect"}, x : Coordinates, y : Coordinates,
                 w : Coordinates, h : Coordinates, color : Colors]
LineRequests == [op : {"line"}, x : LineCoordinates, y : LineCoordinates,
                 x1 : LineCoordinates, y1 : LineCoordinates,
                 color : Colors]
StringRequests == [op : {"string"}, x : Coordinates, y : Coordinates,
                   str : Seq(STRING), fg : Colors, bg : Colors]
WindowRequests == [op : {"windows"}, wins : Seq(Windows)]
ASSUME RequestsAssumption ==
    Requests \subseteq
        RectRequests \cup LineRequests \cup StringRequests \cup WindowRequests

VideoMemory == 0 .. Pitch * Height - 1
X(m) == m % Pitch
Y(m) == m \div Pitch
U(a) == a % Wrap
Blank == [m \in VideoMemory |-> "untouched"]

VARIABLES
    pixels,     \* video memory
    asked,      \* the caller's request
    todo,       \* calls to be made, the current one first
    at          \* its loop variables, <<>> before the loop

drawVars == <<pixels, asked, todo, at>>

Nothing == [op |-> "nothing"]
DrawInit == pixels = Blank /\ asked = Nothing /\ todo = <<>> /\ at = <<>>

----------------------------------------------------------------------------
(* What each call makes of the picture pic.                                *)

fb_plot(pic, x, y, color) ==
    [m \in VideoMemory |-> IF X(m) = x /\ x < Width /\ Y(m) = y THEN color ELSE pic[m]]

fb_fill_rect(pic, x, y, w, h, color) ==
    [m \in VideoMemory |->
        IF /\ x <= X(m) /\ X(m) < Width /\ X(m) - x < w
           /\ y <= Y(m) /\ Y(m) < U(y + h)
        THEN color ELSE pic[m]]

fb_draw_rect(pic, x, y, w, h, color) ==
    [m \in VideoMemory |->
        IF /\ X(m) < Width
           /\ \/ x <= X(m) /\ X(m) < U(x + w) /\ Y(m) \in {y, U(y + h - 1)}
              \/ y <= Y(m) /\ Y(m) < U(y + h) /\ X(m) \in {x, U(x + w - 1)}
        THEN color ELSE pic[m]]

Glyph(c) == IF c \in DOMAIN Glyphs THEN Glyphs[c] ELSE Glyphs[" "]
fb_draw_char(pic, x, y, c, fg, bg) ==
    [m \in VideoMemory |->
        IF /\ X(m) < Width
           /\ X(m) - x \in 0 .. FONT_WIDTH - 1 /\ Y(m) - y \in 0 .. FONT_HEIGHT - 1
        THEN IF <<X(m) - x, Y(m) - y>> \in Glyph(c) THEN fg ELSE bg
        ELSE pic[m]]

(* The calls, as entries of todo.                                          *)
FillRect(x, y, w, h, color) ==
    [op |-> "fill", x |-> U(x), y |-> U(y), w |-> U(w), h |-> U(h), color |-> color]
Char(x, y, c, fg, bg) ==
    [op |-> "char", x |-> U(x), y |-> U(y), c |-> c, fg |-> fg, bg |-> bg]
String(x, y, str, fg, bg) ==
    [op |-> "string", x |-> U(x), y |-> U(y), str |-> str, fg |-> fg, bg |-> bg]
Clear(color) == FillRect(0, 0, Width, Height, color)

----------------------------------------------------------------------------
(* wm_create_window; its callers fill the grid with text, here with the    *)
(* one letter ch.                                                          *)
Least(a, b) == IF a < b THEN a ELSE b
wm_create_window(win) ==
    [win EXCEPT
        !.cols = Least(U(win.w - 2 * WM_BORDER) \div FONT_WIDTH, WM_TEXT_COLS),
        !.rows = Least(U(win.h - WM_TITLEBAR_HEIGHT - WM_BORDER) \div FONT_HEIGHT,
                       WM_TEXT_ROWS)]

(* The table takes WM_MAX_WINDOWS of them.                                 *)
Created(wins) ==
    [k \in 1 .. Least(Len(wins), WM_MAX_WINDOWS) |-> wm_create_window(wins[k])]

TextAt(win, row, col) ==
    Char(win.x + WM_BORDER + col * FONT_WIDTH,
         win.y + WM_TITLEBAR_HEIGHT + row * FONT_HEIGHT, win.ch, "text", "paper")

TitleX(win) == win.x + WM_BORDER + TitleIndent
TitleY(win) == win.y + WM_BORDER + (WM_TITLEBAR_HEIGHT - WM_BORDER - FONT_HEIGHT) \div 2

draw_window(win) ==
    <<FillRect(win.x, win.y, win.w, win.h, "border"),
      FillRect(win.x + WM_BORDER, win.y + WM_BORDER, win.w - 2 * WM_BORDER,
           WM_TITLEBAR_HEIGHT - WM_BORDER, "titlebar"),
      String(TitleX(win), TitleY(win), win.title, "title", "titlebar"),
      FillRect(win.x + WM_BORDER, win.y + WM_TITLEBAR_HEIGHT, win.w - 2 * WM_BORDER,
           win.h - WM_TITLEBAR_HEIGHT - WM_BORDER, "paper")>>
    \o [k \in 1 .. win.rows * win.cols |->
           TextAt(win, (k - 1) \div win.cols, (k - 1) % win.cols)]

Window(win) == [op |-> "window", win |-> win]
wm_render_all(wins) ==
    <<Clear("desktop")>> \o [k \in 1 .. Len(wins) |-> Window(wins[k])]

----------------------------------------------------------------------------
CallDraw ==
    /\ asked = Nothing
    /\ asked' \in Requests
    /\ todo' = IF asked'.op = "windows" THEN wm_render_all(Created(asked'.wins))
                                        ELSE <<asked'>>
    /\ UNCHANGED <<pixels, at>>

Current(op) == todo # <<>> /\ Head(todo).op = op
CallDone == todo' = Tail(todo) /\ at' = <<>>

DrawWindow ==
    /\ Current("window")
    /\ todo' = draw_window(Head(todo).win) \o Tail(todo)
    /\ UNCHANGED <<pixels, asked, at>>

DrawAtOnce ==
    /\ \E op \in {"fill", "rect", "char"} : Current(op)
    /\ LET t == Head(todo) IN
       pixels' = CASE t.op = "fill" -> fb_fill_rect(pixels, t.x, t.y, t.w, t.h, t.color)
                   [] t.op = "rect" -> fb_draw_rect(pixels, t.x, t.y, t.w, t.h, t.color)
                   [] t.op = "char" -> fb_draw_char(pixels, t.x, t.y, t.c, t.fg, t.bg)
    /\ CallDone
    /\ UNCHANGED asked

(* fb_draw_string: at is <<place in the string, cx, cy>>.                  *)
StringStep ==
    /\ Current("string")
    /\ LET t == Head(todo)
           k == IF at = <<>> THEN 1 ELSE at[1]
           cx == IF at = <<>> THEN t.x ELSE at[2]
           cy == IF at = <<>> THEN t.y ELSE at[3]
           next == U(cx + FONT_WIDTH)
       IN  IF k > Len(t.str) THEN CallDone /\ UNCHANGED pixels
           ELSE /\ UNCHANGED todo
                /\ IF t.str[k] = "NL"
                   THEN at' = <<k + 1, t.x, U(cy + FONT_HEIGHT)>> /\ UNCHANGED pixels
                   ELSE /\ pixels' = fb_draw_char(pixels, cx, cy, t.str[k], t.fg, t.bg)
                        /\ at' = IF U(next + FONT_WIDTH) > Width
                                 THEN <<k + 1, t.x, U(cy + FONT_HEIGHT)>>
                                 ELSE <<k + 1, next, cy>>
    /\ UNCHANGED asked

(* fb_draw_line: at is <<x0, y0, err>>.                                    *)
Abs(a) == IF a < 0 THEN 0 - a ELSE a
Towards(from, to) == IF to > from THEN 1 ELSE -1

\* Mutant of Bresenham: the second test sees the error the first one left.
BresenhamInPlace(t, x, y, err) ==
    LET dx == Abs(t.x1 - t.x)  dy == Abs(t.y1 - t.y)
        right == 2 * err > 0 - dy
        err1 == IF right THEN err - dy ELSE err
        down == 2 * err1 < dx
    IN  <<IF right THEN x + Towards(t.x, t.x1) ELSE x,
          IF down THEN y + Towards(t.y, t.y1) ELSE y,
          err1 + (IF down THEN dx ELSE 0)>>
Bresenham(t, x, y, err) ==
    LET dx == Abs(t.x1 - t.x)  dy == Abs(t.y1 - t.y)
        right == 2 * err > 0 - dy
        down == 2 * err < dx
    IN  <<IF right THEN x + Towards(t.x, t.x1) ELSE x,
          IF down THEN y + Towards(t.y, t.y1) ELSE y,
          err - (IF right THEN dy ELSE 0) + (IF down THEN dx ELSE 0)>>

LineStep ==
    /\ Current("line")
    /\ LET t == Head(todo)
           x == IF at = <<>> THEN t.x ELSE at[1]
           y == IF at = <<>> THEN t.y ELSE at[2]
           err == IF at = <<>> THEN Abs(t.x1 - t.x) - Abs(t.y1 - t.y) ELSE at[3]
       IN  /\ pixels' = fb_plot(pixels, U(x), U(y), t.color)
           /\ IF x = t.x1 /\ y = t.y1 THEN CallDone
              ELSE at' = Bresenham(t, x, y, err) /\ UNCHANGED todo
    /\ UNCHANGED asked

Drawn == asked # Nothing /\ todo = <<>>
ReturnDraw ==
    /\ Drawn
    /\ pixels' = Blank /\ asked' = Nothing
    /\ UNCHANGED <<todo, at>>

DrawNext == CallDraw \/ DrawWindow \/ DrawAtOnce \/ StringStep \/ LineStep \/ ReturnDraw
DrawSpec == DrawInit /\ [][DrawNext]_drawVars

----------------------------------------------------------------------------
(* Properties.                                                             *)

OnScreen == {m \in VideoMemory : X(m) < Width}
Painted == {m \in VideoMemory : pixels[m] # "untouched"}
Inside(m, x, y, w, h) == X(m) - x \in 0 .. w - 1 /\ Y(m) - y \in 0 .. h - 1

(* A rectangle's outline is one pixel wide and inside of it.               *)
IsOutline(t) ==
    (t.w > 0 /\ t.h > 0 /\ t.x + t.w < Wrap /\ t.y + t.h < Wrap) =>
        Painted = {m \in OnScreen : Inside(m, t.x, t.y, t.w, t.h)
                                   /\ ~ Inside(m, t.x + 1, t.y + 1, t.w - 2, t.h - 2)}

(* A line is as close to the ideal one as pixels allow: along its longer   *)
(* axis every step has one pixel, half a pixel off at most.  Of two pixels *)
(* that are as close, the one taken may lie outside of the screen.         *)
Between(a, b, c) == (a <= b /\ b <= c) \/ (c <= b /\ b <= a)
IsFlat(t) == Abs(t.x1 - t.x) >= Abs(t.y1 - t.y)
Near(t, x, y) ==
    /\ Between(t.x, x, t.x1) /\ Between(t.y, y, t.y1)
    /\ 2 * Abs((y - t.y) * (t.x1 - t.x) - (x - t.x) * (t.y1 - t.y))
          <= IF IsFlat(t) THEN Abs(t.x1 - t.x) ELSE Abs(t.y1 - t.y)
Close(t) == {m \in OnScreen : Near(t, X(m), Y(m))}
Step(t, m) == IF IsFlat(t) THEN X(m) ELSE Y(m)
OnlyCandidate(t, m) ==
    \A k \in {-1, 1} :
        LET x == IF IsFlat(t) THEN X(m) ELSE X(m) + k
            y == IF IsFlat(t) THEN Y(m) + k ELSE Y(m)
        IN  Near(t, x, y) => x \in 0 .. Width - 1 /\ y \in 0 .. Height - 1
IsLine(t) ==
    /\ Painted \subseteq Close(t)
    /\ \A m, n \in Painted : Step(t, m) = Step(t, n) => m = n
    /\ \A m \in Close(t) :
          OnlyCandidate(t, m) => \E n \in Painted : Step(t, n) = Step(t, m)

(* A string runs from its first place to the right margin and goes on      *)
(* below that place; the character that reaches the margin opens the next  *)
(* row itself, so that a newline behind it leaves an empty one.  This is   *)
(* about strings in reach of their coordinates, whose places do not wrap.  *)
PerRow(t) ==
    IF t.x + 2 * FONT_WIDTH > Width THEN 1 ELSE (Width - t.x) \div FONT_WIDTH
Newline(t, k) == t.str[k] = "NL"
LastNewline(t, k) ==
    CHOOSE b \in 0 .. k - 1 :
        (b > 0 => Newline(t, b)) /\ \A c \in b + 1 .. k - 1 : ~ Newline(t, c)
Col(t, k) == (k - LastNewline(t, k) - 1) % PerRow(t)
Opens(t, k) == Newline(t, k) \/ Col(t, k) = PerRow(t) - 1
Row(t, k) == Cardinality({b \in 1 .. k - 1 : Opens(t, b)})
Cell(t, k, m) == ~ Newline(t, k)
                 /\ Inside(m, t.x + Col(t, k) * FONT_WIDTH, t.y + Row(t, k) * FONT_HEIGHT,
                           FONT_WIDTH, FONT_HEIGHT)
Inked(t, k, m) == <<X(m) - (t.x + Col(t, k) * FONT_WIDTH),
                    Y(m) - (t.y + Row(t, k) * FONT_HEIGHT)>> \in Glyph(t.str[k])
IsLaidOut(t) ==
    (t.x + 2 * FONT_WIDTH < Wrap /\ t.y + Row(t, Len(t.str) + 1) * FONT_HEIGHT < Wrap) =>
        \A m \in VideoMemory :
            LET over == {k \in 1 .. Len(t.str) : Cell(t, k, m)}
            IN  pixels[m] = IF m \notin OnScreen \/ over = {} THEN "untouched"
                            ELSE IF \E k \in over : Inked(t, k, m) THEN t.fg ELSE t.bg

(* What a window shows at a pixel of it, counted from its corner.          *)
TitleAt(win, x, y) ==
    IF x \in 0 .. FONT_WIDTH * Len(win.title) - 1 /\ y \in 0 .. FONT_HEIGHT - 1
       /\ <<x % FONT_WIDTH, y>> \in Glyph(win.title[(x \div FONT_WIDTH) + 1])
    THEN "title" ELSE "titlebar"
ContentAt(win, x, y) ==
    IF /\ x < wm_create_window(win).cols * FONT_WIDTH
       /\ y < wm_create_window(win).rows * FONT_HEIGHT
       /\ <<x % FONT_WIDTH, y % FONT_HEIGHT>> \in Glyph(win.ch)
    THEN "text" ELSE "paper"
Framed(win, x, y) ==
    x \in WM_BORDER .. win.w - WM_BORDER - 1 /\ y \in WM_BORDER .. win.h - WM_BORDER - 1
View(win, x, y) ==
    IF ~ Framed(win, x, y) THEN "border"
    ELSE IF y < WM_TITLEBAR_HEIGHT
    THEN TitleAt(win, x - WM_BORDER - TitleIndent, y - (TitleY(win) - win.y))
    ELSE ContentAt(win, x - WM_BORDER, y - WM_TITLEBAR_HEIGHT)

(* A window in reach of its coordinates, whose frame has room for its      *)
(* title and a character, and whose title, of one row, ends on the screen. *)
Roomy(win) ==
    /\ win.x + win.w < Wrap /\ win.y + win.h < Wrap
    /\ win.w >= 2 * WM_BORDER + FONT_WIDTH
    /\ win.h >= WM_TITLEBAR_HEIGHT + WM_BORDER + FONT_HEIGHT
    /\ TitleIndent + FONT_WIDTH * Len(win.title) + 2 * WM_BORDER <= win.w
    /\ TitleX(win) + FONT_WIDTH * Len(win.title) <= Width
    /\ \A k \in 1 .. Len(win.title) : win.title[k] # "NL"

(* Each pixel shows the topmost window there, undisturbed by the others,   *)
(* and the desktop where no window is.                                     *)
Over(win, m) == Inside(m, win.x, win.y, win.w, win.h)
ShowsWindows(t) ==
    LET all == 1 .. Least(Len(t.wins), WM_MAX_WINDOWS)
        win(k) == t.wins[k]
        topmost(k, m) == Over(win(k), m) /\ \A j \in all : j > k => ~ Over(win(j), m)
    IN  (\A k \in all : Roomy(win(k))) =>
            \A m \in VideoMemory :
                IF m \notin OnScreen THEN pixels[m] = "untouched"
                ELSE /\ (\A k \in all : ~ Over(win(k), m)) => pixels[m] = "desktop"
                     /\ \A k \in all : topmost(k, m) =>
                            pixels[m] = View(win(k), X(m) - win(k).x, Y(m) - win(k).y)

(* The picture is what was asked for, and nothing outside of it, neither   *)
(* behind the right end of a row nor anywhere else, has been written.      *)
DrawsWhatWasAsked ==
    Drawn =>
        CASE asked.op = "rect"    -> IsOutline(asked)
          [] asked.op = "line"    -> IsLine(asked)
          [] asked.op = "string"  -> IsLaidOut(asked)
          [] asked.op = "windows" -> ShowsWindows(asked)
=============================================================================
