----------------------------- MODULE MCLibrary -----------------------------
(***************************************************************************)
(* The parts of the kernel that have nothing to wait for: a caller or the  *)
(* CPU starts one of them and it runs to its end.  A behaviour is about    *)
(* one of them, its subject; the others do nothing.                        *)
(***************************************************************************)
EXTENDS Strings, Kprintf, Drawing, Descriptors, Clock

VARIABLE subject

libVars == <<strVars, fmtVars, drawVars, dscVars, clkVars, subject>>

LibInit ==
    /\ subject \in {"string", "kprintf", "drawing", "interrupt", "clock"}
    /\ StrInit /\ FmtInit /\ DrawInit /\ DscInit /\ ClkInit
    /\ subject # "string" => bytes = [a \in Addr |-> 0]

StringRuns ==
    /\ subject = "string" /\ StrNext
    /\ UNCHANGED <<fmtVars, drawVars, dscVars, clkVars, subject>>
KprintfRuns ==
    /\ subject = "kprintf" /\ FmtNext
    /\ UNCHANGED <<strVars, drawVars, dscVars, clkVars, subject>>
DrawingRuns ==
    /\ subject = "drawing" /\ DrawNext
    /\ UNCHANGED <<strVars, fmtVars, dscVars, clkVars, subject>>
InterruptRuns ==
    /\ subject = "interrupt" /\ DscNext
    /\ UNCHANGED <<strVars, fmtVars, drawVars, clkVars, subject>>
ClockRuns ==
    /\ subject = "clock" /\ ClkNext
    /\ UNCHANGED <<strVars, fmtVars, drawVars, dscVars, subject>>

LibNext == StringRuns \/ KprintfRuns \/ DrawingRuns \/ InterruptRuns \/ ClockRuns

(* Code that has been entered goes on; callers, the CPU's signals and the  *)
(* PIT's ticks need not come.                                              *)
LibSpec ==
    /\ LibInit /\ [][LibNext]_libVars
    /\ WF_libVars(loop # "idle" /\ StringRuns)
    /\ WF_libVars(print # <<>> /\ KprintfRuns)
    /\ WF_libVars(asked # Nothing /\ DrawingRuns)
    /\ WF_libVars(step # "running" /\ InterruptRuns)
    /\ WF_libVars(ClkStep /\ ClockRuns)

(* Every call ends, whatever its arguments: no loop of a string function,  *)
(* no scan of a format and no line runs on for ever, for each counts       *)
(* towards its end.  The boot gets to its lidt, unless the CPU is reset    *)
(* first, a device's interrupt returns, an exception halts, and reboot     *)
(* resets the CPU.                                                         *)
CallsReturn ==
    /\ loop # "idle" ~> loop = "idle"
    /\ print # <<>> ~> print = <<>>
    /\ asked # Nothing ~> asked = Nothing
    /\ (subject = "interrupt" /\ step \notin {"running", "halted", "reset"})
          ~> step \in {"running", "halted", "reset"}
    /\ step = "irq_handler" ~> step = "running"
    /\ step = "int3" ~> step = "reset"
    /\ reading = "cmd_uptime" ~> reading = "done"
    /\ reading = "sysinfo_task" ~> reading = "done"

----------------------------------------------------------------------------
(* What is printed: one field of every kind behind a literal, two fields   *)
(* in one format, and formats that end inside a conversion.                *)
Lit(ch) == [lit |-> ch]
Fields(left, zero, width, conv, arg) ==
    [left : left, zero : zero, width : width, conv : conv, arg : arg]
Widths == {<<>>, <<"3">>, <<"1", "0">>}
Numbers == {0, 9, 10, 255, 32767, -1, -10, -32768}
Words == {<<>>, Null, <<"h", "i">>, <<"h", "e", "l", "l", "o">>}
AllFields ==
    Fields(BOOLEAN, BOOLEAN, Widths, {"d", "u", "x"}, Numbers)
    \cup Fields(BOOLEAN, BOOLEAN, Widths, {"s"}, Words)
    \cup Fields(BOOLEAN, BOOLEAN, Widths, {"c"}, {<<"q">>})
    \cup Fields(BOOLEAN, BOOLEAN, Widths, {"%", "z", NUL}, {0})
SomePrints ==
    {<<Lit("n"), f>> : f \in AllFields}
    \cup {<<f, Lit("s"), g, Lit("-")>> :
            f \in Fields({FALSE}, {FALSE}, {<<>>, <<"3">>}, {"s"}, {<<"h", "i">>}),
            g \in Fields({TRUE}, {FALSE}, {<<"3">>}, {"u"}, {7, 1234})}

Ascii == {"0", "1", "2", "3", "4", "5", "6", "7", "8", "9", "a", "b", "c", "d", "e", "f",
          "h", "i", "l", "n", "o", "q", "s", "u", "x", "z", "%", "-", " ", "(", ")", NUL}

(* What is drawn, on a screen of 12 by 10 pixels with letters of 2 by 2.   *)
Letters == [c \in {" ", "A", "B"} |->
    CASE c = " " -> {} [] c = "A" -> {<<0, 1>>, <<1, 0>>} [] c = "B" -> {<<0, 0>>, <<0, 1>>}]
Rects == [op : {"rect"}, x : {0, 2, 10, Wrap - 1}, y : {0, 3, 7}, w : {0, 1, 3, 5},
          h : {0, 1, 2, 4}, color : {"ink"}]
SomeLines == [op : {"line"}, x : {3, 0}, y : {4}, x1 : -2 .. 13, y1 : -1 .. 10,
              color : {"ink"}]
Texts == {<<>>, <<"A", "B">>, <<"A", "NL", "B">>, <<"A", "B", "A", "NL", "?", "B">>,
          <<"NL", "B", "A", "A", "A", "B">>}
SomeTexts == {String(x, y, str, "ink", "paper") : x \in {0, 6, 9, 11}, y \in {0, 5}, str \in Texts}
Win(x, y, w, h, title, ch) ==
    [x |-> x, y |-> y, w |-> w, h |-> h, title |-> title, ch |-> ch, cols |-> 0, rows |-> 0]
Left1 == Win(0, 0, 7, 9, <<"A", "B">>, "B")
Right1 == Win(7, 1, 5, 8, <<"A">>, "A")
Middle == Win(3, 2, 6, 8, <<>>, "?")
SomeWindows == {Left1, Right1, Middle, Win(8, 4, 9, 9, <<"B">>, "B"),
                Win(2, 2, 1, 3, <<>>, "A"), Win(6, 0, 6, 8, <<"A", "A", "A">>, "A")}
WindowLists ==
    {<<>>, <<Left1, Right1, Middle>>} \cup {<<a>> : a \in SomeWindows}
    \cup {<<a, b>> : a, b \in SomeWindows}
SomeRequests == Rects \cup SomeLines \cup SomeTexts \cup [op : {"windows"}, wins : WindowLists]

(* Stubs on both sides of a 64 KiB boundary.                               *)
Linked == [v \in Vectors |-> \h10FE80 + 16 * v]
=============================================================================
