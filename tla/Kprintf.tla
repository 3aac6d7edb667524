------------------------------ MODULE Kprintf ------------------------------
(***************************************************************************)
(* kernel/kprintf.c: formatted output.  A step prints one character of the *)
(* format or one conversion.  A character is a one-letter string; a format *)
(* is a sequence of them without its terminator, which CharAt supplies.    *)
(***************************************************************************)
EXTENDS Integers, Sequences

CONSTANTS
    WordSize,       \* 2^32
    TmpDigits,      \* 11: what the scratch buffer of uint_to_str takes
    Chars,          \* the character set
    Prints          \* what callers print: sequences of literals and fields

NUL == "NUL"
Space == " "
Numerals == <<"0", "1", "2", "3", "4", "5", "6", "7", "8", "9",
              "a", "b", "c", "d", "e", "f">>
Figures == {Numerals[k] : k \in 1 .. 10}
ValueOf(figure) == (CHOOSE k \in 1 .. 16 : Numerals[k] = figure) - 1

(* The number that figures stand for, the most significant one first.      *)
Value(figures, base) ==
    LET v[k \in 0 .. Len(figures)] ==
            IF k = 0 THEN 0 ELSE v[k - 1] * base + ValueOf(figures[k])
    IN  v[Len(figures)]

(* The caller's side: a literal is [lit], a field is [left, zero, width,   *)
(* conv, arg]; width is a sequence of figures; conv = NUL is a format that *)
(* ends inside a conversion.                                               *)
IsLiteral(i) == DOMAIN i = {"lit"}
Spelled(i) ==
    IF IsLiteral(i) THEN <<i.lit>>
    ELSE <<"%">> \o (IF i.left THEN <<"-">> ELSE <<>>)
                 \o (IF i.zero THEN <<"0">> ELSE <<>>) \o i.width
                 \o (IF i.conv = NUL THEN <<>> ELSE <<i.conv>>)
Fetching == {"s", "d", "u", "x", "c"}
Null == <<NUL>>     \* a null pointer for a string
Given(i) == IF ~ IsLiteral(i) /\ i.conv \in Fetching THEN <<i.arg>> ELSE <<>>

(* What the first k of some sequences make in a row.                       *)
InARow(seqs) ==
    LET row[k \in 0 .. Len(seqs)] == IF k = 0 THEN <<>> ELSE row[k - 1] \o seqs[k]
    IN  row
Format(items) == InARow([k \in DOMAIN items |-> Spelled(items[k])])
Arguments(items) == InARow([k \in DOMAIN items |-> Given(items[k])])

VARIABLES
    print,          \* what the caller prints
    fmt, args,      \* the format, and the arguments not fetched yet
    p,              \* the place in fmt, 1 for its first character
    out             \* what each step emitted

fmtVars == <<print, fmt, args, p, out>>

FmtInit == print = <<>> /\ fmt = <<>> /\ args = <<>> /\ p = 1 /\ out = <<>>

CharAt(k) == IF k <= Len(fmt) THEN fmt[k] ELSE NUL

----------------------------------------------------------------------------
(* The number v, and what is left of it behind every round of the loop.    *)
Divided(v, base) ==
    LET val[k \in 0 .. TmpDigits] == IF k = 0 THEN v ELSE val[k - 1] \div base
    IN  val

(* Every round takes a digit, the first round even that of 0.  They are    *)
(* reversed from the scratch buffer.                                       *)
uint_to_str(v, base) ==
    LET val == Divided(v, base)
        digits == CHOOSE n \in 1 .. TmpDigits :
                      /\ val[n] = 0 \/ n = TmpDigits
                      /\ \A k \in 1 .. n - 1 : val[k] # 0
    IN  [k \in 1 .. digits |-> Numerals[(val[digits - k] % base) + 1]]

Times(k, ch) == [i \in 1 .. k |-> ch]
pad_and_print(text, width, left, pad) ==
    LET missing == IF width > Len(text) THEN width - Len(text) ELSE 0
    IN  IF left THEN text \o Times(missing, Space) ELSE Times(missing, pad) \o text

----------------------------------------------------------------------------
(* What follows a percent sign at p: flags, width, conversion.             *)

Left == CharAt(p + 1) = "-"
Zero == CharAt(p + 1) = "0"         \* no zero flag after "-"
WidthFrom == IF Left \/ Zero THEN p + 2 ELSE p + 1
Conversion ==
    CHOOSE k \in WidthFrom .. Len(fmt) + 1 :
        /\ CharAt(k) \notin Figures
        /\ \A j \in WidthFrom .. k - 1 : CharAt(j) \in Figures
FieldWidth == Value(SubSeq(fmt, WidthFrom, Conversion - 1), 10)
PadChar == IF Zero THEN "0" ELSE Space

Unsigned(v) == v % WordSize
Negated(v) == (0 - Unsigned(v)) % WordSize

\* Mutant of Signed: the sign is not counted in the width.
SignedUncounted(v) ==
    IF v < 0 THEN <<"-">> \o pad_and_print(uint_to_str(Negated(v), 10), FieldWidth, Left, PadChar)
             ELSE pad_and_print(uint_to_str(v, 10), FieldWidth, Left, PadChar)
(* %d: the sign goes out before the padding, blanks included.              *)
Signed(v) ==
    IF v < 0
    THEN <<"-">> \o pad_and_print(uint_to_str(Negated(v), 10),
                                  IF FieldWidth > 0 THEN FieldWidth - 1 ELSE FieldWidth, Left, PadChar)
    ELSE pad_and_print(uint_to_str(v, 10), FieldWidth, Left, PadChar)

\* %s shows a null pointer, too.
TextOf(arg) == IF arg = Null THEN <<"(", "n", "u", "l", "l", ")">> ELSE arg

Field ==
    LET ch == CharAt(Conversion) IN
    CASE ch = "s" -> pad_and_print(TextOf(Head(args)), FieldWidth, Left, Space)
      [] ch = "d" -> Signed(Head(args))
      [] ch = "u" -> pad_and_print(uint_to_str(Unsigned(Head(args)), 10), FieldWidth, Left, PadChar)
      [] ch = "x" -> pad_and_print(uint_to_str(Unsigned(Head(args)), 16), FieldWidth, Left, PadChar)
      [] ch = "c" -> Head(args)      \* emitted without its width
      [] ch = "%" -> <<"%">>
      [] OTHER    -> <<"%", ch>>

----------------------------------------------------------------------------
ASSUME WordSizeAssumption == WordSize \in Nat \ {0} /\ WordSize % 2 = 0
\* The scratch buffer takes every digit of the largest word.
ASSUME TmpAssumption == TmpDigits \in Nat \ {0} /\ Divided(WordSize - 1, 10)[TmpDigits] = 0
ASSUME CharsAssumption ==
    {Numerals[k] : k \in 1 .. 16} \cup {"%", "-", Space, "(", "n", "u", "l", ")", NUL} \subseteq Chars

(* What a caller may print: a width that fits an int, a conversion that is *)
(* not taken for one more flag or figure, an argument of the type that it  *)
(* fetches, which is one character for %c.                                 *)
IsItem(i) ==
    IF IsLiteral(i) THEN i.lit \in Chars \ {"%", NUL}
    ELSE /\ i.left \in BOOLEAN /\ i.zero \in BOOLEAN
         /\ i.width \in Seq(Figures) /\ (i.width # <<>> => i.width[1] # "0")
         /\ Value(i.width, 10) < WordSize \div 2
         /\ i.conv \in Chars \ (Figures \cup {"-"})
         /\ i.conv \in {"s", "c"} => i.arg \in Seq(Chars)
         /\ i.conv = "c" => Len(i.arg) = 1
         /\ i.conv \in {"u", "x"} => i.arg \in Int
         /\ i.conv = "d" => i.arg \in 0 - (WordSize \div 2) .. (WordSize \div 2) - 1
ASSUME PrintsAssumption ==
    \A items \in Prints :
        /\ items \in Seq({items[k] : k \in DOMAIN items})
        /\ \A k \in DOMAIN items :
              /\ IsItem(items[k])
              \* only the last item can end the format
              /\ ~ IsLiteral(items[k]) /\ items[k].conv = NUL => k = Len(items)

----------------------------------------------------------------------------
CallKprintf ==
    /\ print = <<>>
    /\ print' \in Prints
    /\ fmt' = Format(print')[Len(print')]
    /\ args' = Arguments(print')[Len(print')]
    /\ UNCHANGED <<p, out>>

Scanning == print # <<>> /\ p <= Len(fmt)

Literal ==
    /\ Scanning /\ fmt[p] # "%"
    /\ out' = Append(out, <<fmt[p]>>)
    /\ p' = p + 1
    /\ UNCHANGED <<print, fmt, args>>

(* When the format ends inside a conversion, its NUL is printed and        *)
(* stepped over.                                                           *)
Convert ==
    /\ Scanning /\ fmt[p] = "%"
    /\ out' = Append(out, Field)
    /\ args' = IF CharAt(Conversion) \in Fetching THEN Tail(args) ELSE args
    /\ p' = Conversion + 1
    /\ UNCHANGED <<print, fmt>>

(* Behind the terminator the scan would go on through whatever lies there; *)
(* here it ends.                                                           *)
Printed == print # <<>> /\ p > Len(fmt)
ReturnKprintf ==
    /\ Printed
    /\ print' = <<>> /\ fmt' = <<>> /\ args' = <<>> /\ p' = 1 /\ out' = <<>>

FmtNext == CallKprintf \/ Literal \/ Convert \/ ReturnKprintf

FmtSpec == FmtInit /\ [][FmtNext]_fmtVars

----------------------------------------------------------------------------
(* Properties.                                                             *)

(* ds is the numeral of v: the right value, and no leading zero.           *)
IsNumeral(ds, base, v) ==
    /\ ds # <<>> /\ (ds[1] = "0" => Len(ds) = 1)
    /\ \A k \in DOMAIN ds : \E m \in DOMAIN Numerals : ds[k] = Numerals[m]
    /\ Value(ds, base) = v

All(o, ch) == \A k \in DOMAIN o : o[k] = ch
WidthOf(i) == Value(i.width, 10)
Fills(i, o, size) == Len(o) = IF size > WidthOf(i) THEN size ELSE WidthOf(i)

(* As printf has it, o is blanks, the sign, zeros, the numeral of v and    *)
(* blanks: zeros only behind the zero flag, and blanks behind the numeral  *)
(* only on the left of the field, where there is nothing in front.         *)
IsNumber(i, o, sign, base, v) ==
    \E a \in Len(sign) .. Len(o), b \in 1 .. Len(o) :
        LET blanks == IF i.left \/ i.zero THEN 0 ELSE a - Len(sign) IN
        /\ IsNumeral(SubSeq(o, a + 1, b), base, v)
        /\ SubSeq(o, blanks + 1, blanks + Len(sign)) = sign
        /\ All(SubSeq(o, 1, blanks), Space)
        /\ Fills(i, o, Len(sign) + b - a)
        /\ IF i.left THEN a = Len(sign) /\ All(SubSeq(o, b + 1, Len(o)), Space)
                     ELSE b = Len(o) /\ All(SubSeq(o, blanks + Len(sign) + 1, a), "0")

IsText(i, o, text) ==
    /\ Fills(i, o, Len(text))
    /\ IF i.left THEN /\ SubSeq(o, 1, Len(text)) = text
                      /\ All(SubSeq(o, Len(text) + 1, Len(o)), Space)
       ELSE /\ SubSeq(o, Len(o) - Len(text) + 1, Len(o)) = text
            /\ All(SubSeq(o, 1, Len(o) - Len(text)), Space)

(* The conversions that kprintf.h lists, with the flags that C defines for *)
(* them.  Of others, printf promises nothing.                              *)
Specified(i) == \/ i.conv \in {"d", "u", "x"}
                \/ i.conv \in {"s", "c"} /\ ~ i.zero
                \/ i.conv = "%" /\ ~ i.left /\ ~ i.zero /\ i.width = <<>>

(* o is what printf prints of i, and kprintf.h's "(null)".                 *)
AsPrintf(i, o) ==
    CASE i.conv = "s" -> IsText(i, o, IF i.arg = Null THEN <<"(", "n", "u", "l", "l", ")">>
                                                      ELSE i.arg)
      [] i.conv = "d" -> IsNumber(i, o, IF i.arg < 0 THEN <<"-">> ELSE <<>>, 10,
                                  IF i.arg < 0 THEN 0 - i.arg ELSE i.arg)
      [] i.conv = "u" -> IsNumber(i, o, <<>>, 10, i.arg % WordSize)
      [] i.conv = "x" -> IsNumber(i, o, <<>>, 16, i.arg % WordSize)
      [] i.conv = "c" -> IsText(i, o, i.arg)
      [] i.conv = "%" -> o = <<"%">>

(* Two exceptions, in which kprintf prints something else.  Where printf   *)
(* puts blanks and then a minus sign, o has the sign first.                *)
SignBeforeBlanks(i, o) ==
    /\ i.conv = "d" /\ i.arg < 0 /\ ~ i.left /\ ~ i.zero
    /\ Len(o) = WidthOf(i)
    /\ \E a \in 2 .. Len(o) - 1 :
          /\ o[1] = "-" /\ All(SubSeq(o, 2, a), Space)
          /\ IsNumeral(SubSeq(o, a + 1, Len(o)), 10, 0 - i.arg)

(* And a character stands alone in o, whatever width it was given.         *)
WidthIgnored(i, o) == i.conv = "c" /\ WidthOf(i) > 1 /\ o = i.arg

IsField(i, o) ==
    IF IsLiteral(i) THEN o = <<i.lit>>
    ELSE Specified(i) => AsPrintf(i, o) \/ SignBeforeBlanks(i, o) \/ WidthIgnored(i, o)

(* kprintf.h promises the syntax of printf.  Of the conversions it lists,  *)
(* with their flags in the one order that kprintf takes ("-", then "0"),   *)
(* kprintf prints what printf would, each argument in its own field, up to *)
(* the extreme numbers - but for the two exceptions above: the sign of a   *)
(* number that is padded with blanks, and the width of %c.  It stops at    *)
(* the end of the format, unless that is the middle of a conversion.       *)
OnlySignsAndCharsDiffer ==
    Printed =>
        /\ Len(out) = Len(print)
        /\ \A k \in DOMAIN print : IsField(print[k], out[k])
        /\ p = Len(fmt) + 1 \/ print[Len(print)].conv = NUL
=============================================================================
