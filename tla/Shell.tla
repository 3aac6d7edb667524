------------------------------- MODULE Shell -------------------------------
(***************************************************************************)
(* The shell task, kernel/shell.c, and the console it writes to: prompt,   *)
(* line editor, tokenizer and commands.                                    *)
(*                                                                         *)
(* Output goes out one character a step.  The characters that the keyboard *)
(* driver delivers are the environment: any key at any time.  The texts of *)
(* the commands are abstracted to Report, and commands that only print one *)
(* (help, meminfo, uptime, tasks) are one action.                          *)
(***************************************************************************)
EXTENDS Console, Sequences

CONSTANTS
    MaxLine,        \* MAX_LINE
    MaxArgs,        \* MAX_ARGS
    Prompt,         \* "zolo> "
    Report,         \* what a command prints, up to its newline
    EchoName, ClearName, ReportNames, RebootName   \* the command table

NUL == "NUL"

ASSUME ShellAssumption ==
    /\ MaxLine \in Nat \ {0, 1} /\ MaxArgs \in Nat \ {0}
    /\ Prompt \in Seq(Printable) /\ Report \in Seq(Printable)
    /\ NUL \notin Letters

Keys == Printable \cup {NL, BS, TAB}

VARIABLES
    shell_window,   \* is there a window?  If not, the VGA screen is used
    con,            \* that window's console, or the screen
    out,            \* characters the current call has still to print
    pc,
    line,           \* the line buffer, up to pos; tokenized in place
    i, argv, in_token,   \* locals of shell_tokenize; argv holds indices
    arg             \* loop variable of cmd_echo

vars == <<shell_window, con, out, pc, line, i, argv, in_token, arg>>
parser == <<i, argv, in_token>>

Init ==
    /\ shell_window \in BOOLEAN
    /\ con = Cleared
    /\ out = <<>>
    /\ pc = "boot"
    /\ line = <<>>
    /\ i = 1 /\ argv = <<>> /\ in_token = FALSE
    /\ arg = 2

----------------------------------------------------------------------------
(* shell_putchar.                                                          *)
Emit ==
    /\ out # <<>>
    /\ con' = Putchar(shell_window, con, Head(out))
    /\ out' = Tail(out)
    /\ UNCHANGED <<shell_window, pc, line, parser, arg>>

(* A step of the shell itself comes when its last call has returned.       *)
At(label) == pc = label /\ out = <<>>

(* The drivers' messages, on the text screen only.                         *)
BootMessage ==
    /\ At("boot")
    /\ ~ shell_window
    /\ out' = Append(Report, NL)
    /\ UNCHANGED <<shell_window, con, pc, line, parser, arg>>

(* shell_run: the greeting, then the first prompt.                         *)
Start ==
    /\ At("boot")
    /\ out' = Append(Report, NL)
    /\ pc' = "prompt"
    /\ UNCHANGED <<shell_window, con, line, parser, arg>>

PrintPrompt ==
    /\ At("prompt")
    /\ out' = Prompt
    /\ line' = <<>>
    /\ pc' = "read"
    /\ UNCHANGED <<shell_window, con, parser, arg>>

----------------------------------------------------------------------------
(* shell_read_line: one round of its loop for each key.                    *)

Parse ==
    /\ pc' = "tokenize"
    /\ i' = 1 /\ argv' = <<>> /\ in_token' = FALSE

Enter ==
    /\ out' = <<NL>>
    /\ Parse
    /\ UNCHANGED line

\* Mutant of Erase: it does not look whether the line is empty.
EraseUnchecked ==
    /\ line' = SubSeq(line, 1, Len(line) - 1)
    /\ out' = <<BS>>
    /\ UNCHANGED <<pc, parser>>
Erase ==
    /\ IF line # <<>>
       THEN /\ line' = SubSeq(line, 1, Len(line) - 1)
            /\ out' = <<BS>>
       ELSE UNCHANGED <<line, out>>
    /\ UNCHANGED <<pc, parser>>

(* The loop ends when the buffer is full, too, without any newline.        *)
\* Mutant of Type: one character too many.
TypeTooMuch(c) ==
    /\ line' = Append(line, c)
    /\ out' = <<c>>
    /\ IF Len(line') <= MaxLine - 1 THEN UNCHANGED <<pc, parser>> ELSE Parse
Type(c) ==
    /\ line' = Append(line, c)
    /\ out' = <<c>>
    /\ IF Len(line') < MaxLine - 1 THEN UNCHANGED <<pc, parser>> ELSE Parse

Key(c) ==
    /\ At("read")
    /\ \/ c = NL /\ Enter
       \/ c = BS /\ Erase
       \/ c \in Printable /\ Type(c)
       \/ c = TAB /\ UNCHANGED <<out, line, pc, parser>>
    /\ UNCHANGED <<shell_window, con, arg>>

----------------------------------------------------------------------------
(* shell_tokenize: one round of its loop for each character.               *)

\* Mutant of Space: the token is not closed.
SpaceUnclosed ==
    /\ line' = [line EXCEPT ![i] = NUL]
    /\ UNCHANGED <<in_token, argv>>
Space ==
    /\ line' = [line EXCEPT ![i] = NUL]
    /\ in_token' = FALSE
    /\ UNCHANGED argv
Letter ==
    /\ in_token' = TRUE
    /\ argv' = IF in_token THEN argv ELSE Append(argv, i)
    /\ UNCHANGED line

TokenizeChar ==
    /\ At("tokenize")
    /\ i <= Len(line) /\ Len(argv) < MaxArgs
    /\ IF line[i] = Blank THEN Space ELSE Letter
    /\ i' = i + 1
    /\ UNCHANGED <<shell_window, con, out, pc, arg>>

TokenizeDone ==
    /\ At("tokenize")
    /\ i > Len(line) \/ Len(argv) = MaxArgs
    /\ pc' = "execute"
    /\ UNCHANGED <<shell_window, con, out, line, parser, arg>>

(* The C string that starts at argv[k].                                    *)
Ends(s) == {e \in s .. Len(line) : line[e] = NUL} \cup {Len(line) + 1}
StringEnd(s) == CHOOSE e \in Ends(s) : \A d \in Ends(s) : e <= d
Arg(k) == SubSeq(line, argv[k], StringEnd(argv[k]) - 1)

----------------------------------------------------------------------------
(* shell_execute and the commands.                                         *)

NoCommand ==
    /\ At("execute")
    /\ argv = <<>>
    /\ pc' = "prompt"
    /\ UNCHANGED <<shell_window, con, out, line, parser, arg>>

cmd_clear ==
    /\ At("execute")
    /\ argv # <<>> /\ Arg(1) = ClearName
    /\ con' = Cleared
    /\ pc' = "prompt"
    /\ UNCHANGED <<shell_window, out, line, parser, arg>>

cmd_reboot ==
    /\ At("execute")
    /\ argv # <<>> /\ Arg(1) = RebootName
    /\ out' = Append(Report, NL)
    /\ pc' = "off"
    /\ UNCHANGED <<shell_window, con, line, parser, arg>>

cmd_report ==
    /\ At("execute")
    /\ argv # <<>> /\ Arg(1) \in ReportNames
    /\ out' = Append(Report, NL)
    /\ pc' = "prompt"
    /\ UNCHANGED <<shell_window, con, line, parser, arg>>

Names == {EchoName, ClearName, RebootName} \cup ReportNames
UnknownCommand ==
    /\ At("execute")
    /\ argv # <<>> /\ Arg(1) \notin Names
    /\ out' = Append(Report \o Arg(1), NL)
    /\ pc' = "prompt"
    /\ UNCHANGED <<shell_window, con, line, parser, arg>>

cmd_echo ==
    /\ At("execute")
    /\ argv # <<>> /\ Arg(1) = EchoName
    /\ arg' = 2
    /\ pc' = "echo"
    /\ UNCHANGED <<shell_window, con, out, line, parser>>

(* One round of cmd_echo's loop, and its end.                              *)
EchoArg ==
    /\ At("echo")
    /\ arg <= Len(argv)
    /\ out' = (IF arg > 2 THEN <<Blank>> ELSE <<>>) \o Arg(arg)
    /\ arg' = arg + 1
    /\ UNCHANGED <<shell_window, con, pc, line, parser>>
EchoDone ==
    /\ At("echo")
    /\ arg > Len(argv)
    /\ out' = <<NL>>
    /\ pc' = "prompt"
    /\ UNCHANGED <<shell_window, con, line, parser, arg>>

Execute ==
    \/ NoCommand \/ UnknownCommand
    \/ cmd_clear \/ cmd_reboot \/ cmd_report
    \/ cmd_echo \/ EchoArg \/ EchoDone

Next ==
    \/ Emit \/ BootMessage \/ Start \/ PrintPrompt
    \/ \E c \in Keys : Key(c)
    \/ TokenizeChar \/ TokenizeDone
    \/ Execute

Spec == Init /\ [][Next]_vars

----------------------------------------------------------------------------
(* Properties.                                                             *)

(* Every variable stays in its range: the cursor in the grid, the line and *)
(* its terminator in the buffer, argv in its array.                        *)
TypeOK ==
    /\ shell_window \in BOOLEAN
    /\ con \in Consoles
    /\ out \in Seq(Printable \cup {NL, BS})
    /\ pc \in {"boot", "prompt", "read", "tokenize", "execute", "echo", "off"}
    /\ line \in Seq(Printable \cup {NUL}) /\ Len(line) < MaxLine
    /\ i \in 1 .. Len(line) + 1 \/ pc \in {"prompt", "read"}
    /\ argv \in Seq(1 .. MaxLine) /\ Len(argv) <= MaxArgs
    /\ in_token \in BOOLEAN
    /\ arg \in 2 .. MaxArgs + 1

(* From the cursor on, the console is blank: output never mixes with text  *)
(* that was there before, although nothing but scrolling and clearing ever *)
(* blanks a row.                                                           *)
BlankAhead == \A k \in Cells : k >= Cursor(con) => con.text[k] = Blank

(* The cells before the cursor hold the text, or the end of it that is     *)
(* still on the console.                                                   *)
Shows(s, text) ==
    \A k \in 1 .. Len(text) :
        Cursor(s) - k \in Cells => s.text[Cursor(s) - k] = text[Len(text) + 1 - k]

(* "Characters are echoed to the screen as they're typed.  Backspace       *)
(* removes the last character": what stands before the cursor is the       *)
(* prompt and the line that Enter would run, up to what is on its way to   *)
(* the screen, or with the one character that is about to be removed.      *)
ScreenShowsLine ==
    LET text == Prompt \o line IN
    pc = "read" =>
        \/ \E k \in 0 .. Len(text) : /\ out = SubSeq(text, k + 1, Len(text))
                                     /\ Shows(con, SubSeq(text, 1, k))
        \/ out = <<BS>> /\ \E c \in Printable : Shows(con, Append(text, c))

(* Screen and line come apart in one way only: a character is erased when  *)
(* the cursor is at the left margin, after the line has wrapped.           *)
OnlyTheMarginConfuses ==
    [][ScreenShowsLine /\ ~ ScreenShowsLine' => out = <<BS>> /\ con.col = 0]_vars

(* The commands see the words of the line, in order, the first MaxArgs of  *)
(* them; the last of a full argv alone may run on to the end of the line.  *)
Typed == [k \in DOMAIN line |-> IF line[k] = NUL THEN Blank ELSE line[k]]
WordStarts == {k \in DOMAIN line : Typed[k] # Blank /\ (k > 1 => Typed[k - 1] = Blank)}
TokensAreWords ==
    pc \in {"execute", "echo"} =>
        /\ \A k \in DOMAIN argv :
              /\ argv[k] \in WordStarts
              /\ \A s \in WordStarts : s < argv[k] <=> \E j \in 1 .. k - 1 : s = argv[j]
              /\ k < MaxArgs => \A s \in argv[k] .. argv[k] + Len(Arg(k)) :
                    s \in DOMAIN line => (Typed[s] = Blank <=> s = argv[k] + Len(Arg(k)))
        /\ Len(argv) < MaxArgs => \A s \in WordStarts : \E k \in DOMAIN argv : s = argv[k]
=============================================================================
