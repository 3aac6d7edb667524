------------------------------ MODULE Keyboard ------------------------------
(***************************************************************************)
(* The PS/2 keyboard driver, kernel/keyboard.c: the IRQ1 handler translates*)
(* scan codes and fills a ring buffer; keyboard_getchar, called by the     *)
(* shell, empties it and sleeps with hlt while it is empty.                *)
(*                                                                         *)
(* The handler is one action, for it runs with IF = 0.  keyboard_getchar   *)
(* runs with IF = 1 and is cut at every access to a volatile variable.     *)
(* A character is a pair of a key and whether the shifted table was used.  *)
(***************************************************************************)
EXTENDS Integers, Sequences

CONSTANTS
    BufferSize,     \* BUFFER_SIZE: masking with BUFFER_SIZE - 1 is % for it
    ShiftKeys,      \* SC_LEFT_SHIFT, SC_RIGHT_SHIFT
    CharKeys,       \* keys with an entry in scancode_table
    OtherKeys,      \* keys whose entry is 0, and codes beyond the table
    WireSize        \* bound: scan codes the controller holds for the CPU

ASSUME BufferAssumption == BufferSize \in Nat /\ BufferSize >= 2
ASSUME WireAssumption == WireSize \in Nat
ASSUME KeysAssumption ==
    ShiftKeys # {} /\ ShiftKeys \cap (CharKeys \cup OtherKeys) = {}

Keys  == ShiftKeys \cup CharKeys \cup OtherKeys
Chars == [key : CharKeys, shifted : BOOLEAN]
Places == 0 .. BufferSize - 1
NoChar == [key |-> "none", shifted |-> FALSE]

VARIABLES
    held,           \* the keys that are physically down
    wire,           \* scan codes sent and not yet read from port 0x60
    buf, buf_read, buf_write, shift_held,
    pc,             \* where the reader is in keyboard_getchar
    c               \* its local, and the value it returns

deviceVars == <<held, wire>>
bufferVars == <<buf, buf_read, buf_write>>
vars == <<held, wire, buf, buf_read, buf_write, shift_held, pc, c>>

Init ==
    /\ held = {} /\ wire = <<>>
    /\ buf = [i \in Places |-> NoChar]
    /\ buf_read = 0 /\ buf_write = 0
    /\ shift_held = FALSE
    /\ pc = "busy" /\ c = NoChar

----------------------------------------------------------------------------
(* The user and the keyboard: a key that goes down sends its make code     *)
(* (again and again while it is held), a key that goes up its break code.  *)

Press(k) ==
    /\ Len(wire) < WireSize
    /\ held' = held \cup {k}
    /\ wire' = Append(wire, [key |-> k, up |-> FALSE])
    /\ UNCHANGED <<bufferVars, shift_held, pc, c>>

Release(k) ==
    /\ Len(wire) < WireSize
    /\ k \in held
    /\ held' = held \ {k}
    /\ wire' = Append(wire, [key |-> k, up |-> TRUE])
    /\ UNCHANGED <<bufferVars, shift_held, pc, c>>

----------------------------------------------------------------------------
(* keyboard_callback.                                                      *)

Advance(i) == (i + 1) % BufferSize

(* Any interrupt ends a hlt; the loop then tests the buffer again.         *)
WakeReader == pc' = IF pc = "hlt" THEN "test" ELSE pc

Scan(k, up) == wire # <<>> /\ Head(wire) = [key |-> k, up |-> up]

\* Mutant of KeyUp: the release of Shift is not tracked.
KeyUpUntracked ==
    \E k \in Keys :
        /\ Scan(k, TRUE)
        /\ UNCHANGED shift_held
        /\ wire' = Tail(wire)
        /\ WakeReader
        /\ UNCHANGED <<held, bufferVars, c>>
KeyUp ==
    \E k \in Keys :
        /\ Scan(k, TRUE)
        /\ shift_held' = IF k \in ShiftKeys THEN FALSE ELSE shift_held
        /\ wire' = Tail(wire)
        /\ WakeReader
        /\ UNCHANGED <<held, bufferVars, c>>

ShiftDown ==
    \E k \in ShiftKeys :
        /\ Scan(k, FALSE)
        /\ shift_held' = TRUE
        /\ wire' = Tail(wire)
        /\ WakeReader
        /\ UNCHANGED <<held, bufferVars, c>>

OtherDown ==
    \E k \in OtherKeys :
        /\ Scan(k, FALSE)
        /\ wire' = Tail(wire)
        /\ WakeReader
        /\ UNCHANGED <<held, bufferVars, shift_held, c>>

\* Mutant of Full: the ring is filled to its last place.
NeverFull == FALSE
Full == Advance(buf_write) = buf_read

CharStored ==
    \E k \in CharKeys :
        /\ Scan(k, FALSE)
        /\ ~ Full
        /\ buf' = [buf EXCEPT ![buf_write] = [key |-> k, shifted |-> shift_held]]
        /\ buf_write' = Advance(buf_write)
        /\ wire' = Tail(wire)
        /\ WakeReader
        /\ UNCHANGED <<held, buf_read, shift_held, c>>

CharDropped ==
    \E k \in CharKeys :
        /\ Scan(k, FALSE)
        /\ Full
        /\ wire' = Tail(wire)
        /\ WakeReader
        /\ UNCHANGED <<held, bufferVars, shift_held, c>>

KeyIrq == KeyUp \/ ShiftDown \/ OtherDown \/ CharStored \/ CharDropped

\* Mutant of TimerIrq: the timer's line is masked.
TimerMasked == FALSE /\ UNCHANGED vars
(* IRQ0: of the timer, the reader only notices that its hlt is over.       *)
TimerIrq ==
    /\ pc = "hlt"
    /\ pc' = "test"
    /\ UNCHANGED <<deviceVars, bufferVars, shift_held, c>>

----------------------------------------------------------------------------
(* keyboard_getchar, one volatile access at a time.                        *)

Call ==
    /\ pc = "busy"
    /\ pc' = "test"
    /\ c' = NoChar
    /\ UNCHANGED <<deviceVars, bufferVars, shift_held>>

HasChar == buf_read # buf_write

Test ==
    /\ pc = "test"
    /\ pc' = IF HasChar THEN "read" ELSE "halt"
    /\ UNCHANGED <<deviceVars, bufferVars, shift_held, c>>

(* The hlt is an instruction of its own: an interrupt that comes between   *)
(* the test and the hlt does not end that hlt.                             *)
Halt ==
    /\ pc = "halt"
    /\ pc' = "hlt"
    /\ UNCHANGED <<deviceVars, bufferVars, shift_held, c>>

Read ==
    /\ pc = "read"
    /\ c' = buf[buf_read]
    /\ pc' = "advance"
    /\ UNCHANGED <<deviceVars, bufferVars, shift_held>>

AdvanceRead ==
    /\ pc = "advance"
    /\ buf_read' = Advance(buf_read)
    /\ pc' = "busy"
    /\ UNCHANGED <<deviceVars, buf, buf_write, shift_held, c>>

Reader == Call \/ Test \/ Halt \/ Read \/ AdvanceRead

User == \E k \in Keys : Press(k) \/ Release(k)

Next == User \/ KeyIrq \/ TimerIrq \/ Reader

Spec == Init /\ [][Next]_vars

(* The user types when he likes.  The shell comes back for the next        *)
(* character, interrupts are served, and the timer never stops.            *)
FairSpec ==
    Spec /\ WF_vars(KeyIrq) /\ WF_vars(TimerIrq) /\ WF_vars(Reader)

----------------------------------------------------------------------------
(* Properties.                                                             *)

(* Every variable stays in its range; unread places hold characters.       *)
TypeOK ==
    /\ held \subseteq Keys
    /\ wire \in Seq([key : Keys, up : BOOLEAN]) /\ Len(wire) <= WireSize
    /\ buf \in [Places -> Chars \cup {NoChar}]
    /\ buf_read \in Places /\ buf_write \in Places
    /\ shift_held \in BOOLEAN
    /\ pc \in {"busy", "test", "halt", "hlt", "read", "advance"}
    /\ c \in Chars \cup {NoChar}

(* The characters between the two indices, oldest first.                   *)
Count == IF buf_read <= buf_write THEN buf_write - buf_read
                                  ELSE buf_write + BufferSize - buf_read
Pending ==
    [i \in 1 .. Count |-> buf[IF buf_read + i - 1 < BufferSize
                              THEN buf_read + i - 1
                              ELSE buf_read + i - 1 - BufferSize]]

(* The ring is a queue: nothing that was accepted is lost, overwritten,    *)
(* read twice or reordered, whatever the handler does between two accesses *)
(* of the reader; it holds up to BUFFER_SIZE - 1 characters.               *)
Queue == INSTANCE BoundedFifo WITH
    Item <- Chars, Capacity <- BufferSize - 1, NoItem <- NoChar,
    queue <- Pending, taken <- IF pc = "busy" THEN c ELSE NoChar
IsQueue == Queue!FifoSpec

(* A character that was accepted reaches the shell, although the handler   *)
(* may run between the reader's test and its hlt.                          *)
CharsReachTheShell == Count > 0 ~> pc = "busy" /\ c # NoChar

(* The shifted table is never used while no Shift key is down, and always  *)
(* while all are, for every scan code that the handler has caught up with. *)
(* In between the one flag cannot say: it is cleared when either key goes  *)
(* up, although the other may still be down.                               *)
ShiftFollowsKeys ==
    wire = <<>> => /\ shift_held => held \cap ShiftKeys # {}
                   /\ ShiftKeys \subseteq held => shift_held
=============================================================================
