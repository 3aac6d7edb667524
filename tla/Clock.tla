------------------------------- MODULE Clock -------------------------------
(***************************************************************************)
(* The time of day as far as the kernel knows it: kernel/timer.c programs  *)
(* the PIT and counts its ticks; the command uptime (kernel/shell.c) and   *)
(* the sysinfo window (kernel/kernel.c) take the count apart.  A tick may  *)
(* come between any two of their reads.                                    *)
(***************************************************************************)
EXTENDS Integers, Sequences

CONSTANTS
    PIT_BASE_FREQ, TIMER_HZ,
    Byte,           \* 256
    Sixty, Ten,     \* 60 and 10
    TickWrap,       \* 2^32
    MaxElapsed,     \* bound: ticks of a run
    MaxDelay        \* bound: ticks while the clock is being read

ASSUME ClockAssumption ==
    /\ PIT_BASE_FREQ \in Nat /\ TIMER_HZ \in 1 .. PIT_BASE_FREQ
    /\ Byte \in Nat \ {0} /\ PIT_BASE_FREQ \div TIMER_HZ < Byte * Byte
    /\ TickWrap \in Nat \ {0}
    /\ Sixty \in Nat \ {0} /\ Ten \in Nat \ {0}
    /\ Sixty <= Ten * Ten

VARIABLES
    pit,            \* bytes that the PIT's channel 0 got, after its command
    tick_count,
    elapsed,        \* ticks of the PIT, never wrapping
    reading,        \* who reads the clock
    since,          \* elapsed at the first read
    seconds,        \* what timer_get_uptime returned
    shown           \* what the reader writes

clkVars == <<pit, tick_count, elapsed, reading, since, seconds, shown>>

ClkInit ==
    /\ pit = <<>> /\ tick_count = 0 /\ elapsed = 0
    /\ reading = "boot" /\ since = 0 /\ seconds = 0 /\ shown = <<>>

timer_get_ticks  == tick_count
timer_get_uptime == tick_count \div TIMER_HZ

\* Mutant of Divisor: the high byte goes first.
DivisorSwapped ==
    LET divisor == PIT_BASE_FREQ \div TIMER_HZ
    IN  <<(divisor \div Byte) % Byte, divisor % Byte>>
Divisor ==
    LET divisor == PIT_BASE_FREQ \div TIMER_HZ
    IN  <<divisor % Byte, (divisor \div Byte) % Byte>>

timer_init ==
    /\ reading = "boot"
    /\ pit' = Divisor
    /\ reading' = "nobody"
    /\ UNCHANGED <<tick_count, elapsed, since, seconds, shown>>

timer_callback ==
    /\ reading # "boot" /\ elapsed < MaxElapsed
    /\ reading # "nobody" => elapsed - since < MaxDelay
    /\ tick_count' = (tick_count + 1) % TickWrap
    /\ elapsed' = elapsed + 1
    /\ UNCHANGED <<pit, reading, since, seconds, shown>>

(* The first read of either reader.                                        *)
ReadUptime ==
    /\ reading = "nobody"
    /\ reading' \in {"cmd_uptime", "sysinfo_task"}
    /\ seconds' = timer_get_uptime /\ since' = elapsed
    /\ UNCHANGED <<pit, tick_count, elapsed, shown>>

minutes == seconds \div Sixty
hours   == minutes \div Sixty

(* The ticks are read when the seconds are known.                          *)
cmd_uptime ==
    /\ reading = "cmd_uptime"
    /\ shown' = <<hours, minutes % Sixty, seconds % Sixty, seconds, timer_get_ticks>>
    /\ reading' = "done"
    /\ UNCHANGED <<pit, tick_count, elapsed, since, seconds>>

(* buf: HH:MM:SS                                                           *)
Digits(k) == <<k \div Ten, k % Ten>>
sysinfo_task ==
    /\ reading = "sysinfo_task"
    /\ shown' = <<<<(hours \div Ten) % Ten, hours % Ten>>,
                  Digits(minutes % Sixty), Digits(seconds % Sixty)>>
    /\ reading' = "done"
    /\ UNCHANGED <<pit, tick_count, elapsed, since, seconds>>

ClkDone ==
    /\ reading = "done"
    /\ reading' = "nobody" /\ since' = 0 /\ seconds' = 0 /\ shown' = <<>>
    /\ UNCHANGED <<pit, tick_count, elapsed>>

ClkStep == cmd_uptime \/ sysinfo_task \/ ClkDone

ClkNext == timer_init \/ timer_callback \/ ReadUptime \/ ClkStep

ClkSpec == ClkInit /\ [][ClkNext]_clkVars

----------------------------------------------------------------------------
(* Properties.                                                             *)

(* The PIT, which takes the low byte first, ticks as near to TIMER_HZ as   *)
(* whole divisors allow.                                                   *)
Rate == reading # "boot" =>
    LET divisor == pit[1] + Byte * pit[2]
    IN  /\ divisor * TIMER_HZ <= PIT_BASE_FREQ
        /\ PIT_BASE_FREQ < (divisor + 1) * TIMER_HZ

IsTime(h, m, sec, total) ==
    m < Sixty /\ sec < Sixty /\ (h * Sixty + m) * Sixty + sec = total

Shown(ds) == ds[1] * Ten + ds[2]
AreDigits(ds) == ds[1] \in 0 .. Ten - 1 /\ ds[2] \in 0 .. Ten - 1

(* A reader shows the time that had passed when it began, as a clock does; *)
(* the window drops hours beyond two digits.  The ticks that uptime adds   *)
(* are counted later, so they may tell a later second than the one shown   *)
(* beside them.  All of it starts again from 0 every TickWrap ticks, and   *)
(* only then does a clock go back.                                         *)
ClockIsRight ==
    /\ Rate
    /\ reading = "done" =>
        /\ seconds = (since % TickWrap) \div TIMER_HZ
        /\ \/ /\ Len(shown) = 5
              /\ IsTime(shown[1], shown[2], shown[3], seconds) /\ shown[4] = seconds
              /\ \E e \in since .. elapsed : shown[5] = e % TickWrap
           \/ /\ Len(shown) = 3 /\ \A k \in 1 .. 3 : AreDigits(shown[k])
              /\ IsTime(Shown(shown[1]), Shown(shown[2]), Shown(shown[3]),
                        seconds % (Ten * Ten * Sixty * Sixty))
=============================================================================
