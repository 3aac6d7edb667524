---------------------------- MODULE MCInterrupts ----------------------------
(* PICs of four lines.  The kernel's own drivers, one for a line of the    *)
(* slave on top of them, and that one with the cascade line.               *)
EXTENDS Interrupts

DriverSets == {{0, 1}, {0, 1, 5}, {0, 1, 2, 5}}
=============================================================================
