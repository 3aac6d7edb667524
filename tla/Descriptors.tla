---------------------------- MODULE Descriptors ----------------------------
(***************************************************************************)
(* The tables that tell the CPU where to go: the GDT of kernel/gdt.c, the  *)
(* IDT of kernel/idt.c, and the way of an interrupt through a stub of      *)
(* boot/idt.asm to the C handler and back.  The last command of a session, *)
(* reboot, takes the IDT away again.                                       *)
(*                                                                         *)
(* A register holds a number that is its own; the stack is a sequence, its *)
(* top first.  The CPU's own steps (decoding a table entry,  *)
(* entering a gate, iret) are what the code relies on.                     *)
(***************************************************************************)
EXTENDS Integers, Sequences

CONSTANTS
    StubAddress,    \* where the linker put isr0 .. isr31, irq0 .. irq15
    IDT_ENTRIES     \* 256

Vectors    == 0 .. 47
Exceptions == 0 .. 31
ASSUME StubAssumption ==
    /\ StubAddress \in [Vectors -> Nat]
    /\ \A v, w \in Vectors : StubAddress[v] = StubAddress[w] => v = w
    /\ IDT_ENTRIES \in Nat /\ Vectors \subseteq 0 .. IDT_ENTRIES - 1

Low(k)  == k % 65536
High(k) == k \div 65536

VARIABLES
    gdt, gdtr,      \* the table, and how much of it the CPU knows
    idt, idtr,
    num,            \* the next entry to fill
    seg, reg,       \* segment registers, and all the others
    stack,
    vector,         \* what is being delivered
    was,            \* the registers when it came, <<>> before the first time
    step            \* where the CPU is

tables  == <<gdt, gdtr, idt, idtr, num>>
cpu     == <<seg, reg, stack, vector, was>>
dscVars == <<tables, cpu, step>>

General == <<"eax", "ecx", "edx", "ebx", "esp", "ebp", "esi", "edi">>
DataSegments == <<"ds", "es", "fs", "gs">>
SetOf(f) == {f[k] : k \in DOMAIN f}
Registers == SetOf(General) \cup {"eip", "eflags"}
Segments  == SetOf(DataSegments) \cup {"cs", "ss"}

NoEntry == [base_low |-> 0, base_mid |-> 0, base_high |-> 0,
            limit_low |-> 0, granularity |-> 0, access |-> 0]
NoGate  == [base_low |-> 0, base_high |-> 0, selector |-> 0, flags |-> 0]
Loaders == -1       \* a segment of the boot loader's GDT

(* Values that nothing else has: of the interrupted code, of the CPU.      *)
Held == [r \in Registers |->
            IF r = "eip" THEN 1001 ELSE IF r = "eflags" THEN 1002
            ELSE 1010 + (CHOOSE k \in DOMAIN General : General[k] = r)]
ErrorCode == 2001
NoIF      == 2002   \* eflags with interrupts disabled
Clobbered == 2003

DscInit ==
    /\ gdt = [i \in 0 .. 2 |-> NoEntry] /\ gdtr = 0
    /\ idt = [v \in 0 .. IDT_ENTRIES - 1 |-> NoGate] /\ idtr = 0
    /\ num = 0
    /\ seg = [r \in Segments |-> Loaders] /\ reg = Held
    /\ stack = <<>> /\ vector = 0 /\ was = <<>>
    /\ step = "gdt"

----------------------------------------------------------------------------
(* The boot.                                                               *)

gdt_set_entry(base, limit, access, gran) ==
    [base_low |-> Low(base), base_mid |-> High(base) % 256,
     base_high |-> High(base) \div 256, limit_low |-> Low(limit),
     granularity |-> (High(limit) % 16) + (gran \div 16) * 16, access |-> access]

gdt_entries ==
    <<gdt_set_entry(0, 0, 0, 0), gdt_set_entry(0, \hFFFFF, \h9A, \hCF),
      gdt_set_entry(0, \hFFFFF, \h92, \hCF)>>

GdtEntry ==
    /\ step = "gdt" /\ num <= 2
    /\ gdt' = [gdt EXCEPT ![num] = gdt_entries[num + 1]]
    /\ num' = num + 1
    /\ UNCHANGED <<gdtr, idt, idtr, cpu, step>>

(* lgdt, the far jump that loads cs, and the other segment registers.      *)
gdt_flush ==
    /\ step = "gdt" /\ num = 3
    /\ gdtr' = 8 * 3 - 1
    /\ seg' = [r \in Segments |-> IF r = "cs" THEN 8 ELSE 16]
    /\ num' = 0 /\ step' = "idt"
    /\ UNCHANGED <<gdt, idt, idtr, reg, stack, vector, was>>

idt_set_gate(handler, sel, type) ==
    [base_low |-> Low(handler), base_high |-> High(handler), selector |-> sel, flags |-> type]

(* idt_init: isr0 .. isr31 and irq0 .. irq15 in their order.               *)
IdtGate ==
    /\ step = "idt" /\ num \in Vectors
    /\ idt' = [idt EXCEPT ![num] = idt_set_gate(StubAddress[num], 8, \h8E)]
    /\ num' = num + 1
    /\ UNCHANGED <<gdt, gdtr, idtr, cpu, step>>

lidt ==
    /\ step = "idt" /\ num \notin Vectors
    /\ idtr' = 8 * IDT_ENTRIES - 1
    /\ step' = "running"
    /\ UNCHANGED <<gdt, gdtr, idt, num, cpu>>

----------------------------------------------------------------------------
(* The CPU enters a gate.                                                  *)

Base(e)  == e.base_low + 65536 * (e.base_mid + 256 * e.base_high)
Pages(e) == e.limit_low + 65536 * (e.granularity % 16)
Known(sel) == sel > 0 /\ sel + 7 <= gdtr
Entry(sel) == gdt[sel \div 8]
Present(flags) == flags \div 128 = 1
Ring(flags) == (flags \div 32) % 4
IsCode(sel) == Known(sel) /\ Present(Entry(sel).access) /\ (Entry(sel).access \div 8) % 4 = 3

Usable(v) ==
    /\ 8 * v + 7 <= idtr
    /\ Present(idt[v].flags) /\ idt[v].flags % 16 = 14
    /\ IsCode(idt[v].selector)

(* A vector without a usable gate becomes #GP, then #DF, then a reset.     *)
Chain(v) == <<v, 13, 8>>

CpuPushesCode == {8} \cup (10 .. 14) \cup {17, 21}

Enter32(v, w) ==
    /\ vector' = v /\ was' = <<reg, seg>>
    /\ stack' = (IF w \in CpuPushesCode THEN <<ErrorCode>> ELSE <<>>)
                \o <<reg["eip"], seg["cs"], reg["eflags"]>> \o stack
    /\ reg' = [reg EXCEPT !["eip"] = idt[w].base_low + 65536 * idt[w].base_high,
                          !["eflags"] = NoIF]
    /\ seg' = [seg EXCEPT !["cs"] = idt[w].selector]
    /\ step' = "stub"
    /\ UNCHANGED tables

Deliver(v) ==
    \/ \E k \in 1 .. 3 :
          /\ Usable(Chain(v)[k]) /\ \A j \in 1 .. k - 1 : ~ Usable(Chain(v)[j])
          /\ Enter32(v, Chain(v)[k])
    \/ /\ \A k \in 1 .. 3 : ~ Usable(Chain(v)[k])
       /\ step' = "reset"
       /\ UNCHANGED <<tables, cpu>>

(* Faults come at any time, devices are heard once the boot is over.       *)
Signal ==
    \E v \in Vectors :
        /\ step \in (IF v \in Exceptions THEN {"gdt", "idt", "running"} ELSE {"running"})
        /\ Deliver(v)

----------------------------------------------------------------------------
(* boot/idt.asm                                                            *)

(* push, push, ...: the last one ends on top.                              *)
Push(list) ==
    stack' = [k \in 1 .. Len(list) |-> list[Len(list) + 1 - k]] \o stack

\* Mutant of ErrorCodeStubs: #AC is taken for one of the others.
ErrorCodeStubsNoAC == {8, 10, 11, 12, 13, 14, 21}
ErrorCodeStubs == {8, 10, 11, 12, 13, 14, 17, 21}

(* The stub makes a dummy error code where the CPU gives none.             *)
Stub ==
    /\ step = "stub"
    /\ \E v \in Vectors :
          /\ reg["eip"] = StubAddress[v]
          /\ Push(IF v \in ErrorCodeStubs THEN <<v>> ELSE <<0, v>>)
          /\ step' = IF v \in Exceptions THEN "common_isr_stub" ELSE "common_irq_stub"
    /\ UNCHANGED <<tables, seg, reg, vector, was>>

(* pusha, the segment registers, the kernel's own segments, the call.      *)
Common ==
    /\ step \in {"common_isr_stub", "common_irq_stub"}
    /\ Push([k \in 1 .. 8 |-> reg[General[k]]] \o [k \in 1 .. 4 |-> seg[DataSegments[k]]])
    /\ seg' = [r \in Segments |-> IF r \in SetOf(DataSegments) THEN 16 ELSE seg[r]]
    /\ reg' = [reg EXCEPT !["eax"] = 16]
    /\ step' = IF step = "common_isr_stub" THEN "isr_handler" ELSE "irq_handler"
    /\ UNCHANGED <<tables, vector, was>>

(* interrupt_frame_t                                                       *)
FrameFields ==
    <<"gs", "fs", "es", "ds", "edi", "esi", "ebp", "esp", "ebx", "edx", "ecx", "eax",
      "int_no", "err_code", "eip", "cs", "eflags">>
Frame == [f \in SetOf(FrameFields) |->
            stack[CHOOSE k \in DOMAIN FrameFields : FrameFields[k] = f]]

(* The crash report, and the CPU stops for good.                           *)
isr_handler ==
    /\ step = "isr_handler"
    /\ reg' = [reg EXCEPT !["eflags"] = NoIF]
    /\ step' = "halted"
    /\ UNCHANGED <<tables, seg, stack, vector, was>>

(* A C function keeps four registers and the stack.                        *)
irq_handler ==
    /\ step = "irq_handler"
    /\ reg' = [r \in Registers |-> IF r \in {"eax", "ecx", "edx"} THEN Clobbered ELSE reg[r]]
    /\ step' = "back"
    /\ UNCHANGED <<tables, seg, stack, vector, was>>

(* Segment registers, popa (which leaves esp alone), two words dropped,    *)
(* iret.                                                                   *)
Back ==
    /\ step = "back"
    /\ seg' = [r \in Segments |-> IF r = "ss" THEN seg[r] ELSE Frame[r]]
    /\ reg' = [r \in Registers |-> IF r = "esp" THEN reg[r] ELSE Frame[r]]
    /\ stack' = SubSeq(stack, Len(FrameFields) + 1, Len(stack))
    /\ step' = "running"
    /\ UNCHANGED <<tables, vector, was>>

----------------------------------------------------------------------------
(* cmd_reboot: an empty IDT, then int 3.                                   *)
\* Mutant of cmd_reboot: int 3 without the lidt.
RebootWithIdt ==
    /\ step = "running"
    /\ step' = "int3"
    /\ UNCHANGED <<tables, cpu>>
cmd_reboot ==
    /\ step = "running"
    /\ idtr' = 0 /\ step' = "int3"
    /\ UNCHANGED <<gdt, gdtr, idt, num, cpu>>
Int3 == step = "int3" /\ Deliver(3)

DscStep == Stub \/ Common \/ isr_handler \/ irq_handler \/ Back \/ Int3

DscNext == GdtEntry \/ gdt_flush \/ IdtGate \/ lidt \/ Signal \/ cmd_reboot \/ DscStep

DscSpec == DscInit /\ [][DscNext]_dscVars

----------------------------------------------------------------------------
(* Properties.                                                             *)

(* A segment of ring 0 that is all of the address space.                   *)
Flat(sel) ==
    /\ Known(sel) /\ Base(Entry(sel)) = 0 /\ Pages(Entry(sel)) = 1048575
    /\ Present(Entry(sel).access) /\ Ring(Entry(sel).access) = 0
    /\ Entry(sel).granularity \div 64 = 3       \* pages, 32 bits

(* From the moment the IDT is loaded until reboot takes it away, whatever  *)
(* the CPU signals gets to its own stub and on to the C handler, in flat   *)
(* segments and with interrupts disabled.  The handler reads from its      *)
(* frame what happened and what every register held, and the interrupted   *)
(* code never notices: the frame has one shape, with an error code of the  *)
(* CPU or without.  Only without an IDT is a signal a reset.               *)
HandlersSeeTheInterrupted ==
    /\ step = "stub" => reg["eip"] = StubAddress[vector]
    /\ step \in {"isr_handler", "irq_handler"} =>
          /\ step = "isr_handler" <=> vector \in Exceptions
          /\ Frame["int_no"] = vector
          /\ Frame["err_code"] = IF vector \in CpuPushesCode THEN ErrorCode ELSE 0
          /\ \A r \in Registers : Frame[r] = was[1][r]
          /\ \A r \in Segments \ {"ss"} : Frame[r] = was[2][r]
          /\ \A r \in Segments : Flat(seg[r])
          /\ IsCode(seg["cs"]) /\ reg["eflags"] = NoIF
    /\ step = "running" => was \in {<<>>, <<reg, seg>>} /\ stack = <<>>
    /\ step = "reset" => idtr = 0
=============================================================================
