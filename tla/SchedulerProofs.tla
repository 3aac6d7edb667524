-------------------------- MODULE SchedulerProofs --------------------------
(***************************************************************************)
(* Theorems about Scheduler, for every size of the task table, every       *)
(* interval and every number of tasks, and what they say of Input, where   *)
(* one of the tasks reads keys.                                            *)
(***************************************************************************)
EXTENDS Input, TLAPS

LEMMA SlotFacts ==
    /\ 0 \in Slots
    /\ Wild \notin Slots
    /\ \A s \in Slots : s \in Int /\ 0 <= s /\ s < MaxTasks
BY SizesAssumption DEF Slots, Wild

(***************************************************************************)
(* Resuming a frame keeps every saved context in its range, and leaves the *)
(* CPU on a stack of the table or off all of them.                         *)
(***************************************************************************)
LEMMA ResumeTypes ==
    ASSUME TypeOK,
           NEW c \in Contexts, NEW E \in [Slots -> Contexts],
           NEW A \in [Slots -> Contexts], NEW flag \in BOOLEAN,
           Resume(c, E, A, flag)
    PROVE  /\ esp' \in [Slots -> Contexts]
           /\ arg' \in [Slots -> Contexts]
           /\ iflag' \in BOOLEAN
           /\ cpu' \in Slots \cup {Wild}
           /\ pc' \in [Slots -> PCs]
<1>1. \A H \in [Slots -> Contexts] : Expire(H, c) \in [Slots -> Contexts]
  BY DEF Expire, Contexts, Kinds
<1>2. CASE c.kind \in Resumable
  <2>1. c.stk \in Slots
    BY DEF Contexts
  <2>2. esp' \in [Slots -> Contexts] /\ arg' \in [Slots -> Contexts]
    BY <1>1, <1>2 DEF Resume
  <2>3. pc' \in [Slots -> PCs]
    <3>1. c.kind \in {"irq", "yield", "entry"}
      BY <1>2 DEF Resumable
    <3>2. ret[c.stk] \in PCs /\ pc[c.stk] \in PCs
      BY <2>1 DEF TypeOK, PCs
    <3>3. {"run", "start"} \subseteq PCs
      BY DEF PCs
    <3>4. \E v \in PCs : pc' = [pc EXCEPT ![c.stk] = v]
      BY <1>2, <3>1, <3>2, <3>3 DEF Resume
    <3> QED
      BY <3>4, <2>1 DEF TypeOK
  <2> QED
    BY <1>2, <2>1, <2>2, <2>3 DEF Resume
<1>3. CASE c.kind \notin Resumable
  BY <1>3 DEF Resume, TypeOK
<1> QED
  BY <1>2, <1>3

(***************************************************************************)
(* Type correctness.                                                       *)
(***************************************************************************)
LEMMA InitTypes == Init => TypeOK
BY SizesAssumption, SlotFacts DEF Init, TypeOK, Contexts, Ctx, Kinds, PCs, Slots

LEMMA StepTypes == TypeOK /\ [Next]_vars => TypeOK'
<1> SUFFICES ASSUME TypeOK, [Next]_vars PROVE TypeOK'
  OBVIOUS
<1> USE SizesAssumption, SlotFacts
<1>0. /\ \A st \in [Slots -> {"READY", "RUNNING", "DEAD"}], p \in Slots :
            MarkReady(st, p) \in [Slots -> {"READY", "RUNNING", "DEAD"}]
      /\ \A s \in Slots, there \in PCs : Goto(s, there) => pc' \in [Slots -> PCs]
      /\ \A s \in Slots, k \in Kinds : Ctx(s, k) \in Contexts
  BY DEF MarkReady, Goto, Ctx, Contexts, TypeOK
<1>1. CASE Tick
  BY <1>1 DEF Tick, TypeOK, tableVars, localVars, createVars, Wake, PCs
<1>2. CASE KeepRunning
  BY <1>2 DEF KeepRunning, TypeOK, tableVars, localVars, createVars, Wake, PCs
<1>3. CASE Preempt
  <2>1. PICK n \in Slots :
          /\ tstate' = [MarkReady(tstate, current_task) EXCEPT ![n] = "RUNNING"]
          /\ current_task' = n
          /\ Resume(esp[n], [esp EXCEPT ![current_task] = Ctx(cpu, "irq")],
                    arg, FALSE)
    BY <1>3 DEF Preempt
  <2>2. cpu \in Slots
    BY <1>3 DEF Preempt
  <2>3. Ctx(cpu, "irq") \in Contexts
    BY <2>2, <1>0 DEF Kinds
  <2>4. /\ esp' \in [Slots -> Contexts] /\ arg' \in [Slots -> Contexts]
        /\ iflag' \in BOOLEAN /\ cpu' \in Slots \cup {Wild}
        /\ pc' \in [Slots -> PCs]
    <3>1. esp[n] \in Contexts /\ arg \in [Slots -> Contexts]
          /\ [esp EXCEPT ![current_task] = Ctx(cpu, "irq")] \in [Slots -> Contexts]
      BY <2>3 DEF TypeOK
    <3> QED
      BY <3>1, <2>1, ResumeTypes
  <2>5. tstate' \in [Slots -> {"READY", "RUNNING", "DEAD"}]
    BY <2>1, <1>0 DEF TypeOK
  <2> QED
    BY <1>3, <2>1, <2>4, <2>5 DEF Preempt, TypeOK, createVars
<1>4. CASE DeviceIrq
  BY <1>4 DEF DeviceIrq, TypeOK, tableVars, localVars, createVars, Wake, PCs
<1>5. CASE CreateScan
  <2>1. slot' \in Slots
    <3>1. CASE slot' \in DeadSlots
      BY <3>1 DEF DeadSlots
    <3>2. CASE slot' = task_count /\ task_count < MaxTasks
      BY <3>2 DEF TypeOK, Slots
    <3>3. CASE slot' = slot
      BY <3>3 DEF TypeOK
    <3> QED
      BY <1>5, <3>1, <3>2, <3>3 DEF CreateScan
  <2>2. pc' \in [Slots -> PCs]
    BY <1>5, <1>0 DEF CreateScan, TypeOK, PCs
  <2> QED
    BY <1>5, <2>1, <2>2 DEF CreateScan, TypeOK, tableVars, localVars
<1>6. CASE CreateClear
  <2>1. /\ Wiped(esp) \in [Slots -> Contexts]
        /\ Wiped(arg) \in [Slots -> Contexts]
    BY DEF Wiped, TypeOK, Contexts, Kinds
  <2>2. Ctx(slot, "null") \in Contexts
    BY <1>0 DEF TypeOK, Kinds
  <2> QED
    BY <1>6, <2>1, <2>2 DEF CreateClear, TypeOK, createVars, PCs
<1>7. CASE CreateFrame
  BY <1>7, <1>0
  DEF CreateFrame, TypeOK, localVars, createVars, Kinds, PCs
<1>8. CASE CreatePublish
  <2>1. task_count' \in 1 .. MaxTasks
    BY <1>8 DEF CreatePublish, TypeOK
  <2> QED
    BY <1>8, <1>0, <2>1 DEF CreatePublish, TypeOK, localVars, createVars, PCs
<1>9. CASE LaunchDone
  BY <1>9, <1>0 DEF LaunchDone, TypeOK, tableVars, localVars, createVars, PCs
<1>10. CASE Start
  BY <1>10, <1>0, BehavioursAssumption
  DEF Start, TypeOK, tableVars, localVars, createVars, PCs
<1>11. CASE Halt
  BY <1>11, <1>0, BehavioursAssumption
  DEF Halt, TypeOK, tableVars, localVars, createVars, PCs
<1>12. CASE Yield
  BY <1>12, <1>0, BehavioursAssumption
  DEF Yield, TypeOK, tableVars, localVars, createVars, PCs, YieldSteps
<1>13. CASE Exit
  <2>1. PICK s \in Exiters :
          /\ tstate' = [tstate EXCEPT ![current_task] = "DEAD"]
          /\ ret' = [ret EXCEPT ![s] = "net"]
          /\ Goto(s, "pick")
    BY <1>13 DEF Exit
  <2>2. pc' \in [Slots -> PCs]
    BY <2>1, <1>0, BehavioursAssumption DEF PCs, YieldSteps
  <2> QED
    BY <1>13, <2>1, <2>2 DEF Exit, TypeOK, createVars
<1>14. ASSUME NEW s \in Slots,
              YieldPick(s) \/ YieldCompare(s) \/ YieldMark(s) \/ YieldSet(s)
           \/ YieldCurrent(s) \/ YieldCall(s) \/ YieldSave(s)
       PROVE  TypeOK'
  <2> USE <1>0 DEF TypeOK, tableVars, localVars, createVars, PCs, YieldSteps
  <2>1. CASE YieldPick(s)
    BY <2>1 DEF YieldPick
  <2>2. CASE YieldCompare(s)
    <3>1. pc' \in [Slots -> PCs]
      BY <2>2 DEF YieldCompare
    <3>2. prev' \in [Slots -> Slots]
      BY <2>2 DEF YieldCompare
    <3> QED
      BY <2>2, <3>1, <3>2 DEF YieldCompare
  <2>3. CASE YieldMark(s)
    BY <2>3 DEF YieldMark
  <2>4. CASE YieldSet(s)
    BY <2>4 DEF YieldSet
  <2>5. CASE YieldCurrent(s)
    BY <2>5 DEF YieldCurrent
  <2>6. CASE YieldCall(s)
    BY <2>6 DEF YieldCall
  <2>7. CASE YieldSave(s)
    BY <2>7 DEF YieldSave, Kinds
  <2> QED
    BY <1>14, <2>1, <2>2, <2>3, <2>4, <2>5, <2>6, <2>7
<1>15. ASSUME NEW s \in Slots, YieldLoad(s)
       PROVE  TypeOK'
  <2>1. /\ arg[s] \in Contexts /\ esp \in [Slots -> Contexts]
        /\ [arg EXCEPT ![s] = Ctx(s, "null")] \in [Slots -> Contexts]
        /\ iflag \in BOOLEAN
    BY <1>0 DEF TypeOK, Kinds
  <2>2. Resume(arg[s], esp, [arg EXCEPT ![s] = Ctx(s, "null")], iflag)
    BY <1>15 DEF YieldLoad
  <2>3. /\ esp' \in [Slots -> Contexts] /\ arg' \in [Slots -> Contexts]
        /\ iflag' \in BOOLEAN /\ cpu' \in Slots \cup {Wild}
        /\ pc' \in [Slots -> PCs]
    <3>1. PICK A \in [Slots -> Contexts] : Resume(arg[s], esp, A, iflag)
      BY <2>1, <2>2
    <3> QED
      BY <2>1, <3>1, ResumeTypes
  <2> QED
    BY <1>15, <2>3 DEF YieldLoad, TypeOK, createVars
<1>16. CASE UNCHANGED vars
  BY <1>16 DEF vars, TypeOK
<1> QED
  BY <1>1, <1>2, <1>3, <1>4, <1>5, <1>6, <1>7, <1>8, <1>9, <1>10, <1>11,
     <1>12, <1>13, <1>14, <1>15, <1>16
  DEF Next, TimerIrq, CpuStep, Create, YieldStep

(* Each variable of the scheduler stays in its range, whatever tasks do.   *)
THEOREM TypeCorrect == Spec => []TypeOK
<1>1. Init => TypeOK
  BY InitTypes
<1>2. TypeOK /\ [Next]_vars => TypeOK'
  BY StepTypes
<1> QED
  BY <1>1, <1>2, PTL DEF Spec

----------------------------------------------------------------------------
(***************************************************************************)
(* No deaf halt.  IF is not part of a saved context, so it is what the     *)
(* code that switched left behind.  The argument is an accounting of who   *)
(* can run with IF = 0: a task that has not executed its sti yet, or one   *)
(* that was resumed from its own task_yield; neither of them halts.        *)
(***************************************************************************)
YieldFramesAreYielders(holders) ==
    \A s \in Slots : holders[s].kind = "yield" => holders[s].stk \in Yielders

FlagInv ==
    /\ \A s \in Slots :
          /\ ret[s] = "run"
          /\ pc[s] # "net"
          /\ pc[s] \in YieldSteps => s \in Yielders
          /\ pc[s] = "hlt" => s \notin Yielders
    /\ YieldFramesAreYielders(esp)
    /\ YieldFramesAreYielders(arg)
    /\ cpu \in Slots /\ ~ iflag => cpu \in Yielders \/ pc[cpu] = "start"

LEMMA ResumeFlag ==
    ASSUME TypeOK, FlagInv,
           NEW c \in Contexts, NEW E \in [Slots -> Contexts],
           NEW A \in [Slots -> Contexts], NEW flag \in BOOLEAN,
           c.kind = "yield" => c.stk \in Yielders,
           YieldFramesAreYielders(E), YieldFramesAreYielders(A),
           Resume(c, E, A, flag), ret' = ret
    PROVE  FlagInv'
<1> DEFINE F(p, s) == /\ p # "net"
                      /\ p \in YieldSteps => s \in Yielders
                      /\ p = "hlt" => s \notin Yielders
<1>1. \A s \in Slots : F(pc'[s], s) /\ ret'[s] = "run"
  <2>1. CASE c.kind \in Resumable
    <3>1. c.kind \in {"irq", "yield", "entry"} /\ c.stk \in Slots
      BY <2>1 DEF Resumable, Contexts
    <3>2. pc' = [pc EXCEPT ![c.stk] = pc'[c.stk]]
      BY <2>1, <3>1 DEF Resume, TypeOK
    <3>3. pc'[c.stk] \in {"run", "start", pc[c.stk]}
      <4>1. ret[c.stk] = "run"
        BY <3>1 DEF FlagInv
      <4>2. CASE c.kind = "irq"
        BY <2>1, <3>1, <4>2 DEF Resume, TypeOK
      <4>3. CASE c.kind = "yield"
        BY <2>1, <3>1, <4>1, <4>3 DEF Resume, TypeOK
      <4>4. CASE c.kind = "entry"
        BY <2>1, <3>1, <4>4 DEF Resume, TypeOK
      <4> QED
        BY <3>1, <4>2, <4>3, <4>4
    <3>4. F("run", c.stk) /\ F("start", c.stk) /\ F(pc[c.stk], c.stk)
      BY <3>1 DEF FlagInv, YieldSteps
    <3>5. F(pc'[c.stk], c.stk)
      BY <3>3, <3>4
    <3>6. \A s \in Slots : F(pc[s], s) /\ ret'[s] = "run"
      BY DEF FlagInv
    <3> HIDE DEF F
    <3> QED
      BY <3>1, <3>2, <3>5, <3>6 DEF TypeOK
  <2>2. CASE c.kind \notin Resumable
    <3>1. pc' = pc
      BY <2>2 DEF Resume
    <3> QED
      BY <3>1 DEF FlagInv
  <2> QED
    BY <2>1, <2>2
<1>2. YieldFramesAreYielders(esp)' /\ YieldFramesAreYielders(arg)'
  <2>1. ASSUME NEW H \in [Slots -> Contexts], YieldFramesAreYielders(H)
        PROVE  YieldFramesAreYielders(Expire(H, c))
    BY <2>1 DEF YieldFramesAreYielders, Expire, Contexts
  <2>2. (esp' = E \/ esp' = Expire(E, c)) /\ (arg' = A \/ arg' = Expire(A, c))
    BY DEF Resume
  <2>3. YieldFramesAreYielders(Expire(E, c)) /\ YieldFramesAreYielders(Expire(A, c))
    BY <2>1
  <2> QED
    BY <2>2, <2>3 DEF YieldFramesAreYielders
<1>3. cpu' \in Slots /\ ~ iflag' => cpu' \in Yielders \/ pc'[cpu'] = "start"
  <2>1. CASE c.kind = "entry"
    BY <2>1 DEF Resume, Resumable, TypeOK, Contexts
  <2>2. CASE c.kind = "irq"
    BY <2>2 DEF Resume, Resumable
  <2>3. CASE c.kind = "yield"
    BY <2>3 DEF Resume, Resumable
  <2>4. CASE c.kind \notin Resumable
    BY <2>4, SlotFacts DEF Resume
  <2> QED
    BY <2>1, <2>2, <2>3, <2>4 DEF Resumable
<1> QED
  BY <1>1, <1>2, <1>3 DEF FlagInv

LEMMA InitFlag == Init => FlagInv
BY SlotFacts DEF Init, FlagInv, YieldFramesAreYielders, Ctx, YieldSteps

LEMMA StepFlag ==
    ASSUME Exiters = {}, TypeOK, FlagInv, [Next]_vars
    PROVE  FlagInv'
<1> USE SlotFacts
<1>0. 0 \notin Yielders
  BY BehavioursAssumption
<1>1. CASE Tick
  BY <1>1 DEF Tick, TypeOK, FlagInv, YieldFramesAreYielders, tableVars,
              localVars, Wake, YieldSteps
<1>2. CASE KeepRunning
  BY <1>2 DEF KeepRunning, TypeOK, FlagInv, YieldFramesAreYielders, tableVars,
              localVars, Wake, YieldSteps
<1>3. CASE Preempt
  <2> DEFINE E == [esp EXCEPT ![current_task] = Ctx(cpu, "irq")]
  <2>1. PICK n \in Slots : Resume(esp[n], E, arg, FALSE)
    BY <1>3 DEF Preempt
  <2>2. E \in [Slots -> Contexts] /\ esp[n] \in Contexts
        /\ arg \in [Slots -> Contexts]
    BY <1>3 DEF Preempt, TypeOK, Ctx, Contexts, Kinds
  <2>3. YieldFramesAreYielders(E)
    BY <1>3 DEF Preempt, FlagInv, YieldFramesAreYielders, Ctx, TypeOK
  <2>4. (esp[n].kind = "yield" => esp[n].stk \in Yielders)
        /\ YieldFramesAreYielders(arg) /\ ret' = ret
    BY <1>3 DEF Preempt, FlagInv, YieldFramesAreYielders
  <2> HIDE DEF E
  <2> QED
    BY <2>1, <2>2, <2>3, <2>4, ResumeFlag
<1>4. CASE DeviceIrq
  BY <1>4 DEF DeviceIrq, TypeOK, FlagInv, YieldFramesAreYielders, tableVars,
              localVars, Wake, YieldSteps
<1>5. CASE CreateScan \/ CreateFrame \/ CreatePublish \/ LaunchDone
  <2> USE <1>0 DEF TypeOK, FlagInv, YieldFramesAreYielders, tableVars,
                   localVars, At, Goto, YieldSteps
  <2>1. CASE CreateScan
    <3>1. pc' = pc \/ pc' = [pc EXCEPT ![0] = "clear"]
      BY <2>1 DEF CreateScan
    <3> QED
      BY <2>1, <3>1 DEF CreateScan
  <2>2. CASE CreateFrame
    <3>1. YieldFramesAreYielders(esp)'
      BY <2>2 DEF CreateFrame, Ctx
    <3> QED
      BY <2>2, <3>1 DEF CreateFrame
  <2>3. CASE CreatePublish
    BY <2>3 DEF CreatePublish
  <2>4. CASE LaunchDone
    BY <2>4 DEF LaunchDone
  <2> QED
    BY <1>5, <2>1, <2>2, <2>3, <2>4
<1>6. CASE CreateClear
  <2>1. ASSUME NEW H \in [Slots -> Contexts], YieldFramesAreYielders(H)
        PROVE  YieldFramesAreYielders([Wiped(H) EXCEPT ![slot] = Ctx(slot, "null")])
    <3>1. \A s \in Slots : \/ Wiped(H)[s] = H[s]
                           \/ Wiped(H)[s].kind = "stale"
      BY DEF Wiped, Contexts
    <3>2. Wiped(H) = [s \in Slots |-> Wiped(H)[s]]
      BY DEF Wiped
    <3> QED
      BY <2>1, <3>1, <3>2 DEF YieldFramesAreYielders, Ctx
  <2>2. \A s \in Slots : pc'[s] \in {"none", "frame", pc[s]} /\ ret'[s] = "run"
    BY <1>6 DEF CreateClear, TypeOK, FlagInv
  <2>3. YieldFramesAreYielders(esp)' /\ YieldFramesAreYielders(arg)'
    BY <1>6, <2>1 DEF CreateClear, YieldFramesAreYielders, FlagInv, TypeOK
  <2>4. cpu' = 0 /\ iflag'
    BY <1>6, <1>0 DEF CreateClear, At, FlagInv, TypeOK
  <2> QED
    BY <2>2, <2>3, <2>4 DEF FlagInv, YieldSteps
<1>7. CASE Start
  BY <1>7 DEF Start, TypeOK, FlagInv, YieldFramesAreYielders, tableVars,
              localVars, At, Goto, YieldSteps
<1>8. CASE Halt
  BY <1>8, <1>0, SleepersDoNotYield, BehavioursAssumption
  DEF Halt, TypeOK, FlagInv, YieldFramesAreYielders, tableVars, localVars,
      At, Goto, YieldSteps
<1>9. CASE Yield
  BY <1>9, BehavioursAssumption
  DEF Yield, TypeOK, FlagInv, YieldFramesAreYielders, tableVars, localVars,
      At, Goto, YieldSteps
<1>10. CASE Exit
  BY <1>10 DEF Exit
<1>11. ASSUME NEW s \in Slots,
              YieldPick(s) \/ YieldCompare(s) \/ YieldMark(s) \/ YieldSet(s)
           \/ YieldCurrent(s) \/ YieldCall(s) \/ YieldSave(s)
       PROVE  FlagInv'
  <2>1. /\ cpu = s /\ s \in Yielders
        /\ pc[s] # "start" /\ pc[s] # "hlt"
    BY <1>11
    DEF YieldPick, YieldCompare, YieldMark, YieldSet, YieldCurrent, YieldCall,
        YieldSave, At, FlagInv, YieldSteps
  <2>2. \A t \in Slots :
            /\ ret'[t] = "run" /\ pc'[t] # "net"
            /\ pc'[t] \in YieldSteps => t \in Yielders
            /\ pc'[t] = "hlt" => t \notin Yielders
    <3>1. ret' = ret /\ \E p \in YieldSteps \cup {"run"} : Goto(s, p)
      BY <1>11
      DEF YieldPick, YieldCompare, YieldMark, YieldSet, YieldCurrent,
          YieldCall, YieldSave, YieldSteps, localVars, FlagInv
    <3> QED
      BY <2>1, <3>1 DEF Goto, FlagInv, TypeOK, YieldSteps
  <2>3. cpu' = s /\ iflag' = iflag
    BY <1>11, <2>1
    DEF YieldPick, YieldCompare, YieldMark, YieldSet, YieldCurrent, YieldCall,
        YieldSave
  <2>4. YieldFramesAreYielders(esp)' /\ YieldFramesAreYielders(arg)'
    <3>1. CASE YieldCall(s)
      BY <3>1 DEF YieldCall, YieldFramesAreYielders, FlagInv, TypeOK, tableVars
    <3>2. CASE YieldSave(s)
      BY <2>1, <3>2 DEF YieldSave, YieldFramesAreYielders, FlagInv, TypeOK,
                        localVars, Ctx
    <3>3. CASE esp' = esp /\ arg' = arg
      BY <3>3 DEF YieldFramesAreYielders, FlagInv
    <3> QED
      BY <1>11, <3>1, <3>2, <3>3
      DEF YieldPick, YieldCompare, YieldMark, YieldSet, YieldCurrent,
          tableVars, localVars
  <2> QED
    BY <2>1, <2>2, <2>3, <2>4 DEF FlagInv
<1>12. ASSUME NEW s \in Slots, YieldLoad(s)
       PROVE  FlagInv'
  <2>1. PICK A \in [Slots -> Contexts] :
           /\ A = [arg EXCEPT ![s] = Ctx(s, "null")]
           /\ Resume(arg[s], esp, A, iflag)
    BY <1>12 DEF YieldLoad, TypeOK, Ctx, Contexts, Kinds
  <2>2. YieldFramesAreYielders(A) /\ YieldFramesAreYielders(esp)
    BY <2>1 DEF YieldFramesAreYielders, FlagInv, TypeOK, Ctx
  <2>3. /\ arg[s].kind = "yield" => arg[s].stk \in Yielders
        /\ arg[s] \in Contexts /\ esp \in [Slots -> Contexts]
        /\ iflag \in BOOLEAN /\ ret' = ret
    BY <1>12 DEF YieldFramesAreYielders, FlagInv, TypeOK, YieldLoad
  <2> QED
    BY <2>1, <2>2, <2>3, ResumeFlag
<1>13. CASE UNCHANGED vars
  BY <1>13 DEF vars, FlagInv, YieldFramesAreYielders
<1> QED
  BY <1>1, <1>2, <1>3, <1>4, <1>5, <1>6, <1>7, <1>8, <1>9, <1>10, <1>11,
     <1>12, <1>13
  DEF Next, TimerIrq, CpuStep, Create, YieldStep

(***************************************************************************)
(* In every configuration without returning entry points, yielders or not, *)
(* no hlt is executed with interrupts off: the idle loop and the shell's   *)
(* wait for a key always wake up.                                          *)
(***************************************************************************)
THEOREM HaltsAreHeard ==
    ASSUME Exiters = {}
    PROVE  Spec => []NoDeafHalt
<1>1. Init => TypeOK /\ FlagInv
  BY InitTypes, InitFlag
<1>2. TypeOK /\ FlagInv /\ [Next]_vars => (TypeOK /\ FlagInv)'
  BY StepTypes, StepFlag
<1>3. FlagInv => NoDeafHalt
  <2> SUFFICES ASSUME FlagInv, cpu \in Slots, pc[cpu] \in {"hlt", "net"}, ~ iflag
               PROVE  FALSE
    BY DEF NoDeafHalt
  <2>1. pc[cpu] = "hlt" /\ cpu \notin Yielders
    BY DEF FlagInv
  <2>2. cpu \in Yielders \/ pc[cpu] = "start"
    BY DEF FlagInv
  <2> QED
    BY <2>1, <2>2
<1> QED
  BY <1>1, <1>2, <1>3, PTL DEF Spec

----------------------------------------------------------------------------
(***************************************************************************)
(* The kernel without a framebuffer: no task yields and none returns.      *)
(* Only the timer switches, always with IF = 0, so the table, the stack    *)
(* pointers and the CPU agree in every state.                              *)
(***************************************************************************)
TextInv ==
    /\ cpu = current_task /\ current_task < task_count
    /\ \A s \in Slots :
          /\ tstate[s] = IF s = current_task THEN "RUNNING" ELSE "READY"
          /\ s < task_count /\ s # cpu =>
                esp[s] = Ctx(s, IF pc[s] = "none" THEN "entry" ELSE "irq")
          /\ arg[s].kind = "null"
          /\ pc[s] \notin YieldSteps
          /\ pc[s] = "none" => s # cpu
          /\ s >= task_count => pc[s] = "none"
          /\ pc[s] = "start" => s = cpu /\ ~ iflag
    /\ pc[0] # "none"
    /\ pc[0] \in {"clear", "frame", "publish"} => slot = task_count
    /\ pc[0] = "publish" => esp[slot] = Ctx(slot, "entry")

LEMMA ModRange ==
    ASSUME NEW a \in Nat, NEW b \in Nat \ {0}
    PROVE  a % b \in 0 .. b - 1
OBVIOUS

(* While every slot is runnable, the next task is the next slot.           *)
LEMMA NextIsSuccessor ==
    ASSUME TypeOK, TextInv, NEW n \in Slots, n # current_task, IsNext(n)
    PROVE  n = (current_task + 1) % task_count /\ n < task_count
<1>1. /\ current_task \in Nat /\ task_count \in Nat \ {0}
      /\ task_count <= MaxTasks
  BY SlotFacts, SizesAssumption DEF TypeOK
<1>2. \A i \in 1 .. task_count : Succ(i) \in Slots /\ Succ(i) < task_count
  <2> TAKE i \in 1 .. task_count
  <2>1. current_task + i \in Nat
    BY <1>1
  <2>2. (current_task + i) % task_count \in 0 .. task_count - 1
    BY <1>1, <2>1, ModRange
  <2> QED
    BY <1>1, <2>2, SizesAssumption DEF Succ, Slots
<1>3. \A s \in Slots : Runnable(s)
  BY DEF TextInv, Runnable
<1>4. PICK i \in 1 .. task_count :
         n = Succ(i) /\ \A j \in 1 .. i - 1 : ~ Runnable(Succ(j))
  BY DEF IsNext
<1>5. i = 1
  <2>1. 1 \in 1 .. task_count
    BY <1>1
  <2>2. Runnable(Succ(1))
    BY <1>2, <1>3, <2>1
  <2> QED
    BY <1>4, <2>2, <1>1
<1> QED
  BY <1>2, <1>4, <1>5 DEF Succ

LEMMA InitText == Init => TextInv
BY SlotFacts DEF Init, TextInv, Ctx, YieldSteps, Slots

(* What a preemption does, spelled out: the next slot in turn continues    *)
(* where it was.                                                           *)
LEMMA PreemptText ==
    ASSUME TypeOK, TextInv, Preempt
    PROVE  /\ TextInv'
           /\ task_count > 1
           /\ current_task' = (current_task + 1) % task_count
           /\ task_count' = task_count
           /\ pc' = [pc EXCEPT ![current_task'] =
                        CASE @ = "none" -> "start"
                          [] @ = "hlt"  -> "run"
                          [] OTHER      -> @]
<1>1. PICK n \in Slots \ {current_task} :
         /\ IsNext(n)
         /\ tstate' = [MarkReady(tstate, current_task) EXCEPT ![n] = "RUNNING"]
         /\ current_task' = n
         /\ Resume(esp[n], [esp EXCEPT ![current_task] = Ctx(cpu, "irq")],
                   arg, FALSE)
  BY DEF Preempt
<1> DEFINE old == current_task
           c   == esp[n]
           E   == [esp EXCEPT ![old] = Ctx(old, "irq")]
<1>2. n = (old + 1) % task_count /\ n < task_count /\ n # old
  BY <1>1, NextIsSuccessor
<1>3. cpu = old /\ old \in Slots /\ old < task_count /\ iflag
  BY DEF TextInv, TypeOK, Preempt
<1>4. /\ c = Ctx(n, IF pc[n] = "none" THEN "entry" ELSE "irq")
      /\ c.stk = n /\ c.kind \in {"entry", "irq"}
      /\ c.kind = "entry" <=> pc[n] = "none"
  BY <1>1, <1>2, <1>3 DEF TextInv, Ctx
<1>5. /\ cpu' = n /\ esp' = Expire(E, c) /\ arg' = Expire(arg, c)
      /\ pc[n] = "none" => ~ iflag'
      /\ pc' = [pc EXCEPT ![n] = CASE @ = "none" -> "start"
                                   [] @ = "hlt"  -> "run"
                                   [] OTHER      -> @]
  <2>1. Resume(c, E, arg, FALSE)
    BY <1>1, <1>3
  <2>2. c.kind \in Resumable
    BY <1>4 DEF Resumable
  <2>3. CASE c.kind = "entry"
    BY <1>4, <2>1, <2>2, <2>3 DEF Resume
  <2>4. CASE c.kind = "irq"
    BY <1>4, <2>1, <2>2, <2>4 DEF Resume
  <2> QED
    BY <1>4, <2>3, <2>4
<1>6. \A s \in Slots : s < task_count /\ s # n =>
          esp'[s] = Ctx(s, IF pc[s] = "none" THEN "entry" ELSE "irq")
  <2> SUFFICES ASSUME NEW s \in Slots, s < task_count, s # n
               PROVE  esp'[s] = Ctx(s, IF pc[s] = "none" THEN "entry" ELSE "irq")
    OBVIOUS
  <2>1. E[s] = Ctx(s, IF pc[s] = "none" THEN "entry" ELSE "irq")
    <3>1. CASE s = old
      <4>1. pc[old] # "none"
        BY <1>3 DEF TextInv, TypeOK
      <4> QED
        BY <1>3, <3>1, <4>1 DEF TypeOK
    <3>2. CASE s # old
      BY <1>3, <3>2 DEF TextInv, TypeOK
    <3> QED
      BY <3>1, <3>2
  <2>2. E[s].stk # c.stk
    BY <1>4, <2>1 DEF Ctx
  <2> QED
    BY <1>5, <2>1, <2>2 DEF Expire, Popped
<1>7. \A s \in Slots : tstate'[s] = IF s = n THEN "RUNNING" ELSE "READY"
  BY <1>1, <1>3 DEF TextInv, MarkReady, TypeOK
<1>8. \A s \in Slots : arg'[s].kind = "null"
  BY <1>5 DEF TextInv, Expire, Popped, Resumable
<1>9. \A s \in Slots :
         /\ pc'[s] \notin YieldSteps
         /\ pc'[s] = "none" => s # n
         /\ s >= task_count => pc'[s] = "none"
         /\ pc'[s] = "start" => s = n /\ ~ iflag'
  <2> SUFFICES ASSUME NEW s \in Slots
               PROVE  /\ pc'[s] \notin YieldSteps
                      /\ pc'[s] = "none" => s # n
                      /\ s >= task_count => pc'[s] = "none"
                      /\ pc'[s] = "start" => s = n /\ ~ iflag'
    OBVIOUS
  <2>1. CASE s = n
    <3>1. pc[n] # "start" /\ pc[n] \notin YieldSteps
      BY <1>2, <1>3 DEF TextInv
    <3>2. pc'[n] = CASE pc[n] = "none" -> "start"
                     [] pc[n] = "hlt"  -> "run"
                     [] OTHER          -> pc[n]
      BY <1>5 DEF TypeOK
    <3>3. ~ (n >= task_count)
      BY <1>2, SlotFacts DEF TypeOK
    <3>4. CASE pc[n] = "none"
      BY <2>1, <1>5, <3>2, <3>3, <3>4 DEF YieldSteps
    <3>5. CASE pc[n] = "hlt"
      BY <2>1, <3>2, <3>3, <3>5 DEF YieldSteps
    <3>6. CASE pc[n] # "none" /\ pc[n] # "hlt"
      BY <2>1, <3>1, <3>2, <3>3, <3>6
    <3> QED
      BY <3>4, <3>5, <3>6
  <2>2. CASE s # n
    <3>1. pc'[s] = pc[s]
      BY <1>5, <2>2 DEF TypeOK
    <3>2. pc[s] # "start"
      BY <1>3 DEF TextInv
    <3> QED
      BY <2>2, <3>1, <3>2 DEF TextInv
  <2> QED
    BY <2>1, <2>2
<1>10. /\ pc'[0] # "none"
       /\ pc'[0] \in {"clear", "frame", "publish"} => pc[0] = pc'[0]
  BY <1>5, SlotFacts DEF TextInv, TypeOK
<1>11. task_count' = task_count /\ slot' = slot
  BY DEF Preempt, createVars
<1>12. pc'[0] = "publish" => esp'[slot] = Ctx(slot, "entry")
  <2> SUFFICES ASSUME pc'[0] = "publish" PROVE esp'[slot] = Ctx(slot, "entry")
    OBVIOUS
  <2>1. slot = task_count /\ slot \in Slots /\ esp[slot] = Ctx(slot, "entry")
    BY <1>10 DEF TextInv, TypeOK
  <2>2. slot # n /\ slot # old
    <3>1. task_count \in Int /\ n \in Int /\ old \in Int
      BY <1>3, SlotFacts DEF TypeOK
    <3> QED
      BY <1>2, <1>3, <2>1, <3>1
  <2> QED
    BY <1>4, <1>5, <2>1, <2>2 DEF Expire, Popped, Ctx
<1>13. TextInv'
  <2>1. \A s \in Slots : s < task_count /\ s # n =>
           esp'[s] = Ctx(s, IF pc'[s] = "none" THEN "entry" ELSE "irq")
    BY <1>5, <1>6 DEF TypeOK
  <2>2. cpu' = n /\ current_task' = n /\ n < task_count'
    BY <1>1, <1>2, <1>5, <1>11
  <2>3. pc'[0] \in {"clear", "frame", "publish"} => slot' = task_count'
    BY <1>10, <1>11 DEF TextInv
  <2>4. pc'[0] = "publish" => esp'[slot'] = Ctx(slot', "entry")
    BY <1>11, <1>12
  <2>5. \A s \in Slots :
           /\ tstate'[s] = IF s = current_task' THEN "RUNNING" ELSE "READY"
           /\ s < task_count' /\ s # cpu' =>
                 esp'[s] = Ctx(s, IF pc'[s] = "none" THEN "entry" ELSE "irq")
           /\ arg'[s].kind = "null"
           /\ pc'[s] \notin YieldSteps
           /\ pc'[s] = "none" => s # cpu'
           /\ s >= task_count' => pc'[s] = "none"
           /\ pc'[s] = "start" => s = cpu' /\ ~ iflag'
    BY <1>7, <1>8, <1>9, <1>11, <2>1, <2>2
  <2> QED
    BY <1>10, <2>2, <2>3, <2>4, <2>5 DEF TextInv
<1>14. task_count > 1
  BY <1>2, <1>3, SlotFacts DEF TypeOK
<1> QED
  BY <1>1, <1>2, <1>5, <1>11, <1>13, <1>14

(* A step in which only the code on the CPU's stack moves.                 *)
LEMMA OwnStepText ==
    ASSUME TypeOK, TextInv,
           UNCHANGED <<tstate, esp, arg, cpu, current_task, task_count>>,
           NEW p, p \notin YieldSteps \cup {"none", "start"},
           pc' = [pc EXCEPT ![cpu] = p],
           cpu # 0 => slot' = slot,
           cpu = 0 /\ p \in {"clear", "frame", "publish"} =>
               /\ slot' = task_count
               /\ p = "publish" => esp[slot'] = Ctx(slot', "entry")
    PROVE  TextInv'
<1>1. cpu \in Slots /\ cpu = current_task
  BY DEF TextInv, TypeOK
<1>2. \A s \in Slots :
         /\ tstate'[s] = IF s = current_task' THEN "RUNNING" ELSE "READY"
         /\ s < task_count' /\ s # cpu' =>
               esp'[s] = Ctx(s, IF pc'[s] = "none" THEN "entry" ELSE "irq")
         /\ arg'[s].kind = "null"
         /\ pc'[s] \notin YieldSteps
         /\ pc'[s] = "none" => s # cpu'
         /\ s >= task_count' => pc'[s] = "none"
         /\ pc'[s] = "start" => s = cpu' /\ ~ iflag'
  <2> TAKE s \in Slots
  <2>1. CASE s = cpu
    <3>1. pc'[s] = p
      BY <1>1, <2>1 DEF TypeOK
    <3>2. ~ (s >= task_count)
      BY <1>1, <2>1, SlotFacts DEF TextInv, TypeOK
    <3> QED
      BY <1>1, <2>1, <3>1, <3>2 DEF TextInv
  <2>2. CASE s # cpu
    <3>1. pc'[s] = pc[s]
      BY <2>2 DEF TypeOK
    <3> QED
      BY <1>1, <2>2, <3>1 DEF TextInv
  <2> QED
    BY <2>1, <2>2
<1>3. /\ pc'[0] # "none"
      /\ pc'[0] \in {"clear", "frame", "publish"} => slot' = task_count'
      /\ pc'[0] = "publish" => esp'[slot'] = Ctx(slot', "entry")
  <2>1. CASE cpu = 0
    BY <2>1, SlotFacts DEF TypeOK
  <2>2. CASE cpu # 0
    <3>1. pc'[0] = pc[0]
      BY <2>2, SlotFacts DEF TypeOK
    <3> QED
      BY <2>2, <3>1 DEF TextInv
  <2> QED
    BY <2>1, <2>2
<1>4. cpu' = current_task' /\ current_task' < task_count'
  BY DEF TextInv
<1> QED
  BY <1>2, <1>3, <1>4 DEF TextInv

LEMMA StepText ==
    ASSUME Yielders = {}, Exiters = {}, TypeOK, TextInv, [Next]_vars
    PROVE  TextInv'
<1> USE SlotFacts
<1>0. pc[cpu] \notin YieldSteps \cup {"none"} /\ cpu \in Slots
  BY DEF TextInv, TypeOK
<1>1. CASE Preempt
  BY <1>1, PreemptText
<1>2. CASE Tick \/ KeepRunning \/ DeviceIrq
  <2> DEFINE p == IF pc[cpu] = "hlt" THEN "run" ELSE pc[cpu]
  <2>1. /\ iflag /\ pc' = [pc EXCEPT ![cpu] = p]
        /\ UNCHANGED <<tstate, esp, arg, cpu, current_task, task_count, slot>>
    BY <1>2 DEF Tick, KeepRunning, DeviceIrq, Wake, tableVars, localVars, createVars
  <2>2. p \notin YieldSteps \cup {"none", "start"}
    BY <1>0, <2>1 DEF TextInv, YieldSteps
  <2>3. cpu = 0 /\ p \in {"clear", "frame", "publish"} =>
            /\ slot' = task_count
            /\ p = "publish" => esp[slot'] = Ctx(slot', "entry")
    BY <2>1 DEF TextInv
  <2> HIDE DEF p
  <2> QED
    BY <2>1, <2>2, <2>3, OwnStepText
<1>3. CASE CreateScan
  <2>1. DeadSlots = {}
    BY DEF DeadSlots, TextInv
  <2>2. /\ cpu = 0 /\ pc[0] = "create"
        /\ UNCHANGED <<tstate, esp, arg, cpu, current_task, task_count>>
    BY <1>3 DEF CreateScan, At, tableVars, localVars
  <2>3. CASE slot' = task_count /\ Goto(0, "clear")
    BY <2>2, <2>3, OwnStepText DEF Goto, YieldSteps
  <2>4. CASE UNCHANGED <<slot, pc>>
    BY <2>2, <2>4 DEF TextInv
  <2> QED
    BY <1>3, <2>1, <2>3, <2>4 DEF CreateScan
<1>4. CASE CreateClear
  <2>1. /\ cpu = 0 /\ cpu' = 0 /\ current_task' = 0 /\ current_task = 0
        /\ task_count' = task_count /\ slot' = slot /\ slot = task_count
        /\ task_count > 0
    BY <1>4 DEF CreateClear, At, TextInv, createVars
  <2>2. pc[slot] = "none" /\ slot # 0 /\ slot \in Slots
    BY <2>1 DEF TextInv, TypeOK
  <2>3. pc' = [pc EXCEPT ![0] = "frame"]
    BY <1>4, <2>2 DEF CreateClear, TypeOK
  <2>4. tstate' = tstate
    BY <1>4, <2>1, <2>2 DEF CreateClear, TextInv, TypeOK
  <2>5. \A s \in Slots : s < task_count /\ s # 0 => esp'[s] = esp[s]
    <3> SUFFICES ASSUME NEW s \in Slots, s < task_count, s # 0
                 PROVE  esp'[s] = esp[s]
      OBVIOUS
    <3>1. esp[s].stk = s
      <4>1. esp[s] = Ctx(s, "entry") \/ esp[s] = Ctx(s, "irq")
        BY <2>1 DEF TextInv
      <4> QED
        BY <4>1 DEF Ctx
    <3>2. s # slot
      BY <2>1, <2>2
    <3>3. Wiped(esp)[s] = esp[s]
      BY <3>1, <3>2 DEF Wiped
    <3>4. esp' = [Wiped(esp) EXCEPT ![slot] = Ctx(slot, "null")]
      BY <1>4 DEF CreateClear
    <3>5. DOMAIN Wiped(esp) = Slots
      BY DEF Wiped
    <3> QED
      BY <3>2, <3>3, <3>4, <3>5
  <2>6. \A s \in Slots : arg'[s].kind = "null"
    BY <1>4 DEF CreateClear, Wiped, TextInv, Resumable, Ctx
  <2>7. \A s \in Slots :
           /\ pc'[s] \notin YieldSteps
           /\ pc'[s] = "none" => s # 0
           /\ s >= task_count => pc'[s] = "none"
           /\ pc'[s] # "start"
           /\ s # 0 => pc'[s] = pc[s]
    BY <1>4, <2>1, <2>3 DEF TextInv, TypeOK, YieldSteps, CreateClear, At
  <2>8. pc'[0] = "frame"
    BY <2>3 DEF TypeOK
  <2> QED
    BY <2>1, <2>4, <2>5, <2>6, <2>7, <2>8 DEF TextInv
<1>5. CASE CreateFrame
  <2>1. /\ cpu = 0 /\ cpu' = 0 /\ current_task' = 0 /\ current_task = 0
        /\ task_count' = task_count /\ slot' = slot /\ slot = task_count
        /\ tstate' = tstate /\ arg' = arg
        /\ task_count > 0
    BY <1>5 DEF CreateFrame, At, TextInv, createVars, localVars
  <2>2. \A s \in Slots : s < task_count => esp'[s] = esp[s]
    BY <1>5, <2>1 DEF CreateFrame, TypeOK
  <2>3. \A s \in Slots :
           /\ pc'[s] \notin YieldSteps
           /\ pc'[s] = "none" => s # 0
           /\ s >= task_count => pc'[s] = "none"
           /\ pc'[s] # "start"
           /\ s # 0 => pc'[s] = pc[s]
    BY <1>5, <2>1 DEF TextInv, TypeOK, YieldSteps, CreateFrame, At, Goto
  <2>4. pc'[0] = "publish" /\ esp'[slot] = Ctx(slot, "entry")
    BY <1>5 DEF CreateFrame, Goto, TypeOK
  <2> QED
    BY <2>1, <2>2, <2>3, <2>4 DEF TextInv
<1>6. CASE CreatePublish
  <2>1. /\ cpu = 0 /\ cpu' = 0 /\ current_task' = 0 /\ current_task = 0
        /\ slot' = slot /\ slot = task_count /\ task_count' = task_count + 1
        /\ tstate' = tstate /\ arg' = arg /\ esp' = esp
        /\ esp[slot] = Ctx(slot, "entry") /\ pc[slot] = "none"
    <3>1. /\ cpu = 0 /\ cpu' = 0 /\ current_task' = 0 /\ current_task = 0
          /\ slot' = slot /\ slot = task_count /\ task_count \in Int
          /\ tstate' = tstate /\ arg' = arg /\ esp' = esp
      BY <1>6 DEF CreatePublish, At, TextInv, createVars, localVars, TypeOK
    <3>2. esp[slot] = Ctx(slot, "entry")
      BY <1>6 DEF CreatePublish, At, TextInv
    <3>3. pc[slot] = "none"
      BY <3>1 DEF TextInv, TypeOK
    <3>4. task_count' = task_count + 1
      BY <1>6, <3>1 DEF CreatePublish
    <3> QED
      BY <3>1, <3>2, <3>3, <3>4
  <2>2. \A s \in Slots : s < task_count + 1 => s < task_count \/ s = slot
    <3>1. task_count \in Int
      BY DEF TypeOK
    <3> QED
      BY <2>1, <3>1
  <2>3. \A s \in Slots :
           /\ pc'[s] \notin YieldSteps
           /\ pc'[s] = "none" => s # 0
           /\ s >= task_count' => pc'[s] = "none"
           /\ pc'[s] # "start"
           /\ s # 0 => pc'[s] = pc[s]
    <3>1. pc' = [pc EXCEPT ![0] = "create"]
      BY <1>6 DEF CreatePublish, Goto
    <3>2. \A s \in Slots : s >= task_count' => s >= task_count /\ s # 0
      BY <2>1 DEF TypeOK
    <3> QED
      BY <1>6, <2>1, <3>1, <3>2 DEF TextInv, TypeOK, YieldSteps, CreatePublish, At
  <2>4. pc'[0] = "create"
    BY <1>6 DEF CreatePublish, Goto, TypeOK
  <2>5. 0 < task_count'
    BY <2>1 DEF TypeOK
  <2> QED
    BY <2>1, <2>2, <2>3, <2>4, <2>5 DEF TextInv
<1>7. CASE LaunchDone
  <2>1. cpu = 0 /\ pc' = [pc EXCEPT ![cpu] = "run"]
        /\ UNCHANGED <<tstate, esp, arg, cpu, current_task, task_count, slot>>
    BY <1>7 DEF LaunchDone, At, Goto, tableVars, localVars, createVars
  <2> QED
    BY <2>1, OwnStepText DEF YieldSteps
<1>8. CASE Start
  <2>1. pc' = [pc EXCEPT ![cpu] = "run"]
        /\ UNCHANGED <<tstate, esp, arg, cpu, current_task, task_count, slot>>
    BY <1>8 DEF Start, At, Goto, tableVars, localVars, createVars
  <2> QED
    BY <2>1, OwnStepText DEF YieldSteps
<1>9. CASE Halt
  <2>1. pc' = [pc EXCEPT ![cpu] = "hlt"]
        /\ UNCHANGED <<tstate, esp, arg, cpu, current_task, task_count, slot>>
    BY <1>9 DEF Halt, At, Goto, tableVars, localVars, createVars
  <2> QED
    BY <2>1, OwnStepText DEF YieldSteps
<1>10. CASE Yield \/ Exit
  BY <1>10 DEF Yield, Exit
<1>11. CASE YieldStep
  BY <1>11
  DEF YieldStep, YieldPick, YieldCompare, YieldMark, YieldSet, YieldCurrent,
      YieldCall, YieldSave, YieldLoad, At, TextInv, YieldSteps
<1>12. CASE UNCHANGED vars
  BY <1>12 DEF vars, TextInv
<1> QED
  BY <1>1, <1>2, <1>3, <1>4, <1>5, <1>6, <1>7, <1>8, <1>9, <1>10, <1>11, <1>12
  DEF Next, TimerIrq, CpuStep, Create

LEMMA TextInvariant ==
    ASSUME Yielders = {}, Exiters = {}
    PROVE  Spec => [](TypeOK /\ TextInv)
<1>1. Init => TypeOK /\ TextInv
  BY InitTypes, InitText
<1>2. TypeOK /\ TextInv /\ [Next]_vars => (TypeOK /\ TextInv)'
  BY StepTypes, StepText
<1> QED
  BY <1>1, <1>2, PTL DEF Spec

(***************************************************************************)
(* Without yielding tasks every suspended task's stack pointer names an    *)
(* intact frame on its own stack.                                          *)
(***************************************************************************)
THEOREM TextContextsIntact ==
    ASSUME Yielders = {}, Exiters = {}
    PROVE  Spec => []ContextsIntact
<1>1. TypeOK /\ TextInv => ContextsIntact
  <2> SUFFICES ASSUME TypeOK, TextInv, NEW s \in 0 .. task_count - 1, s # cpu
               PROVE  esp[s].stk = s /\ esp[s].kind \in Resumable
    BY DEF ContextsIntact
  <2>1. s \in Slots /\ s < task_count
    BY SizesAssumption DEF TypeOK, Slots
  <2>2. esp[s] = Ctx(s, "entry") \/ esp[s] = Ctx(s, "irq")
    BY <2>1 DEF TextInv
  <2> QED
    BY <2>2 DEF Ctx, Resumable
<1> QED
  BY <1>1, TextInvariant, PTL

(* Without yielding tasks the table tells which task the CPU executes.     *)
THEOREM TextTableAgrees ==
    ASSUME Yielders = {}, Exiters = {}
    PROVE  Spec => []TableAgreesWithCpu
<1>1. TextInv => TableAgreesWithCpu
  BY DEF TextInv, TableAgreesWithCpu
<1> QED
  BY <1>1, TextInvariant, PTL

----------------------------------------------------------------------------
(***************************************************************************)
(* Refinement of RoundRobin: the turn is current_task, the members are the *)
(* slots below task_count, a task's place is its pc.                       *)
(***************************************************************************)
LEMMA InitRounds == Init => Promise!RoundInit
BY SlotFacts DEF Init, Promise!RoundInit, PCs

LEMMA OwnStepWorks ==
    ASSUME TypeOK, TextInv,
           UNCHANGED <<current_task, task_count>>,
           NEW p \in PCs, pc' = [pc EXCEPT ![cpu] = p]
    PROVE  Promise!Work
BY DEF Promise!Work, TextInv

LEMMA StepRounds ==
    ASSUME Yielders = {}, Exiters = {}, TypeOK, TextInv, [Next]_vars
    PROVE  [Promise!RoundNext]_Promise!roundVars
<1> USE SlotFacts
<1>1. CASE Preempt
  <2>1. /\ task_count > 1 /\ task_count' = task_count
        /\ current_task' = (current_task + 1) % task_count
        /\ pc' = [pc EXCEPT ![current_task'] = CASE @ = "none" -> "start"
                                                 [] @ = "hlt"  -> "run"
                                                 [] OTHER      -> @]
    BY <1>1, PreemptText
  <2>2. Promise!PassTurn
    BY <2>1 DEF Promise!PassTurn, Promise!Resumed
  <2> QED
    BY <2>2 DEF Promise!RoundNext
<1>2. CASE Tick \/ KeepRunning \/ DeviceIrq
  <2>1. /\ UNCHANGED <<current_task, task_count>>
        /\ pc' = [pc EXCEPT ![cpu] = IF @ = "hlt" THEN "run" ELSE @]
    BY <1>2 DEF Tick, KeepRunning, DeviceIrq, Wake, tableVars
  <2>2. cpu \in Slots /\ pc[cpu] \in PCs /\ "run" \in PCs
    BY DEF TypeOK, TextInv, PCs
  <2>3. \E p \in PCs : pc' = [pc EXCEPT ![cpu] = p]
    BY <2>1, <2>2
  <2> QED
    BY <2>1, <2>3, OwnStepWorks DEF Promise!RoundNext
<1>3. CASE CreateScan \/ CreateFrame \/ LaunchDone
  <2>1. cpu = 0 /\ UNCHANGED <<current_task, task_count>>
    BY <1>3 DEF CreateScan, CreateFrame, LaunchDone, At, tableVars
  <2>2. (\E p \in PCs : pc' = [pc EXCEPT ![cpu] = p]) \/ UNCHANGED pc
    BY <1>3, <2>1 DEF CreateScan, CreateFrame, LaunchDone, Goto, PCs
  <2>3. CASE \E p \in PCs : pc' = [pc EXCEPT ![cpu] = p]
    BY <2>1, <2>3, OwnStepWorks DEF Promise!RoundNext
  <2>4. CASE UNCHANGED pc
    BY <2>1, <2>4 DEF Promise!roundVars
  <2> QED
    BY <2>2, <2>3, <2>4
<1>4. CASE CreateClear
  <2>1. /\ cpu = 0 /\ UNCHANGED <<current_task, task_count>>
        /\ slot = task_count /\ slot # 0
    <3>1. cpu = 0 /\ pc[0] = "clear" /\ UNCHANGED <<current_task, task_count>>
      BY <1>4 DEF CreateClear, At
    <3>2. task_count # 0
      BY DEF TypeOK
    <3> QED
      BY <3>1, <3>2 DEF TextInv
  <2>2. pc[slot] = "none"
    BY <2>1 DEF TextInv, TypeOK
  <2>3. pc' = [pc EXCEPT ![cpu] = "frame"]
    BY <1>4, <2>1, <2>2 DEF CreateClear, TypeOK
  <2>4. "frame" \in PCs
    BY DEF PCs
  <2> QED
    BY <2>1, <2>3, <2>4, OwnStepWorks DEF Promise!RoundNext
<1>5. CASE CreatePublish
  <2>1. /\ cpu = 0 /\ current_task = 0 /\ current_task' = current_task
        /\ slot = task_count /\ task_count \in Int
    BY <1>5 DEF CreatePublish, At, TextInv, TypeOK
  <2>2. task_count' = task_count + 1 /\ task_count \in Slots
    BY <1>5, <2>1 DEF CreatePublish, TypeOK
  <2>3. pc' = [pc EXCEPT ![current_task] = "create"] /\ "create" \in PCs
    BY <1>5, <2>1 DEF CreatePublish, Goto, PCs
  <2>4. Promise!Join
    BY <2>1, <2>2, <2>3 DEF Promise!Join
  <2> QED
    BY <2>4 DEF Promise!RoundNext
<1>6. CASE Start \/ Halt
  <2>1. /\ UNCHANGED <<current_task, task_count>>
        /\ \E p \in {"run", "hlt"} : pc' = [pc EXCEPT ![cpu] = p]
    BY <1>6 DEF Start, Halt, At, Goto, tableVars
  <2>2. {"run", "hlt"} \subseteq PCs
    BY DEF PCs
  <2> QED
    BY <2>1, <2>2, OwnStepWorks DEF Promise!RoundNext
<1>7. CASE Yield \/ Exit
  BY <1>7 DEF Yield, Exit
<1>8. CASE YieldStep
  <2>1. cpu \in Slots /\ pc[cpu] \notin YieldSteps
    BY DEF TextInv, TypeOK
  <2> QED
    BY <1>8, <2>1
    DEF YieldStep, YieldPick, YieldCompare, YieldMark, YieldSet, YieldCurrent,
        YieldCall, YieldSave, YieldLoad, At, YieldSteps
<1>9. CASE UNCHANGED vars
  BY <1>9 DEF vars, Promise!roundVars
<1> QED
  BY <1>1, <1>2, <1>3, <1>4, <1>5, <1>6, <1>7, <1>8, <1>9
  DEF Next, TimerIrq, CpuStep, Create

(***************************************************************************)
(* Without yielding tasks the scheduler implements the round robin that    *)
(* task.h describes: strict turns, and nobody but the current task moves.  *)
(***************************************************************************)
THEOREM TextTakesTurns ==
    ASSUME Yielders = {}, Exiters = {}
    PROVE  Spec => TakesTurnsSafely
<1>1. Init => Promise!RoundInit
  BY InitRounds
<1>2. TypeOK /\ TextInv /\ [Next]_vars => [Promise!RoundNext]_Promise!roundVars
  BY StepRounds
<1> QED
  BY <1>1, <1>2, TextInvariant, PTL DEF Spec, TakesTurnsSafely, Promise!RoundSafety

----------------------------------------------------------------------------
(***************************************************************************)
(* The switch, in every mode.  A stack x takes the turn of slot x, except  *)
(* inside switch_to, after current_task = next: there its code already     *)
(* acts in the turn of next[x], and an interrupt saves it under that name. *)
(***************************************************************************)
Window  == {"call", "save", "load"}
Chosen  == {"compare", "mark", "set", "current"} \cup Window
Leaving == {"mark", "set", "current"} \cup Window

TurnOf(x) == IF pc[x] \in Window THEN next[x] ELSE x

(* Some pointer of the table or of a context_switch names a frame of kind k*)
(* on stack x.                                                             *)
Held(x, k) == \E t \in Slots : esp[t] = Ctx(x, k) \/ arg[t] = Ctx(x, k)

(* The locals of the switch that stack x is in are those that its code     *)
(* left there, and the frame it is about to load belongs to the task it    *)
(* chose.                                                                  *)
Coherent(x) ==
    /\ x < task_count
    /\ pc[x] # "none"
    /\ pc[x] \in Chosen  => next[x] < task_count
    /\ pc[x] \in Leaving => prev[x] = x /\ next[x] # x
    /\ pc[x] \in {"save", "load"} =>
          \A y \in Slots :
             /\ arg[x] = Ctx(y, "irq") => TurnOf(y) = next[x]
             /\ arg[x] = Ctx(y, "yield") \/ arg[x] = Ctx(y, "entry") => y = next[x]

CpuInv ==
    /\ current_task < task_count
    /\ cpu \in Slots => Coherent(cpu) /\ current_task = TurnOf(cpu)

FrameInv ==
    \A x \in Slots :
       /\ Held(x, "irq")   => x # cpu /\ Coherent(x)
       /\ Held(x, "yield") => x < task_count /\ pc[x] = "load"
       /\ Held(x, "entry") => pc[x] = "none"
       /\ \A t \in Slots :
             /\ esp[t] = Ctx(x, "irq") => TurnOf(x) = t
             /\ esp[t] = Ctx(x, "yield") \/ esp[t] = Ctx(x, "entry") => x = t

CreateInv ==
    /\ pc[0] \in {"create", "clear", "frame", "publish", "run", "hlt"}
    /\ \A s \in Slots : tstate[s] = "DEAD" => s < task_count
    /\ pc[0] \in {"clear", "frame", "publish"} => 0 < slot /\ slot <= task_count
    /\ pc[0] = "frame" => pc[slot] = "none" /\ ~ Held(slot, "entry")
    /\ pc[0] = "publish" /\ slot = task_count => esp[slot] = Ctx(slot, "entry")

(* With IF = 0 nobody comes between the steps of a switch.                 *)
MaskedInv ==
    ~ iflag /\ cpu \in Slots =>
        /\ pc[cpu] \in {"current"} \cup Window => tstate[next[cpu]] # "DEAD"
        /\ pc[cpu] \in {"save", "load"} => arg[cpu] = esp[next[cpu]]
        /\ pc[cpu] = "load" => esp[cpu] = Ctx(cpu, "yield")

SwitchInv == CpuInv /\ FrameInv /\ CreateInv /\ MaskedInv

----------------------------------------------------------------------------
LEMMA ContextFacts ==
    /\ \A c \in Contexts : c = Ctx(c.stk, c.kind) /\ c.stk \in Slots
    /\ \A x, y \in Slots, k, l \in Kinds :
          Ctx(x, k) = Ctx(y, l) <=> x = y /\ k = l
    /\ \A x \in Slots, k \in Kinds :
          Ctx(x, k) \in Contexts /\ Ctx(x, k).stk = x /\ Ctx(x, k).kind = k
BY DEF Contexts, Ctx

LEMMA NextInTable ==
    ASSUME TypeOK, current_task < task_count, NEW n \in Slots, IsNext(n)
    PROVE  n < task_count
<1>1. /\ current_task \in Nat /\ task_count \in Nat \ {0}
  BY SlotFacts, SizesAssumption DEF TypeOK
<1>2. \A i \in 1 .. task_count : Succ(i) < task_count
  <2> TAKE i \in 1 .. task_count
  <2>1. current_task + i \in Nat
    BY <1>1
  <2>2. (current_task + i) % task_count \in 0 .. task_count - 1
    BY <1>1, <2>1, ModRange
  <2> QED
    BY <1>1, <2>2 DEF Succ
<1> QED
  BY <1>2 DEF IsNext

(***************************************************************************)
(* What a step may do to the frames that are held: keep them while the code*)
(* and the locals of their stack stay as they are, or add a sound one.     *)
(***************************************************************************)
Same(x) ==
    /\ pc'[x] = pc[x] /\ next'[x] = next[x] /\ prev'[x] = prev[x]
    /\ \A y \in Slots, k \in Resumable :
          arg'[x] = Ctx(y, k) => arg[x] = Ctx(y, k)
Kept(x, k) ==
    /\ pc'[x] = pc[x]
    /\ k = "irq" => Same(x) /\ x # cpu'
Fresh(t, x, k) ==
    \/ k = "irq" /\ x # cpu' /\ Coherent(x)' /\ TurnOf(x)' = t
    \/ k = "yield" /\ x = t /\ x < task_count' /\ pc'[x] = "load"
    \/ k = "entry" /\ x = t /\ pc'[x] = "none"

(* A stack stays coherent through a step that leaves its slot alone. *)
LEMMA CoherentKept ==
    ASSUME TypeOK, FrameInv, task_count' \in Int, task_count <= task_count',
           NEW x \in Slots, Coherent(x), Same(x),
           \A y \in Slots : arg'[x] = Ctx(y, "irq") => Same(y)
    PROVE  Coherent(x)' /\ TurnOf(x)' = TurnOf(x)
<1>1. \A y \in Slots : Same(y) => TurnOf(y)' = TurnOf(y)
  BY DEF Same, TurnOf
<1>2. \A y \in Slots :
         /\ arg'[x] = Ctx(y, "irq") => arg[x] = Ctx(y, "irq") /\ TurnOf(y)' = TurnOf(y)
         /\ arg'[x] = Ctx(y, "yield") => arg[x] = Ctx(y, "yield")
         /\ arg'[x] = Ctx(y, "entry") => arg[x] = Ctx(y, "entry")
  BY <1>1 DEF Same, Resumable
<1>3. x < task_count' /\ (next[x] < task_count => next[x] < task_count')
  BY SlotFacts DEF TypeOK, Coherent
<1>4. pc'[x] = pc[x] /\ next'[x] = next[x] /\ prev'[x] = prev[x]
  BY DEF Same
<1>5. /\ x < task_count'
      /\ pc'[x] # "none"
      /\ pc'[x] \in Chosen  => next'[x] < task_count'
      /\ pc'[x] \in Leaving => prev'[x] = x /\ next'[x] # x
  BY <1>3, <1>4 DEF Coherent
<1>6. pc'[x] \in {"save", "load"} =>
          \A y \in Slots :
             /\ arg'[x] = Ctx(y, "irq") => TurnOf(y)' = next'[x]
             /\ arg'[x] = Ctx(y, "yield") \/ arg'[x] = Ctx(y, "entry") => y = next'[x]
  BY <1>2, <1>4 DEF Coherent
<1> QED
  BY <1>1, <1>5, <1>6 DEF Coherent

(* What is saved for a slot stays valid while its stack does not move. *)
LEMMA FramesKept ==
    ASSUME TypeOK, FrameInv, task_count' \in Int, task_count <= task_count',
           \A t, x \in Slots, k \in Resumable :
              esp'[t] = Ctx(x, k) =>
                 (esp[t] = Ctx(x, k) /\ Kept(x, k)) \/ Fresh(t, x, k),
           \A t, x \in Slots, k \in Resumable :
              arg'[t] = Ctx(x, k) => Held(x, k) /\ Kept(x, k)
    PROVE  FrameInv'
<1> SUFFICES ASSUME NEW x \in Slots
             PROVE  /\ Held(x, "irq")'   => x # cpu' /\ Coherent(x)'
                    /\ Held(x, "yield")' => x < task_count' /\ pc'[x] = "load"
                    /\ Held(x, "entry")' => pc'[x] = "none"
                    /\ \A t \in Slots :
                         /\ esp'[t] = Ctx(x, "irq") => TurnOf(x)' = t
                         /\ esp'[t] = Ctx(x, "yield") \/ esp'[t] = Ctx(x, "entry")
                              => x = t
  BY DEF FrameInv
<1>1. "irq" \in Resumable /\ "yield" \in Resumable /\ "entry" \in Resumable
  BY DEF Resumable
<1>2. ASSUME Held(x, "irq"), Kept(x, "irq")
      PROVE  x # cpu' /\ Coherent(x)' /\ TurnOf(x)' = TurnOf(x)
  <2>1. Same(x) /\ x # cpu' /\ Coherent(x)
    BY <1>2 DEF Kept, FrameInv
  <2>2. \A y \in Slots : arg'[x] = Ctx(y, "irq") => Same(y)
    BY <1>1 DEF Kept
  <2> QED
    BY <2>1, <2>2, CoherentKept
<1>3. ASSUME Held(x, "yield"), Kept(x, "yield")
      PROVE  x < task_count' /\ pc'[x] = "load"
  BY <1>3, SlotFacts DEF Kept, FrameInv, TypeOK
<1>4. ASSUME Held(x, "entry"), Kept(x, "entry")
      PROVE  pc'[x] = "none"
  BY <1>4 DEF Kept, FrameInv
<1>5. \A t \in Slots, k \in Resumable : esp[t] = Ctx(x, k) => Held(x, k)
  BY DEF Held
<1>6. ASSUME Held(x, "irq")' PROVE x # cpu' /\ Coherent(x)'
  <2>1. PICK t \in Slots : esp'[t] = Ctx(x, "irq") \/ arg'[t] = Ctx(x, "irq")
    BY <1>6 DEF Held, Ctx
  <2> QED
    BY <1>1, <1>2, <1>5, <2>1 DEF Fresh
<1>7. ASSUME Held(x, "yield")' PROVE x < task_count' /\ pc'[x] = "load"
  <2>1. PICK t \in Slots : esp'[t] = Ctx(x, "yield") \/ arg'[t] = Ctx(x, "yield")
    BY <1>7 DEF Held, Ctx
  <2> QED
    BY <1>1, <1>3, <1>5, <2>1 DEF Fresh
<1>8. ASSUME Held(x, "entry")' PROVE pc'[x] = "none"
  <2>1. PICK t \in Slots : esp'[t] = Ctx(x, "entry") \/ arg'[t] = Ctx(x, "entry")
    BY <1>8 DEF Held, Ctx
  <2> QED
    BY <1>1, <1>4, <1>5, <2>1 DEF Fresh
<1>9. ASSUME NEW t \in Slots
      PROVE  /\ esp'[t] = Ctx(x, "irq") => TurnOf(x)' = t
             /\ esp'[t] = Ctx(x, "yield") \/ esp'[t] = Ctx(x, "entry") => x = t
  <2>1. ASSUME esp'[t] = Ctx(x, "irq") PROVE TurnOf(x)' = t
    BY <1>1, <1>2, <1>5, <2>1 DEF Fresh, FrameInv
  <2>2. ASSUME NEW k \in {"yield", "entry"}, esp'[t] = Ctx(x, k) PROVE x = t
    <3>1. esp[t] = Ctx(x, k) \/ Fresh(t, x, k)
      BY <1>1, <2>2
    <3> QED
      BY <2>2, <3>1 DEF Fresh, FrameInv
  <2> QED
    BY <2>1, <2>2
<1> QED
  BY <1>6, <1>7, <1>8, <1>9

(* A step of the code on the CPU's stack that moves no frame.              *)
LEMMA OwnStepSwitch ==
    ASSUME TypeOK, CpuInv, FrameInv, cpu \in Slots,
           UNCHANGED <<esp, arg, cpu, task_count>>,
           NEW p, pc' = [pc EXCEPT ![cpu] = p], pc[cpu] = "load" => p = "load",
           \A s \in Slots \ {cpu} : next'[s] = next[s] /\ prev'[s] = prev[s],
           current_task' < task_count', Coherent(cpu)', current_task' = TurnOf(cpu)'
    PROVE  CpuInv' /\ FrameInv'
<1>1. \A s \in Slots \ {cpu} : Same(s)
  BY DEF Same, TypeOK
<1>2. pc[cpu] # "none"
  BY DEF CpuInv, Coherent
<1>3. ASSUME NEW x \in Slots, NEW k \in Resumable, Held(x, k)
      PROVE  Kept(x, k)
  <2>1. CASE x # cpu
    BY <1>1, <2>1 DEF Kept, Same
  <2>2. CASE x = cpu
    <3>1. k = "yield" /\ pc[cpu] = "load"
      BY <1>2, <1>3, <2>2 DEF FrameInv, Resumable
    <3>2. pc'[cpu] = "load"
      BY <3>1 DEF TypeOK
    <3> QED
      BY <2>2, <3>1, <3>2 DEF Kept
  <2> QED
    BY <2>1, <2>2
<1>4. \A t, x \in Slots, k \in Resumable :
          /\ esp'[t] = Ctx(x, k) => esp[t] = Ctx(x, k) /\ Kept(x, k)
          /\ arg'[t] = Ctx(x, k) => Held(x, k) /\ Kept(x, k)
  BY <1>3 DEF Held
<1>5. task_count' \in Int /\ task_count <= task_count'
  BY DEF TypeOK
<1>6. FrameInv'
  BY <1>4, <1>5, FramesKept
<1> QED
  BY <1>6 DEF CpuInv
----------------------------------------------------------------------------
(***************************************************************************)
(* Resuming the frame c: every other frame of its stack is gone, but for   *)
(* the yield frame below an interrupt's.                                   *)
(***************************************************************************)
LEMMA ResumeFrames ==
    ASSUME TypeOK, NEW c \in Contexts, NEW E \in [Slots -> Contexts],
           NEW A \in [Slots -> Contexts], NEW flag, Resume(c, E, A, flag)
    PROVE  /\ \A t, x \in Slots, k \in Resumable :
                 /\ esp'[t] = Ctx(x, k) =>
                       E[t] = Ctx(x, k) /\ (x = cpu' => k = "yield" /\ c.kind = "irq")
                 /\ arg'[t] = Ctx(x, k) =>
                       A[t] = Ctx(x, k) /\ (x = cpu' => k = "yield" /\ c.kind = "irq")
                 /\ E[t] = Ctx(x, k) /\ x # cpu' => esp'[t] = E[t]
           /\ c.kind \notin Resumable => cpu' = Wild /\ pc' = pc
           /\ c.kind \in Resumable =>
                 /\ cpu' = c.stk
                 /\ c.kind = "irq" =>
                       /\ iflag'
                       /\ pc' = [pc EXCEPT ![c.stk] = IF @ = "hlt" THEN "run" ELSE @]
                 /\ c.kind = "yield" => pc' = [pc EXCEPT ![c.stk] = ret[c.stk]]
                 /\ c.kind = "entry" => pc' = [pc EXCEPT ![c.stk] = "start"]
<1>1. ASSUME NEW H \in [Slots -> Contexts], NEW t \in Slots, NEW x \in Slots,
             NEW k \in Resumable
      PROVE  /\ Expire(H, c)[t] = Ctx(x, k) =>
                   H[t] = Ctx(x, k) /\ (x = c.stk => k = "yield" /\ c.kind = "irq")
             /\ H[t] = Ctx(x, k) /\ x # c.stk => Expire(H, c)[t] = H[t]
  BY DEF Expire, Popped, Ctx, Contexts, Resumable, Kinds
<1>2. CASE c.kind \in Resumable
  <2>1. cpu' = c.stk /\ esp' = Expire(E, c) /\ arg' = Expire(A, c)
    BY <1>2 DEF Resume
  <2>2. /\ c.kind = "irq" =>
              /\ iflag'
              /\ pc' = [pc EXCEPT ![c.stk] = IF @ = "hlt" THEN "run" ELSE @]
        /\ c.kind = "yield" => pc' = [pc EXCEPT ![c.stk] = ret[c.stk]]
        /\ c.kind = "entry" => pc' = [pc EXCEPT ![c.stk] = "start"]
    BY <1>2 DEF Resume
  <2> QED
    BY <1>1, <1>2, <2>1, <2>2
<1>3. CASE c.kind \notin Resumable
  BY <1>3, SlotFacts DEF Resume
<1> QED
  BY <1>2, <1>3

(* The frame c is one that the slot turn continues with.                   *)
Belongs(c, turn) ==
    /\ c.kind \in Resumable => Held(c.stk, c.kind)
    /\ c.kind = "irq" => TurnOf(c.stk) = turn
    /\ c.kind \in {"yield", "entry"} => c.stk = turn

(* E and A are the saved pointers, but for an interrupt frame pushed on the*)
(* CPU's stack, and the locals of its switch, which may be given up.       *)
Pushed(E, A) ==
    /\ \A t, x \in Slots, k \in Resumable :
          /\ E[t] = Ctx(x, k) =>
                \/ esp[t] = Ctx(x, k)
                \/ /\ k = "irq" /\ x = cpu /\ t = TurnOf(cpu)
                   /\ next' = next /\ prev' = prev
          /\ A[t] = Ctx(x, k) => arg[t] = Ctx(x, k)
    /\ \A s \in Slots \ {cpu} : next'[s] = next[s] /\ prev'[s] = prev[s]
    /\ \A s \in Slots : s # TurnOf(cpu) => E[s] = esp[s]

(* The CPU changes stacks, from inside the timer's handler or in           *)
(* context_switch: E and A are the pointers just before the load.          *)
LEMMA ResumeSwitch ==
    ASSUME TypeOK, CpuInv, FrameInv, CreateInv, cpu \in Slots,
           NEW c \in Contexts, NEW E \in [Slots -> Contexts],
           NEW A \in [Slots -> Contexts], NEW flag \in BOOLEAN, NEW turn \in Slots,
           Resume(c, E, A, flag),
           Belongs(c, turn), turn < task_count, current_task' = turn,
           Pushed(E, A), UNCHANGED <<task_count, slot>>,
           \A s \in Slots : tstate'[s] = "DEAD" => tstate[s] = "DEAD"
    PROVE  SwitchInv'
<1> USE DEF Belongs, Pushed
<1>0. PICK y \in Slots : y = c.stk
  BY ContextFacts
<1>1. c = Ctx(y, c.kind) /\ "irq" \in Resumable
      /\ "yield" \in Resumable /\ "entry" \in Resumable
  BY <1>0, ContextFacts DEF Resumable
<1>2. /\ \A t, x \in Slots, k \in Resumable :
            /\ esp'[t] = Ctx(x, k) =>
                  E[t] = Ctx(x, k) /\ (x = cpu' => k = "yield" /\ c.kind = "irq")
            /\ arg'[t] = Ctx(x, k) =>
                  A[t] = Ctx(x, k) /\ (x = cpu' => k = "yield" /\ c.kind = "irq")
            /\ E[t] = Ctx(x, k) /\ x # cpu' => esp'[t] = E[t]
      /\ c.kind \notin Resumable => cpu' = Wild /\ pc' = pc
      /\ c.kind \in Resumable =>
            /\ cpu' = y
            /\ c.kind = "irq" =>
                  /\ iflag'
                  /\ pc' = [pc EXCEPT ![y] = IF @ = "hlt" THEN "run" ELSE @]
            /\ c.kind = "yield" => pc' = [pc EXCEPT ![y] = ret[y]]
            /\ c.kind = "entry" => pc' = [pc EXCEPT ![y] = "start"]
  BY <1>0, ResumeFrames
<1>3. /\ Coherent(cpu) /\ pc[cpu] # "none"
      /\ task_count \in Int /\ task_count' = task_count
  BY DEF CpuInv, Coherent, TypeOK
\* The resumed stack: not the one the CPU was on, unless by its yield frame.
<1>4. /\ c.kind = "irq"   => y # cpu /\ Coherent(y)
      /\ c.kind = "yield" => pc[y] = "load" /\ y # 0
      /\ c.kind = "entry" => pc[y] = "none" /\ y # 0 /\ y # cpu
  <2>1. c.kind \in Resumable => Held(y, c.kind)
    BY <1>0
  <2>2. pc[0] # "none" /\ pc[0] # "load"
    BY DEF CreateInv
  <2>3. c.kind = "irq" => y # cpu /\ Coherent(y)
    BY <1>1, <2>1 DEF FrameInv
  <2>4. c.kind = "yield" => pc[y] = "load"
    BY <1>1, <2>1 DEF FrameInv
  <2>5. c.kind = "entry" => pc[y] = "none"
    BY <1>1, <2>1 DEF FrameInv
  <2> QED
    BY <1>3, <2>2, <2>3, <2>4, <2>5
<1>5. /\ \A s \in Slots \ {y} : pc'[s] = pc[s]
      /\ c.kind \notin Resumable => pc'[y] = pc[y]
      /\ c.kind = "irq" => pc'[y] = IF pc[y] = "hlt" THEN "run" ELSE pc[y]
      /\ c.kind = "yield" => pc'[y] \in {"run", "net"}
      /\ c.kind = "entry" => pc'[y] = "start"
      /\ c.kind \in Resumable => c.kind \in {"irq", "yield", "entry"}
  BY <1>1, <1>2 DEF TypeOK, Resumable
\* Frames that survive: what they say of their stack stays true.
<1>6. ASSUME NEW x \in Slots, NEW k \in Resumable, Held(x, k),
             x = cpu' => k = "yield" /\ c.kind = "irq"
      PROVE  pc'[x] = pc[x]
  <2>1. CASE x # y \/ c.kind \notin Resumable
    BY <1>5, <2>1
  <2>2. CASE x = y /\ c.kind \in Resumable
    <3>1. k = "yield" /\ c.kind = "irq"
      BY <1>2, <1>6, <2>2
    <3>2. pc[y] = "load"
      BY <1>6, <2>2, <3>1 DEF FrameInv
    <3> QED
      BY <1>5, <2>2, <3>1, <3>2
  <2> QED
    BY <2>1, <2>2
<1>7. \A s, z \in Slots, k \in Resumable : arg'[s] = Ctx(z, k) => arg[s] = Ctx(z, k)
  BY <1>2
<1>8. ASSUME NEW x \in Slots, Held(x, "irq"), x # cpu'
      PROVE  Same(x)
  <2>1. x # cpu
    BY <1>8 DEF FrameInv
  <2> QED
    BY <1>1, <1>6, <1>7, <1>8, <2>1 DEF Same
<1>9. \A t, x \in Slots, k \in Resumable :
         esp[t] = Ctx(x, k) \/ arg[t] = Ctx(x, k) => Held(x, k)
  BY DEF Held
<1>10. ASSUME NEW x \in Slots, NEW k \in Resumable, Held(x, k),
              x = cpu' => k = "yield" /\ c.kind = "irq"
       PROVE  Kept(x, k)
  BY <1>6, <1>8, <1>10 DEF Kept
<1>11. \A t, x \in Slots, k \in Resumable :
          arg'[t] = Ctx(x, k) => Held(x, k) /\ Kept(x, k)
  BY <1>2, <1>9, <1>10
<1>12. ASSUME NEW x \in Slots, x # cpu', Coherent(x), pc'[x] = pc[x],
              next'[x] = next[x], prev'[x] = prev[x]
       PROVE  Coherent(x)' /\ TurnOf(x)' = TurnOf(x)
  <2>1. Same(x)
    BY <1>7, <1>12 DEF Same
  <2>2. \A z \in Slots : arg'[x] = Ctx(z, "irq") => Same(z)
    BY <1>1, <1>11 DEF Kept
  <2> QED
    BY <1>3, <1>12, <2>1, <2>2, CoherentKept
<1>13. ASSUME NEW t \in Slots, NEW x \in Slots, NEW k \in Resumable,
              esp'[t] = Ctx(x, k)
       PROVE  (esp[t] = Ctx(x, k) /\ Kept(x, k)) \/ Fresh(t, x, k)
  <2>1. /\ E[t] = Ctx(x, k)
        /\ x = cpu' => k = "yield" /\ c.kind = "irq"
    BY <1>2, <1>13
  <2>2. CASE esp[t] = Ctx(x, k)
    BY <1>9, <1>10, <2>1, <2>2
  <2>3. CASE esp[t] # Ctx(x, k)
    <3>1. k = "irq" /\ x = cpu /\ t = TurnOf(x) /\ next' = next /\ prev' = prev
      BY <2>1, <2>3
    <3>2. x # cpu' /\ Coherent(x) /\ (x # y => pc'[x] = pc[x])
      BY <1>3, <1>5, <2>1, <3>1
    <3>3. pc'[x] = pc[x]
      BY <1>2, <1>5, <3>2
    <3> QED
      BY <1>12, <3>1, <3>2, <3>3 DEF Fresh
  <2> QED
    BY <2>2, <2>3
<1>14. FrameInv'
  BY <1>3, <1>11, <1>13, FramesKept
<1>15. CpuInv'
  <2> SUFFICES ASSUME cpu' \in Slots
               PROVE  Coherent(cpu)' /\ turn = TurnOf(cpu)'
    BY <1>3 DEF CpuInv
  <2>1. c.kind \in Resumable /\ cpu' = y
    BY <1>2, SlotFacts
  <2>2. Coherent(y)' /\ turn = TurnOf(y)'
    <3>1. CASE c.kind = "irq" /\ pc[y] # "hlt"
      <4>1. Same(y) /\ Coherent(y)
        BY <1>4, <1>5, <1>7, <3>1 DEF Same
      <4>2. \A z \in Slots : arg'[y] = Ctx(z, "irq") => Same(z)
        BY <1>1, <1>11 DEF Kept
      <4> QED
        BY <1>0, <1>3, <3>1, <4>1, <4>2, CoherentKept
    <3>2. CASE ~ (c.kind = "irq" /\ pc[y] # "hlt")
      <4>1. pc'[y] \in {"run", "net", "start"}
        BY <1>5, <2>1, <3>2
      <4>2. y < task_count'
        BY <1>0, <1>3, <1>4, <1>5, <2>1 DEF Coherent
      <4>3. turn = y
        BY <1>0, <1>5, <2>1, <3>2 DEF TurnOf, Window
      <4> QED
        BY <4>1, <4>2, <4>3 DEF Coherent, TurnOf, Window, Chosen, Leaving
    <3> QED
      BY <3>1, <3>2
  <2> QED
    BY <2>1, <2>2 DEF Coherent, TurnOf
<1>16. MaskedInv'
  <2> SUFFICES ASSUME cpu' \in Slots, ~ iflag'
               PROVE  pc'[cpu'] \notin {"current"} \cup Window
    BY DEF MaskedInv, Window
  <2>1. c.kind \in {"yield", "entry"} /\ cpu' = y
    BY <1>2, <1>5, SlotFacts
  <2> QED
    BY <1>5, <2>1 DEF Window
<1>17. CreateInv'
  <2>1. /\ pc'[0] \in {"create", "clear", "frame", "publish", "run", "hlt"}
        /\ pc'[0] \in {"clear", "frame", "publish"} => pc[0] = pc'[0]
    <3>1. CASE y # 0 \/ c.kind \notin Resumable
      BY <1>5, <3>1, SlotFacts DEF CreateInv
    <3>2. CASE y = 0 /\ c.kind \in Resumable
      BY <1>4, <1>5, <3>2 DEF CreateInv
    <3> QED
      BY <3>1, <3>2
  <2>2. ASSUME pc'[0] = "frame" PROVE pc'[slot] = "none" /\ ~ Held(slot, "entry")'
    <3>1. slot \in Slots /\ pc[slot] = "none" /\ ~ Held(slot, "entry") /\ slot' = slot
      BY <2>1, <2>2 DEF CreateInv, TypeOK
    <3>2. y # slot \/ c.kind \notin Resumable
      BY <1>0, <1>4, <1>5, <3>1 DEF Coherent
    <3>3. pc'[slot] = "none"
      BY <1>5, <3>1, <3>2
    <3>4. PICK z \in Slots : z = slot
      BY <3>1
    <3>5. ~ Held(z, "entry")'
      <4>1. \A t \in Slots : esp'[t] # Ctx(z, "entry")
        BY <1>1, <1>2, <1>9, <3>1, <3>4
      <4>2. \A t \in Slots : arg'[t] # Ctx(z, "entry")
        BY <1>1, <1>11, <3>1, <3>4
      <4> QED
        BY <4>1, <4>2 DEF Held, Ctx
    <3> QED
      BY <3>1, <3>3, <3>4, <3>5 DEF Held, Ctx
  <2>3. ASSUME pc'[0] = "publish", slot = task_count
        PROVE  esp'[slot] = Ctx(slot, "entry")
    <3>1. slot \in Slots /\ esp[slot] = Ctx(slot, "entry")
      BY <2>1, <2>3 DEF CreateInv, TypeOK
    <3>2. slot # TurnOf(cpu)
      BY <2>3, <1>3 DEF CpuInv, TypeOK
    <3>3. E[slot] = Ctx(slot, "entry")
      BY <3>1, <3>2
    <3>4. slot # cpu'
      <4>1. slot # y \/ c.kind \notin Resumable
        BY <1>0, <1>3, <1>4, <1>5, <2>3 DEF Coherent
      <4> QED
        BY <1>2, <3>1, <4>1, SlotFacts
    <3> QED
      BY <1>1, <1>2, <3>1, <3>3, <3>4
  <2> QED
    BY <1>3, <2>1, <2>2, <2>3 DEF CreateInv, Ctx
<1> QED
  BY <1>14, <1>15, <1>16, <1>17 DEF SwitchInv

(* Such a step outside of task_create, and of task_create's search.        *)
LEMMA OwnStepInv ==
    ASSUME TypeOK, SwitchInv, cpu \in Slots,
           UNCHANGED <<esp, arg, cpu, task_count>>,
           NEW p, p # "none", pc' = [pc EXCEPT ![cpu] = p],
           pc[cpu] = "load" => p = "load",
           \A s \in Slots \ {cpu} : next'[s] = next[s] /\ prev'[s] = prev[s],
           current_task' < task_count', Coherent(cpu)', current_task' = TurnOf(cpu)',
           \A s \in Slots : tstate'[s] = "DEAD" => s < task_count,
           cpu = 0 => \/ p \in {"create", "run", "hlt"}
                      \/ p = pc[0] /\ slot' = slot
                      \/ p = "clear" /\ 0 < slot' /\ slot' <= task_count,
           cpu # 0 => slot' = slot,
           MaskedInv'
    PROVE  SwitchInv'
<1>1. CpuInv' /\ FrameInv'
  BY OwnStepSwitch DEF SwitchInv
<1>2. CreateInv'
  <2>1. CASE cpu = 0 /\ p \in {"create", "run", "hlt", "clear"} /\ p # pc[0]
    <3>1. pc'[0] = p
      BY <2>1 DEF TypeOK
    <3> QED
      BY <2>1, <3>1 DEF CreateInv
  <2>2. CASE (cpu = 0 /\ p = pc[0]) \/ cpu # 0
    <3>1. pc'[0] = pc[0]
      BY <2>2, SlotFacts DEF TypeOK
    <3>2. CASE slot' = slot
      <4>1. pc[0] = "frame" => slot # cpu /\ pc'[slot] = "none"
        BY DEF SwitchInv, CpuInv, Coherent, CreateInv, TypeOK
      <4>2. Held(slot, "entry")' = Held(slot, "entry")
        BY <3>2 DEF Held
      <4> QED
        BY <3>1, <3>2, <4>1, <4>2 DEF SwitchInv, CreateInv
    <3>3. CASE slot' # slot
      BY <2>2, <3>1, <3>3 DEF SwitchInv, CreateInv
    <3> QED
      BY <3>2, <3>3
  <2> QED
    BY <2>1, <2>2 DEF SwitchInv, CreateInv
<1> QED
  BY <1>1, <1>2 DEF SwitchInv

LEMMA InitSwitch == Init => SwitchInv
<1> SUFFICES ASSUME Init PROVE SwitchInv
  OBVIOUS
<1>1. \A x \in Slots, k \in Resumable : ~ Held(x, k)
  BY DEF Init, Held, Resumable, Ctx
<1>2. \A t, x \in Slots, k \in Resumable : esp[t] # Ctx(x, k)
  BY DEF Init, Resumable, Ctx
<1>3. "irq" \in Resumable /\ "yield" \in Resumable /\ "entry" \in Resumable
  BY DEF Resumable
<1>4. CpuInv
  BY SlotFacts DEF Init, CpuInv, Coherent, TurnOf, Window, Chosen, Leaving
<1>5. FrameInv
  BY <1>1, <1>2, <1>3 DEF FrameInv
<1>6. CreateInv /\ MaskedInv
  BY SlotFacts DEF Init, CreateInv, MaskedInv
<1> QED
  BY <1>4, <1>5, <1>6 DEF SwitchInv

(* The interrupts.                                                         *)
LEMMA WakeSwitch ==
    ASSUME TypeOK, SwitchInv, Tick \/ KeepRunning \/ DeviceIrq
    PROVE  SwitchInv'
<1> DEFINE p == IF pc[cpu] = "hlt" THEN "run" ELSE pc[cpu]
<1>1. /\ iflag' /\ pc' = [pc EXCEPT ![cpu] = p] /\ cpu \in Slots
      /\ UNCHANGED <<tstate, esp, arg, cpu, current_task, task_count, slot, next, prev>>
  BY DEF Tick, KeepRunning, DeviceIrq, Wake, tableVars, localVars, createVars
<1>2. Coherent(cpu) /\ current_task = TurnOf(cpu) /\ current_task < task_count
  BY <1>1 DEF SwitchInv, CpuInv
<1>3. Coherent(cpu)' /\ current_task' = TurnOf(cpu)'
  <2>1. CASE pc[cpu] = "hlt"
    <3>1. pc'[cpu] = "run"
      BY <1>1, <2>1 DEF TypeOK
    <3> QED
      BY <1>1, <1>2, <2>1, <3>1 DEF Coherent, TurnOf, Window, Chosen, Leaving
  <2>2. CASE pc[cpu] # "hlt"
    <3>1. pc' = pc
      BY <1>1, <2>2 DEF TypeOK
    <3> QED
      BY <1>1, <1>2, <3>1 DEF Coherent, TurnOf
  <2> QED
    BY <2>1, <2>2
<1>4. p # "none" /\ (pc[cpu] = "load" => p = "load")
      /\ (cpu = 0 => p \in {"create", "run", "hlt"} \/ p = pc[0])
  BY <1>2 DEF Coherent
<1>5. \A s \in Slots : tstate'[s] = "DEAD" => s < task_count
  BY <1>1 DEF SwitchInv, CreateInv
<1>6. MaskedInv'
  BY <1>1 DEF MaskedInv
<1> HIDE DEF p
<1> QED
  BY <1>1, <1>2, <1>3, <1>4, <1>5, <1>6, OwnStepInv

LEMMA PreemptSwitch ==
    ASSUME TypeOK, SwitchInv, Preempt
    PROVE  SwitchInv'
<1>1. PICK n \in Slots \ {current_task} :
         /\ IsNext(n)
         /\ tstate' = [MarkReady(tstate, current_task) EXCEPT ![n] = "RUNNING"]
         /\ current_task' = n
         /\ Resume(esp[n], [esp EXCEPT ![current_task] = Ctx(cpu, "irq")],
                   arg, FALSE)
  BY DEF Preempt
<1>2. PICK c \in Contexts, E \in [Slots -> Contexts], A \in [Slots -> Contexts] :
         c = esp[n] /\ A = arg /\ E = [esp EXCEPT ![current_task] = Ctx(cpu, "irq")]
  BY ContextFacts DEF Preempt, TypeOK, Kinds
<1>3. /\ cpu \in Slots /\ current_task = TurnOf(cpu) /\ current_task < task_count
      /\ UNCHANGED <<task_count, slot, next, prev>>
  BY DEF Preempt, SwitchInv, CpuInv, createVars
<1>4. n < task_count
  BY <1>1, <1>3, NextInTable
<1>5. Resume(c, E, A, FALSE)
  BY <1>1, <1>2
<1>6. esp[n] = Ctx(c.stk, c.kind) /\ c.stk \in Slots /\ c.kind \in Kinds
  BY <1>2, ContextFacts DEF Contexts
<1>7. Belongs(c, n)
  BY <1>6 DEF Belongs, Held, SwitchInv, FrameInv
<1>8. Pushed(E, A)
  <2>1. \A s \in Slots : E[s] = IF s = current_task THEN Ctx(cpu, "irq") ELSE esp[s]
    BY <1>2 DEF TypeOK
  <2>2. \A x \in Slots, k \in Resumable : Ctx(cpu, "irq") = Ctx(x, k) => k = "irq" /\ x = cpu
    BY DEF Ctx
  <2> QED
    BY <1>2, <1>3, <2>1, <2>2 DEF Pushed
<1>9. \A s \in Slots : tstate'[s] = "DEAD" => tstate[s] = "DEAD"
  BY <1>1 DEF MarkReady, TypeOK
<1>10. CpuInv /\ FrameInv /\ CreateInv
  BY DEF SwitchInv
<1> QED
  BY <1>1, <1>3, <1>4, <1>5, <1>7, <1>8, <1>9, <1>10, ResumeSwitch

(* Code that is not inside switch_to and stays outside of it.              *)
LEMMA PlainStepInv ==
    ASSUME TypeOK, SwitchInv, cpu \in Slots, pc[cpu] \notin Window,
           UNCHANGED <<esp, arg, cpu, current_task, task_count>>,
           NEW p, p \notin Chosen \cup {"none"}, pc' = [pc EXCEPT ![cpu] = p],
           UNCHANGED <<next, prev>>,
           \A s \in Slots : tstate'[s] = "DEAD" => s < task_count,
           cpu = 0 => \/ p \in {"create", "run", "hlt"}
                      \/ p = "clear" /\ 0 < slot' /\ slot' <= task_count,
           cpu # 0 => slot' = slot
    PROVE  SwitchInv'
<1>1. pc'[cpu'] = p /\ pc'[cpu] = p
  BY DEF TypeOK
<1>2. Coherent(cpu)' /\ current_task' = TurnOf(cpu)'
  BY <1>1 DEF SwitchInv, CpuInv, Coherent, TurnOf, Window, Chosen, Leaving
<1>3. MaskedInv'
  BY <1>1 DEF MaskedInv, Window, Chosen
<1>4. current_task' < task_count' /\ (pc[cpu] = "load" => p = "load")
  BY DEF SwitchInv, CpuInv, Window
<1> QED
  BY <1>1, <1>2, <1>3, <1>4, OwnStepInv

(* task_create.                                                            *)
LEMMA CreateSwitch ==
    ASSUME TypeOK, TypeOK', SwitchInv, Create
    PROVE  SwitchInv'
<1> USE SlotFacts
<1>0. /\ cpu = 0 /\ cpu' = 0 /\ 0 < task_count /\ task_count \in Int
      /\ current_task' = current_task /\ UNCHANGED <<next, prev>>
      /\ pc[0] \in {"create", "clear", "frame", "publish"}
  BY DEF Create, CreateScan, CreateClear, CreateFrame, CreatePublish,
         LaunchDone, At, tableVars, localVars, SwitchInv, CpuInv, Coherent, TypeOK
<1>1. CASE CreateScan
  <2>1. UNCHANGED <<esp, arg, cpu, current_task, task_count, tstate>>
    BY <1>1 DEF CreateScan, tableVars, localVars
  <2>2. PICK p \in {"clear", "create"} :
           /\ pc' = [pc EXCEPT ![0] = p]
           /\ p = "clear" => 0 < slot' /\ slot' <= task_count
    <3>1. CASE UNCHANGED <<slot, pc>>
      <4>1. pc' = [pc EXCEPT ![0] = "create"]
        BY <1>1, <3>1 DEF CreateScan, At, TypeOK
      <4> QED
        BY <4>1
    <3>2. CASE slot' = task_count /\ Goto(0, "clear")
      BY <1>0, <3>2 DEF Goto
    <3>3. CASE slot' \in DeadSlots /\ Goto(0, "clear")
      <4>1. 0 < slot' /\ slot' < task_count
        BY <3>3 DEF DeadSlots, SwitchInv, CreateInv
      <4> QED
        BY <3>3, <4>1, <1>0 DEF Goto, DeadSlots
    <3> QED
      BY <1>1, <3>1, <3>2, <3>3 DEF CreateScan
  <2>3. \A s \in Slots : tstate'[s] = "DEAD" => s < task_count
    BY <2>1 DEF SwitchInv, CreateInv
  <2> QED
    BY <1>0, <2>1, <2>2, <2>3, PlainStepInv DEF Window, Chosen
<1>2. CASE LaunchDone
  <2>1. /\ UNCHANGED <<esp, arg, cpu, current_task, task_count, tstate>>
        /\ pc' = [pc EXCEPT ![cpu] = "run"]
    BY <1>0, <1>2 DEF LaunchDone, tableVars, localVars, Goto
  <2>2. \A s \in Slots : tstate'[s] = "DEAD" => s < task_count
    BY <2>1 DEF SwitchInv, CreateInv
  <2> QED
    BY <1>0, <2>1, <2>2, PlainStepInv DEF Window, Chosen
\* The other three: what they do to the frames, then the rest.
<1>3. ASSUME FrameInv', pc'[0] \in {"frame", "publish", "create"},
             task_count <= task_count'
      PROVE  CpuInv' /\ MaskedInv'
  <2>1. current_task = 0 /\ 0 < task_count' /\ task_count' \in Int
    BY <1>0, <1>3 DEF SwitchInv, CpuInv, TurnOf, Window, TypeOK
  <2> QED
    BY <1>0, <1>3, <2>1
    DEF CpuInv, MaskedInv, Coherent, TurnOf, Window, Chosen, Leaving
<1>4. \A t, x \in Slots, k \in Resumable :
         esp[t] = Ctx(x, k) \/ arg[t] = Ctx(x, k) => Held(x, k)
  BY DEF Held
<1>5. \A x \in Slots, k \in Resumable : Held(x, k) => x # 0
  BY <1>0 DEF SwitchInv, FrameInv, Resumable
<1>6. CASE CreateClear
  <2>1. /\ pc' = [pc EXCEPT ![slot] = "none", ![0] = "frame"]
        /\ esp' = [Wiped(esp) EXCEPT ![slot] = Ctx(slot, "null")]
        /\ arg' = [Wiped(arg) EXCEPT ![slot] = Ctx(slot, "null")]
        /\ tstate' = [tstate EXCEPT ![slot] = "READY"]
        /\ task_count' = task_count /\ slot' = slot /\ slot \in Slots
        /\ 0 < slot /\ slot <= task_count
    BY <1>6 DEF CreateClear, createVars, At, SwitchInv, CreateInv, TypeOK
  <2>2. ASSUME NEW H \in [Slots -> Contexts], NEW t \in Slots, NEW x \in Slots,
               NEW k \in Resumable,
               [Wiped(H) EXCEPT ![slot] = Ctx(slot, "null")][t] = Ctx(x, k)
        PROVE  H[t] = Ctx(x, k) /\ x # slot
    <3>1. Wiped(H) = [s \in Slots |-> Wiped(H)[s]]
      BY DEF Wiped
    <3>2. t # slot
      BY <2>2, <3>1 DEF Ctx, Resumable
    <3>3. Wiped(H)[t] = Ctx(x, k)
      BY <2>2, <3>1, <3>2
    <3> QED
      BY <3>3 DEF Wiped, Ctx, Resumable, Contexts
  <2>3. \A t, x \in Slots, k \in Resumable :
           /\ esp'[t] = Ctx(x, k) => esp[t] = Ctx(x, k) /\ x # slot
           /\ arg'[t] = Ctx(x, k) => arg[t] = Ctx(x, k) /\ x # slot
    <3>1. esp \in [Slots -> Contexts] /\ arg \in [Slots -> Contexts]
      BY DEF TypeOK
    <3>2. ASSUME NEW t \in Slots, NEW x \in Slots, NEW k \in Resumable,
                 esp'[t] = Ctx(x, k)
          PROVE  esp[t] = Ctx(x, k) /\ x # slot
      BY <2>1, <2>2, <3>1, <3>2
    <3>3. ASSUME NEW t \in Slots, NEW x \in Slots, NEW k \in Resumable,
                 arg'[t] = Ctx(x, k)
          PROVE  arg[t] = Ctx(x, k) /\ x # slot
      BY <2>1, <2>2, <3>1, <3>3
    <3> QED
      BY <3>2, <3>3
  <2>4. /\ \A s \in Slots \ {0, slot} : pc'[s] = pc[s]
        /\ pc'[0] = "frame" /\ pc'[slot] = "none"
    BY <2>1 DEF TypeOK
  <2>5. \A x \in Slots, k \in Resumable : Held(x, k) /\ x # slot => Kept(x, k)
    BY <1>0, <1>5, <2>3, <2>4 DEF Kept, Same
  <2>6. FrameInv'
    <3>1. task_count' \in Int /\ task_count <= task_count'
      BY <1>0, <2>1
    <3>2. \A t, x \in Slots, k \in Resumable :
             /\ esp'[t] = Ctx(x, k) => esp[t] = Ctx(x, k) /\ Kept(x, k)
             /\ arg'[t] = Ctx(x, k) => Held(x, k) /\ Kept(x, k)
      BY <1>4, <2>3, <2>5
    <3> QED
      BY <3>1, <3>2, FramesKept DEF SwitchInv
  <2>7. CreateInv'
    <3>1. "entry" \in Resumable
      BY DEF Resumable
    <3>2. \A t \in Slots : esp'[t] # Ctx(slot, "entry") /\ arg'[t] # Ctx(slot, "entry")
      BY <2>1, <2>3, <3>1
    <3>3. ~ Held(slot, "entry")'
      BY <2>1, <3>2 DEF Held, Ctx
    <3>4. \A s \in Slots : tstate'[s] = "DEAD" => s < task_count'
      BY <2>1 DEF SwitchInv, CreateInv, TypeOK
    <3> QED
      BY <2>1, <2>4, <3>3, <3>4 DEF CreateInv
  <2> QED
    BY <1>0, <1>3, <2>1, <2>4, <2>6, <2>7 DEF SwitchInv
<1>7. CASE CreateFrame
  <2>1. /\ pc' = [pc EXCEPT ![0] = "publish"] /\ pc'[0] = "publish" /\ pc[0] = "frame"
        /\ esp' = [esp EXCEPT ![slot] = Ctx(slot, "entry")]
        /\ esp'[slot] = Ctx(slot, "entry")
        /\ arg' = arg /\ tstate' = tstate
        /\ task_count' = task_count /\ slot' = slot /\ slot \in Slots
        /\ 0 < slot /\ slot <= task_count /\ pc[slot] = "none"
    BY <1>7 DEF CreateFrame, localVars, createVars, At, Goto, SwitchInv,
                CreateInv, TypeOK
  <2>2. \A s \in Slots \ {0} : pc'[s] = pc[s] /\ Same(s)
    BY <1>0, <2>1 DEF TypeOK, Same
  <2>3. \A x \in Slots, k \in Resumable : Held(x, k) => Kept(x, k)
    BY <1>0, <1>5, <2>2 DEF Kept, SwitchInv, FrameInv
  <2>4. ASSUME NEW t \in Slots, NEW x \in Slots, NEW k \in Resumable,
               esp'[t] = Ctx(x, k)
        PROVE  (esp[t] = Ctx(x, k) /\ Kept(x, k)) \/ Fresh(t, x, k)
    <3>1. CASE t = slot
      <4>1. x = slot /\ k = "entry"
        BY <2>1, <2>4, <3>1 DEF Ctx
      <4> QED
        BY <2>1, <2>2, <3>1, <4>1 DEF Fresh
    <3>2. CASE t # slot
      <4>1. esp[t] = Ctx(x, k)
        BY <2>1, <2>4, <3>2 DEF TypeOK
      <4> QED
        BY <1>4, <2>3, <4>1
    <3> QED
      BY <3>1, <3>2
  <2>5. \A t, x \in Slots, k \in Resumable :
           arg'[t] = Ctx(x, k) => Held(x, k) /\ Kept(x, k)
    BY <1>4, <2>1, <2>3
  <2>6. FrameInv'
    <3>1. task_count' \in Int /\ task_count <= task_count'
      BY <1>0, <2>1
    <3> QED
      BY <2>4, <2>5, <3>1, FramesKept DEF SwitchInv
  <2>7. CreateInv'
    BY <2>1 DEF SwitchInv, CreateInv
  <2> QED
    BY <1>0, <1>3, <2>1, <2>6, <2>7 DEF SwitchInv
<1>8. CASE CreatePublish
  <2>1. /\ pc' = [pc EXCEPT ![0] = "create"] /\ pc'[0] = "create"
        /\ esp' = esp /\ arg' = arg /\ tstate' = tstate
        /\ task_count' \in Int /\ task_count <= task_count'
    <3>1. task_count' = IF slot >= task_count THEN slot + 1 ELSE task_count
      BY <1>8 DEF CreatePublish
    <3>2. slot \in Int
      BY DEF TypeOK
    <3> QED
      BY <1>0, <1>8, <3>1, <3>2 DEF CreatePublish, localVars, Goto, TypeOK
  <2>2. \A s \in Slots \ {0} : pc'[s] = pc[s] /\ Same(s)
    BY <1>0, <2>1 DEF TypeOK, Same
  <2>3. \A x \in Slots, k \in Resumable : Held(x, k) => Kept(x, k)
    BY <1>0, <1>5, <2>2 DEF Kept, SwitchInv, FrameInv
  <2>4. FrameInv'
    <3>1. \A t, x \in Slots, k \in Resumable :
             /\ esp'[t] = Ctx(x, k) => esp[t] = Ctx(x, k) /\ Kept(x, k)
             /\ arg'[t] = Ctx(x, k) => Held(x, k) /\ Kept(x, k)
      BY <1>4, <2>1, <2>3
    <3> QED
      BY <2>1, <3>1, FramesKept DEF SwitchInv
  <2>5. CreateInv'
    BY <1>0, <2>1 DEF SwitchInv, CreateInv
  <2> QED
    BY <1>3, <2>1, <2>4, <2>5 DEF SwitchInv
<1> QED
  BY <1>1, <1>2, <1>6, <1>7, <1>8 DEF Create

(* The task bodies.                                                        *)
LEMMA BodySwitch ==
    ASSUME TypeOK, SwitchInv, Start \/ Halt \/ Yield \/ Exit
    PROVE  SwitchInv'
<1> USE SlotFacts
<1>1. \A s \in Slots : tstate[s] = "DEAD" => s < task_count
  BY DEF SwitchInv, CreateInv
<1>2. CASE Start \/ Halt \/ Yield
  <2>1. /\ cpu \in Slots /\ pc[cpu] \in {"start", "run"}
        /\ UNCHANGED <<esp, arg, cpu, current_task, task_count, tstate, next, prev, slot>>
        /\ \E p \in {"run", "hlt", "pick"} :
              /\ pc' = [pc EXCEPT ![cpu] = p]
              /\ p = "pick" => cpu # 0
    BY <1>2, BehavioursAssumption
    DEF Start, Halt, Yield, At, Goto, tableVars, localVars, createVars
  <2>2. PICK p \in {"run", "hlt", "pick"} :
           /\ pc' = [pc EXCEPT ![cpu] = p]
           /\ p = "pick" => cpu # 0
    BY <2>1
  <2>3. \A s \in Slots : tstate'[s] = "DEAD" => s < task_count
    BY <1>1, <2>1
  <2> QED
    BY <2>1, <2>2, <2>3, PlainStepInv DEF Window, Chosen
<1>3. CASE Exit
  <2>1. /\ cpu \in Slots \ {0} /\ pc[cpu] = "run"
        /\ UNCHANGED <<esp, arg, cpu, current_task, task_count, next, prev, slot>>
        /\ pc' = [pc EXCEPT ![cpu] = "pick"]
        /\ tstate' = [tstate EXCEPT ![current_task] = "DEAD"]
    BY <1>3, BehavioursAssumption DEF Exit, At, Goto, createVars
  <2>2. \A s \in Slots : tstate'[s] = "DEAD" => s < task_count
    BY <1>1, <2>1 DEF TypeOK, SwitchInv, CpuInv
  <2> QED
    BY <2>1, <2>2, PlainStepInv DEF Window, Chosen
<1> QED
  BY <1>2, <1>3

(* task_yield, up to the call of context_switch: its own locals only.      *)
LEMMA DecideSwitch ==
    ASSUME TypeOK, TypeOK', SwitchInv, NEW s \in Slots,
              YieldPick(s) \/ YieldCompare(s) \/ YieldMark(s)
           \/ YieldSet(s) \/ YieldCurrent(s)
    PROVE  SwitchInv'
<1>1. /\ cpu = s /\ cpu' = s /\ UNCHANGED <<esp, arg, task_count, slot, iflag>>
      /\ pc[s] \in {"pick", "compare", "mark", "set", "current"}
      /\ s # 0 /\ TurnOf(s) \in Slots /\ current_task = TurnOf(s)
      /\ Coherent(s) /\ current_task < task_count
  BY DEF YieldPick, YieldCompare, YieldMark, YieldSet, YieldCurrent, At,
         tableVars, localVars, createVars, SwitchInv, CreateInv, CpuInv, TypeOK
<1>2. \A t \in Slots : tstate'[t] = "DEAD" => t < task_count
  <2>1. \A t \in Slots : tstate'[t] = "DEAD" => tstate[t] = "DEAD"
    BY DEF YieldPick, YieldCompare, YieldMark, YieldSet, YieldCurrent,
           MarkReady, tableVars, TypeOK
  <2> QED
    BY <2>1 DEF SwitchInv, CreateInv
<1>3. CASE YieldCompare(s) /\ next[s] = current_task
  <2>1. /\ pc' = [pc EXCEPT ![cpu] = ret[s]] /\ ret[s] \in {"run", "net"}
        /\ UNCHANGED <<esp, arg, cpu, current_task, task_count, next, prev, slot>>
    BY <1>1, <1>3 DEF YieldCompare, Goto, tableVars, createVars, TypeOK
  <2> QED
    BY <1>1, <1>2, <2>1, PlainStepInv DEF Window, Chosen
<1>4. CASE ~ (YieldCompare(s) /\ next[s] = current_task)
  <2>1. PICK p \in {"compare", "mark", "set", "current", "call"} :
           pc' = [pc EXCEPT ![cpu] = p]
    BY <1>1, <1>4 DEF YieldPick, YieldCompare, YieldMark, YieldSet,
                      YieldCurrent, Goto
  <2>2. pc'[s] = p
    BY <1>1, <2>1 DEF TypeOK
  <2>3. \A t \in Slots \ {cpu} : next'[t] = next[t] /\ prev'[t] = prev[t]
    BY <1>1 DEF YieldPick, YieldCompare, YieldMark, YieldSet, YieldCurrent,
                localVars, TypeOK
  <2>4. /\ Coherent(s)' /\ current_task' = TurnOf(s)'
        /\ current_task' < task_count' /\ MaskedInv'
    <3> USE <1>1 DEF Coherent, TurnOf, Window, Chosen, Leaving, MaskedInv
    <3>1. CASE YieldPick(s)
      <4>1. PICK n \in Slots : IsNext(n) /\ next' = [next EXCEPT ![s] = n]
        BY <3>1 DEF YieldPick
      <4>2. n < task_count
        BY <4>1, NextInTable
      <4> QED
        BY <3>1, <4>1, <4>2 DEF YieldPick, At, Goto, TypeOK, tableVars
    <3>2. CASE YieldCompare(s)
      BY <1>4, <3>2 DEF YieldCompare, At, Goto, TypeOK, tableVars
    <3>3. CASE YieldMark(s)
      BY <3>3 DEF YieldMark, At, Goto, TypeOK, localVars
    <3>4. CASE YieldSet(s)
      BY <3>4 DEF YieldSet, At, Goto, TypeOK, localVars
    <3>5. CASE YieldCurrent(s)
      BY <3>5 DEF YieldCurrent, At, Goto, TypeOK, localVars, SwitchInv
    <3> QED
      BY <3>1, <3>2, <3>3, <3>4, <3>5
  <2>5. Coherent(cpu)' /\ current_task' = TurnOf(cpu)'
    BY <1>1, <2>4 DEF Coherent, TurnOf
  <2> QED
    BY <1>1, <1>2, <2>1, <2>3, <2>4, <2>5, OwnStepInv
<1> QED
  BY <1>3, <1>4

LEMMA CallSwitch ==
    ASSUME TypeOK, TypeOK', SwitchInv, NEW s \in Slots, YieldCall(s)
    PROVE  SwitchInv'
<1>1. /\ cpu = s /\ cpu' = s /\ s # 0 /\ pc[s] = "call"
      /\ UNCHANGED <<esp, task_count, slot, iflag, current_task, tstate, next, prev>>
      /\ pc' = [pc EXCEPT ![s] = "save"] /\ pc'[s] = "save"
      /\ arg' = [arg EXCEPT ![s] = esp[next[s]]] /\ arg'[s] = esp[next[s]]
      /\ next[s] \in Slots /\ Coherent(s)
      /\ current_task = next[s] /\ current_task < task_count
  BY DEF YieldCall, At, Goto, tableVars, createVars, SwitchInv, CreateInv,
         CpuInv, TurnOf, Window, TypeOK
<1>2. \A t, x \in Slots, k \in Resumable :
         esp[t] = Ctx(x, k) \/ arg[t] = Ctx(x, k) => Held(x, k)
  BY DEF Held
\* No frame is left on the stack that is executing.
<1>3. \A x \in Slots, k \in Resumable : Held(x, k) => x # s
  BY <1>1 DEF SwitchInv, FrameInv, Resumable
<1>4. \A x \in Slots \ {s} : Same(x)
  BY <1>1 DEF Same, TypeOK
<1>5. \A x \in Slots, k \in Resumable : Held(x, k) => Kept(x, k)
  BY <1>1, <1>3, <1>4 DEF Kept, Same
<1>6. FrameInv'
  <2>1. \A t, x \in Slots, k \in Resumable :
           /\ esp'[t] = Ctx(x, k) => esp[t] = Ctx(x, k) /\ Kept(x, k)
           /\ arg'[t] = Ctx(x, k) => Held(x, k) /\ Kept(x, k)
    BY <1>1, <1>2, <1>5 DEF TypeOK
  <2>2. task_count' \in Int /\ task_count <= task_count'
    BY <1>1 DEF TypeOK
  <2> QED
    BY <2>1, <2>2, FramesKept DEF SwitchInv
<1>7. CpuInv'
  <2>1. \A y \in Slots :
           /\ esp[next[s]] = Ctx(y, "irq") => TurnOf(y)' = next[s]
           /\ esp[next[s]] = Ctx(y, "yield") \/ esp[next[s]] = Ctx(y, "entry")
                => y = next[s]
    <3> TAKE y \in Slots
    <3>1. ASSUME esp[next[s]] = Ctx(y, "irq") PROVE TurnOf(y)' = next[s]
      <4>1. Same(y) /\ TurnOf(y) = next[s]
        BY <1>1, <1>2, <1>3, <1>4, <3>1 DEF SwitchInv, FrameInv, Resumable
      <4> QED
        BY <4>1 DEF Same, TurnOf
    <3>2. esp[next[s]] = Ctx(y, "yield") \/ esp[next[s]] = Ctx(y, "entry")
             => y = next[s]
      BY <1>1 DEF SwitchInv, FrameInv
    <3> QED
      BY <3>1, <3>2
  <2>2. Coherent(s)'
    BY <1>1, <2>1 DEF Coherent, Chosen, Leaving, Window
  <2>3. current_task' = TurnOf(s)'
    BY <1>1 DEF TurnOf, Window
  <2> QED
    BY <1>1, <2>2, <2>3 DEF CpuInv, Coherent, TurnOf
<1>8. MaskedInv'
  BY <1>1 DEF SwitchInv, MaskedInv, Window
<1>9. CreateInv'
  <2>1. pc'[0] = pc[0]
    BY <1>1, SlotFacts DEF TypeOK
  <2>2. pc[0] = "frame" => pc'[slot] = "none" /\ ~ Held(slot, "entry")'
    <3> SUFFICES ASSUME pc[0] = "frame"
                 PROVE  pc'[slot] = "none" /\ ~ Held(slot, "entry")'
      OBVIOUS
    <3>1. slot \in Slots /\ pc[slot] = "none" /\ ~ Held(slot, "entry")
      BY DEF SwitchInv, CreateInv, TypeOK
    <3>2. \A t \in Slots : arg'[t] # Ctx(slot, "entry") /\ esp[t] # Ctx(slot, "entry")
      BY <1>1, <3>1 DEF Held, TypeOK
    <3> QED
      BY <1>1, <3>1, <3>2 DEF Held, Ctx, TypeOK
  <2> QED
    BY <1>1, <2>1, <2>2 DEF SwitchInv, CreateInv, Ctx
<1> QED
  BY <1>6, <1>7, <1>8, <1>9 DEF SwitchInv

LEMMA SaveSwitch ==
    ASSUME TypeOK, TypeOK', SwitchInv, NEW s \in Slots, YieldSave(s)
    PROVE  SwitchInv'
<1>1. /\ cpu = s /\ cpu' = s /\ s # 0 /\ pc[s] = "save" /\ Coherent(s)
      /\ UNCHANGED <<arg, task_count, slot, iflag, current_task, tstate, next, prev>>
      /\ pc' = [pc EXCEPT ![s] = "load"] /\ pc'[s] = "load"
      /\ prev[s] = s /\ next[s] # s /\ next[s] \in Slots /\ s < task_count
      /\ esp' = [esp EXCEPT ![s] = Ctx(s, "yield")] /\ esp'[s] = Ctx(s, "yield")
      /\ current_task = next[s] /\ current_task < task_count
  BY DEF YieldSave, At, Goto, localVars, createVars, SwitchInv, CreateInv,
         CpuInv, Coherent, Leaving, TurnOf, Window, TypeOK
<1>2. \A t, x \in Slots, k \in Resumable :
         esp[t] = Ctx(x, k) \/ arg[t] = Ctx(x, k) => Held(x, k)
  BY DEF Held
<1>3. \A x \in Slots, k \in Resumable : Held(x, k) => x # s
  BY <1>1 DEF SwitchInv, FrameInv, Resumable
<1>4. \A x \in Slots \ {s} : Same(x)
  BY <1>1 DEF Same, TypeOK
<1>5. \A x \in Slots, k \in Resumable : Held(x, k) => Kept(x, k)
  BY <1>1, <1>3, <1>4 DEF Kept, Same
<1>6. FrameInv'
  <2>1. ASSUME NEW t \in Slots, NEW x \in Slots, NEW k \in Resumable,
               esp'[t] = Ctx(x, k)
        PROVE  (esp[t] = Ctx(x, k) /\ Kept(x, k)) \/ Fresh(t, x, k)
    <3>1. CASE t = s
      <4>1. x = s /\ k = "yield"
        BY <1>1, <2>1, <3>1 DEF Ctx
      <4> QED
        BY <1>1, <3>1, <4>1 DEF Fresh
    <3>2. CASE t # s
      BY <1>1, <1>2, <1>5, <2>1, <3>2 DEF TypeOK
    <3> QED
      BY <3>1, <3>2
  <2>2. \A t, x \in Slots, k \in Resumable :
           arg'[t] = Ctx(x, k) => Held(x, k) /\ Kept(x, k)
    BY <1>1, <1>2, <1>5
  <2>3. task_count' \in Int /\ task_count <= task_count'
    BY <1>1 DEF TypeOK
  <2> QED
    BY <2>1, <2>2, <2>3, FramesKept DEF SwitchInv
<1>7. CpuInv'
  <2>1. \A y \in Slots : arg[s] = Ctx(y, "irq") => TurnOf(y)' = TurnOf(y)
    BY <1>2, <1>3, <1>4 DEF Same, TurnOf, Resumable
  <2>2. Coherent(s)'
    BY <1>1, <2>1 DEF Coherent, Chosen, Leaving, Window
  <2>3. current_task' = TurnOf(s)'
    BY <1>1 DEF TurnOf, Window
  <2> QED
    BY <1>1, <2>2, <2>3 DEF CpuInv, Coherent, TurnOf
<1>8. MaskedInv'
  BY <1>1 DEF SwitchInv, MaskedInv, Window, TypeOK
<1>9. CreateInv'
  <2>1. pc'[0] = pc[0]
    BY <1>1, SlotFacts DEF TypeOK
  <2>2. pc[0] = "frame" => pc'[slot] = "none" /\ ~ Held(slot, "entry")'
    <3> SUFFICES ASSUME pc[0] = "frame"
                 PROVE  pc'[slot] = "none" /\ ~ Held(slot, "entry")'
      OBVIOUS
    <3>1. slot \in Slots /\ pc[slot] = "none" /\ ~ Held(slot, "entry")
      BY DEF SwitchInv, CreateInv, TypeOK
    <3>2. \A t \in Slots : esp'[t] # Ctx(slot, "entry") /\ arg[t] # Ctx(slot, "entry")
      BY <1>1, <3>1 DEF Held, TypeOK, Ctx
    <3> QED
      BY <1>1, <3>1, <3>2 DEF Held, Ctx, TypeOK
  <2>3. slot = task_count => slot # s
    BY <1>1 DEF TypeOK
  <2> QED
    BY <1>1, <2>1, <2>2, <2>3 DEF SwitchInv, CreateInv, Ctx, TypeOK
<1> QED
  BY <1>6, <1>7, <1>8, <1>9 DEF SwitchInv

LEMMA LoadSwitch ==
    ASSUME TypeOK, SwitchInv, NEW s \in Slots, YieldLoad(s)
    PROVE  SwitchInv'
<1>1. /\ cpu = s /\ pc[s] = "load" /\ Coherent(s)
      /\ UNCHANGED <<tstate, task_count, slot, current_task>>
      /\ next' = [next EXCEPT ![s] = 0] /\ prev' = [prev EXCEPT ![s] = 0]
      /\ next[s] \in Slots /\ current_task' = next[s] /\ next[s] < task_count
  BY DEF YieldLoad, At, createVars, SwitchInv, CpuInv, TurnOf, Window, TypeOK
<1>2. PICK c \in Contexts, A \in [Slots -> Contexts], E \in [Slots -> Contexts] :
         /\ c = arg[s] /\ E = esp
         /\ A = [arg EXCEPT ![s] = Ctx(s, "null")]
  BY ContextFacts DEF TypeOK, Kinds
<1>3. Resume(c, E, A, iflag) /\ iflag \in BOOLEAN
  BY <1>2 DEF YieldLoad, TypeOK
<1>4. arg[s] = Ctx(c.stk, c.kind) /\ c.stk \in Slots
  BY <1>2, ContextFacts
<1>5. Belongs(c, next[s])
  BY <1>1, <1>4 DEF Belongs, Held, Coherent
<1>6. Pushed(E, A)
  BY <1>1, <1>2 DEF Pushed, TypeOK, Ctx, Resumable
<1>7. PICK turn \in Slots : turn = next[s]
  BY <1>1
<1>8. PICK flag \in BOOLEAN : flag = iflag
  BY <1>3
<1> QED
  BY <1>1, <1>3, <1>5, <1>6, <1>7, <1>8, ResumeSwitch DEF SwitchInv

(* The invariant of the switch is inductive. *)
LEMMA StepSwitch == TypeOK /\ SwitchInv /\ [Next]_vars => SwitchInv'
<1> SUFFICES ASSUME TypeOK, SwitchInv, [Next]_vars PROVE SwitchInv'
  OBVIOUS
<1>1. TypeOK'
  BY StepTypes
<1>2. CASE TimerIrq \/ DeviceIrq
  BY <1>2, WakeSwitch, PreemptSwitch DEF TimerIrq
<1>3. CASE Create
  BY <1>1, <1>3, CreateSwitch
<1>4. CASE Start \/ Halt \/ Yield \/ Exit
  BY <1>4, BodySwitch
<1>5. CASE YieldStep
  BY <1>1, <1>5, DecideSwitch, CallSwitch, SaveSwitch, LoadSwitch DEF YieldStep
<1>6. CASE UNCHANGED vars
  BY <1>6 DEF vars, SwitchInv, CpuInv, FrameInv, CreateInv, MaskedInv, Held,
              Coherent, TurnOf
<1> QED
  BY <1>2, <1>3, <1>4, <1>5, <1>6 DEF Next, CpuStep
----------------------------------------------------------------------------
(***************************************************************************)
(* Tasks that end.  Without tasks that yield, only a task that called      *)
(* task_exit is ever inside task_yield.  Suspended there before            *)
(* current_task = next, or in a yield frame of its own, it is doomed: the  *)
(* frame is named by its own DEAD slot alone, which nobody chooses.        *)
(***************************************************************************)
Ending == YieldSteps \ Window

Doomed(x, k) == k = "yield" \/ (k = "irq" /\ pc[x] \in Ending)

Continues(t) ==
    \A x \in Slots, k \in Resumable : esp[t] = Ctx(x, k) => ~ Doomed(x, k)

DeadInv ==
    /\ tstate[0] # "DEAD"
    /\ \A x \in Slots :
          /\ pc[x] # "net"
          /\ pc[x] \in YieldSteps /\ (x = cpu \/ Held(x, "irq") \/ Held(x, "yield"))
                => tstate[x] = "DEAD"
          /\ \A t \in Slots, k \in Resumable : arg[t] = Ctx(x, k) => ~ Doomed(x, k)
    /\ cpu \in Slots =>
          /\ pc[cpu] \in Ending \ {"pick"} => tstate[next[cpu]] # "DEAD"
          /\ pc[cpu] \in Window => Continues(next[cpu])

LEMMA InitDead == Init => DeadInv
<1> SUFFICES ASSUME Init PROVE DeadInv
  OBVIOUS
<1>1. \A x \in Slots : pc[x] \in {"create", "none"}
  BY DEF Init
<1>2. \A t, x \in Slots, k \in Resumable : arg[t] # Ctx(x, k)
  BY DEF Init, Resumable, Ctx
<1>3. tstate[0] # "DEAD" /\ cpu = 0
  BY SlotFacts DEF Init
<1> QED
  BY <1>1, <1>2, <1>3, SlotFacts DEF DeadInv, YieldSteps, Window, Ending

(* Slot 0, kernel_main, is always runnable, so a dead task is never chosen.*)
LEMMA NextIsAlive ==
    ASSUME TypeOK, current_task < task_count, tstate[0] # "DEAD",
           NEW n \in Slots, IsNext(n)
    PROVE  tstate[n] # "DEAD"
<1>1. /\ current_task \in Nat /\ task_count \in Nat \ {0}
  BY SlotFacts, SizesAssumption DEF TypeOK
<1>2. task_count - current_task \in 1 .. task_count
  BY <1>1
<1>3. Succ(task_count - current_task) = 0
  <2>1. current_task + (task_count - current_task) = task_count
    BY <1>1
  <2>2. task_count % task_count = 0
    BY <1>1
  <2> QED
    BY <2>1, <2>2 DEF Succ
<1>4. Runnable(0)
  BY SlotFacts DEF Runnable, TypeOK
<1>5. Runnable(n)
  BY <1>2, <1>3, <1>4 DEF IsNext
<1> QED
  BY <1>5 DEF Runnable

(* A frame that is doomed is named by the dead slot of its own stack.      *)
LEMMA DoomedIsDead ==
    ASSUME TypeOK, SwitchInv, DeadInv, NEW t \in Slots, tstate[t] # "DEAD"
    PROVE  Continues(t)
<1> SUFFICES ASSUME NEW x \in Slots, NEW k \in Resumable, esp[t] = Ctx(x, k),
                    Doomed(x, k)
             PROVE  FALSE
  BY DEF Continues
<1>1. Held(x, k)
  BY DEF Held
<1>2. CASE k = "yield"
  BY <1>1, <1>2 DEF SwitchInv, FrameInv, DeadInv, YieldSteps
<1>3. CASE k = "irq" /\ pc[x] \in Ending
  <2>1. x = t
    BY <1>3 DEF SwitchInv, FrameInv, TurnOf, Ending
  <2> QED
    BY <1>1, <1>3, <2>1 DEF DeadInv, Ending
<1> QED
  BY <1>2, <1>3 DEF Doomed

(* A step of the code on the CPU's stack that moves no frame.              *)
LEMMA OwnStepDead ==
    ASSUME TypeOK, SwitchInv, DeadInv, cpu \in Slots, cpu' = cpu,
           UNCHANGED <<esp, arg>>,
           NEW p, p # "net", pc' = [pc EXCEPT ![cpu] = p],
           pc[cpu] = "load" => p = "load",
           \A x \in Slots : tstate[x] = "DEAD" => tstate'[x] = "DEAD",
           tstate'[0] # "DEAD",
           p \in YieldSteps => tstate'[cpu] = "DEAD",
           p \in Ending \ {"pick"} => tstate'[next'[cpu]] # "DEAD",
           p \in Window => next'[cpu] \in Slots /\ Continues(next'[cpu])
    PROVE  DeadInv'
<1>1. /\ pc'[cpu] = p
      /\ \A x \in Slots \ {cpu} : pc'[x] = pc[x]
  BY DEF TypeOK
<1>2. \A x \in Slots, k \in Resumable : Held(x, k)' <=> Held(x, k)
  BY DEF Held
<1>3. \A x \in Slots, k \in Resumable : Held(x, k) /\ Doomed(x, k)' => Doomed(x, k)
  BY <1>1 DEF SwitchInv, FrameInv, Doomed
<1>4. \A t, x \in Slots, k \in Resumable :
         esp[t] = Ctx(x, k) \/ arg[t] = Ctx(x, k) => Held(x, k)
  BY DEF Held
<1>5. "irq" \in Resumable /\ "yield" \in Resumable
  BY DEF Resumable
<1>6. ASSUME NEW x \in Slots
      PROVE  /\ pc'[x] # "net"
             /\ pc'[x] \in YieldSteps
                   /\ (x = cpu' \/ Held(x, "irq")' \/ Held(x, "yield")')
                   => tstate'[x] = "DEAD"
             /\ \A t \in Slots, k \in Resumable :
                   arg'[t] = Ctx(x, k) => ~ Doomed(x, k)'
  <2>1. pc'[x] # "net"
    BY <1>1 DEF DeadInv
  <2>2. pc'[x] \in YieldSteps /\ (x = cpu' \/ Held(x, "irq")' \/ Held(x, "yield")')
           => tstate'[x] = "DEAD"
    BY <1>1, <1>2, <1>5 DEF DeadInv
  <2>3. \A t \in Slots, k \in Resumable :
           arg'[t] = Ctx(x, k) => ~ Doomed(x, k)'
    BY <1>3, <1>4 DEF DeadInv
  <2> QED
    BY <2>1, <2>2, <2>3
<1>7. ASSUME p \in Window PROVE Continues(next[cpu])'
  <2>1. \A x \in Slots, k \in Resumable :
           esp[next'[cpu]] = Ctx(x, k) => ~ Doomed(x, k)'
    BY <1>3, <1>4, <1>7 DEF Continues
  <2> QED
    BY <2>1 DEF Continues
<1> QED
  BY <1>1, <1>6, <1>7 DEF DeadInv

(* The CPU changes stacks: to a frame that is not doomed.                  *)
LEMMA ResumeDead ==
    ASSUME TypeOK, SwitchInv, DeadInv, cpu \in Slots,
           NEW c \in Contexts, NEW E \in [Slots -> Contexts],
           NEW A \in [Slots -> Contexts], NEW flag \in BOOLEAN,
           NEW turn \in Slots, Resume(c, E, A, flag),
           Belongs(c, turn), Pushed(E, A), E[turn] = esp[turn], Continues(turn),
           c.kind \in Resumable => ~ Doomed(c.stk, c.kind),
           \A x \in Slots : tstate'[x] = "DEAD" <=> tstate[x] = "DEAD"
    PROVE  DeadInv'
<1>0. PICK y \in Slots : y = c.stk
  BY ContextFacts
<1>1. c = Ctx(y, c.kind) /\ "irq" \in Resumable /\ "yield" \in Resumable
  BY <1>0, ContextFacts DEF Resumable
<1>2. /\ \A t, x \in Slots, k \in Resumable :
            /\ esp'[t] = Ctx(x, k) =>
                  E[t] = Ctx(x, k) /\ (x = cpu' => k = "yield" /\ c.kind = "irq")
            /\ arg'[t] = Ctx(x, k) =>
                  A[t] = Ctx(x, k) /\ (x = cpu' => k = "yield" /\ c.kind = "irq")
      /\ c.kind \notin Resumable => cpu' = Wild /\ pc' = pc
      /\ c.kind \in Resumable =>
            /\ cpu' = y
            /\ c.kind = "irq" =>
                  pc' = [pc EXCEPT ![y] = IF @ = "hlt" THEN "run" ELSE @]
            /\ c.kind = "yield" => pc' = [pc EXCEPT ![y] = ret[y]]
            /\ c.kind = "entry" => pc' = [pc EXCEPT ![y] = "start"]
  BY <1>0, ResumeFrames
<1>3. c.kind \in Resumable => c.kind \in {"irq", "entry"}
  BY <1>0 DEF Doomed, Resumable
<1>4. /\ \A x \in Slots \ {y} : pc'[x] = pc[x]
      /\ pc'[y] \in {pc[y], "run", "start"}
      /\ c.kind = "entry" => pc'[y] = "start"
  <2>1. CASE c.kind \notin Resumable
    BY <1>2, <2>1 DEF Resumable
  <2>2. CASE c.kind = "irq"
    BY <1>1, <1>2, <2>2 DEF TypeOK
  <2>3. CASE c.kind = "entry"
    BY <1>2, <2>3 DEF TypeOK, Resumable
  <2> QED
    BY <1>3, <2>1, <2>2, <2>3
<1>5. \A x \in Slots :
         /\ pc'[x] \in YieldSteps => pc[x] = pc'[x]
         /\ pc'[x] # "net"
  BY <1>4 DEF DeadInv, YieldSteps
<1>6. \A x \in Slots, k \in Resumable : Doomed(x, k)' => Doomed(x, k)
  BY <1>5 DEF Doomed, Ending
<1>7. \A t, x \in Slots, k \in Resumable :
         /\ esp'[t] = Ctx(x, k) => esp[t] = Ctx(x, k) \/ (k = "irq" /\ x = cpu)
         /\ arg'[t] = Ctx(x, k) => arg[t] = Ctx(x, k)
  BY <1>2 DEF Pushed
<1>8. ASSUME NEW x \in Slots, pc'[x] \in YieldSteps,
             x = cpu' \/ Held(x, "irq")' \/ Held(x, "yield")'
      PROVE  tstate'[x] = "DEAD"
  <2>1. ASSUME NEW k \in {"irq", "yield"}, Held(x, k)'
        PROVE  Held(x, k) \/ x = cpu
    <3>1. PICK t \in Slots : esp'[t] = Ctx(x, k) \/ arg'[t] = Ctx(x, k)
      BY <2>1 DEF Held, Ctx
    <3>2. k \in Resumable
      BY <1>1, <2>1
    <3> QED
      BY <1>7, <3>1, <3>2 DEF Held
  <2>2. x = cpu' => Held(x, "irq")
    <3> SUFFICES ASSUME x = cpu' PROVE Held(x, "irq")
      OBVIOUS
    <3>1. c.kind \in Resumable /\ x = y
      BY <1>2, SlotFacts
    <3>2. c.kind = "irq"
      BY <1>3, <1>4, <1>8, <3>1 DEF YieldSteps
    <3> QED
      BY <1>0, <3>1, <3>2 DEF Belongs
  <2>3. x = cpu \/ Held(x, "irq") \/ Held(x, "yield")
    BY <1>8, <2>1, <2>2
  <2>4. tstate[x] = "DEAD"
    BY <1>5, <1>8, <2>3 DEF DeadInv
  <2> QED
    BY <2>4
<1>9. \A t, x \in Slots, k \in Resumable : arg'[t] = Ctx(x, k) => ~ Doomed(x, k)'
  BY <1>6, <1>7 DEF DeadInv
<1>10. ASSUME cpu' \in Slots, pc'[cpu'] \in YieldSteps
       PROVE  /\ cpu' = y /\ c.kind = "irq" /\ pc[y] \in Window
              /\ next'[y] = turn /\ pc'[y] = pc[y]
  <2>1. cpu' = y /\ c.kind = "irq" /\ pc'[y] = pc[y]
    BY <1>2, <1>3, <1>4, <1>5, <1>10, SlotFacts DEF YieldSteps
  <2>2. pc[y] \in Window
    BY <1>0, <1>1, <1>10, <2>1 DEF Doomed, Ending
  <2>3. next[y] = turn
    BY <1>0, <2>1, <2>2 DEF Belongs, TurnOf
  <2>4. y # cpu
    BY <1>0, <1>1, <2>1 DEF Belongs, SwitchInv, FrameInv
  <2> QED
    BY <2>1, <2>2, <2>3, <2>4 DEF Pushed
<1>11. \A x \in Slots, k \in Resumable : esp'[turn] = Ctx(x, k) => ~ Doomed(x, k)'
  BY <1>2, <1>6 DEF Continues
<1>12. cpu' \in Slots /\ pc'[cpu'] \in Window => Continues(next[cpu])'
  BY <1>10, <1>11 DEF Continues, Window, YieldSteps
<1> QED
  BY <1>5, <1>8, <1>9, <1>10, <1>12, SlotFacts DEF DeadInv, Ending

(* No step but task_create's memset takes a slot out of DEAD.              *)
Revives == \E s \in Slots : /\ tstate[s] = "DEAD" /\ tstate'[s] # "DEAD"
                            /\ ~ (slot = s /\ pc[0] = "clear")

LEMMA PreemptDead ==
    ASSUME TypeOK, SwitchInv, DeadInv, Preempt
    PROVE  DeadInv' /\ ~ Revives
<1>1. PICK n \in Slots \ {current_task} :
         /\ IsNext(n)
         /\ tstate' = [MarkReady(tstate, current_task) EXCEPT ![n] = "RUNNING"]
         /\ Resume(esp[n], [esp EXCEPT ![current_task] = Ctx(cpu, "irq")],
                   arg, FALSE)
  BY DEF Preempt
<1>2. PICK c \in Contexts, E \in [Slots -> Contexts], A \in [Slots -> Contexts] :
         c = esp[n] /\ A = arg /\ E = [esp EXCEPT ![current_task] = Ctx(cpu, "irq")]
  BY ContextFacts DEF Preempt, TypeOK, Kinds
<1>3. /\ cpu \in Slots /\ current_task = TurnOf(cpu) /\ current_task < task_count
      /\ UNCHANGED <<next, prev>> /\ n # TurnOf(cpu)
  BY DEF Preempt, SwitchInv, CpuInv
<1>4. tstate[n] # "DEAD"
  BY <1>1, <1>3, NextIsAlive DEF DeadInv
<1>5. Resume(c, E, A, FALSE)
  BY <1>1, <1>2
<1>6. esp[n] = Ctx(c.stk, c.kind) /\ c.stk \in Slots /\ c.kind \in Kinds
  BY <1>2, ContextFacts DEF Contexts
<1>7. Belongs(c, n)
  BY <1>6 DEF Belongs, Held, SwitchInv, FrameInv
<1>8. Pushed(E, A)
  <2>1. \A s \in Slots : E[s] = IF s = current_task THEN Ctx(cpu, "irq") ELSE esp[s]
    BY <1>2 DEF TypeOK
  <2>2. \A x \in Slots, k \in Resumable : Ctx(cpu, "irq") = Ctx(x, k) => k = "irq" /\ x = cpu
    BY DEF Ctx
  <2> QED
    BY <1>2, <1>3, <2>1, <2>2 DEF Pushed
<1>9. \A s \in Slots : tstate'[s] = "DEAD" <=> tstate[s] = "DEAD"
  BY <1>1, <1>4 DEF MarkReady, TypeOK
<1>10. Continues(n)
  BY <1>4, DoomedIsDead
<1>11. c.kind \in Resumable => ~ Doomed(c.stk, c.kind)
  BY <1>6, <1>10 DEF Continues
<1>12. n \in Slots /\ cpu \in Slots /\ E[n] = esp[n]
  BY <1>3, <1>8 DEF Pushed
<1>13. DeadInv'
  BY <1>3, <1>5, <1>7, <1>8, <1>9, <1>10, <1>11, <1>12, ResumeDead
<1> QED
  BY <1>9, <1>13 DEF Revives

LEMMA LoadDead ==
    ASSUME TypeOK, SwitchInv, DeadInv, NEW s \in Slots, YieldLoad(s)
    PROVE  DeadInv' /\ ~ Revives
<1>1. /\ cpu = s /\ pc[s] = "load" /\ Coherent(s)
      /\ tstate' = tstate
      /\ next' = [next EXCEPT ![s] = 0] /\ prev' = [prev EXCEPT ![s] = 0]
      /\ next[s] \in Slots /\ next[s] = TurnOf(s) /\ next[s] # s
      /\ Continues(next[s])
  BY DEF YieldLoad, At, SwitchInv, CpuInv, TurnOf, Window, Leaving, Coherent,
         TypeOK, DeadInv
<1>2. PICK c \in Contexts, A \in [Slots -> Contexts], E \in [Slots -> Contexts] :
         /\ c = arg[s] /\ E = esp
         /\ A = [arg EXCEPT ![s] = Ctx(s, "null")]
  BY ContextFacts DEF TypeOK, Kinds
<1>3. Resume(c, E, A, iflag) /\ iflag \in BOOLEAN
  BY <1>2 DEF YieldLoad, TypeOK
<1>4. arg[s] = Ctx(c.stk, c.kind) /\ c.stk \in Slots
  BY <1>2, ContextFacts
<1>5. Belongs(c, next[s])
  BY <1>1, <1>4 DEF Belongs, Held, Coherent
<1>6. Pushed(E, A)
  BY <1>1, <1>2 DEF Pushed, TypeOK, Ctx, Resumable
<1>7. PICK turn \in Slots : turn = next[s]
  BY <1>1
<1>8. PICK flag \in BOOLEAN : flag = iflag
  BY <1>3
<1>9. (c.kind \in Resumable => ~ Doomed(c.stk, c.kind)) /\ E[turn] = esp[turn]
  BY <1>2, <1>4 DEF DeadInv
<1> QED
  BY <1>1, <1>3, <1>5, <1>6, <1>7, <1>8, <1>9, ResumeDead DEF Revives

LEMMA CreateDead ==
    ASSUME TypeOK, SwitchInv, DeadInv, Create
    PROVE  DeadInv' /\ ~ Revives
<1> USE SlotFacts
<1>0. /\ cpu = 0 /\ cpu' = 0 /\ UNCHANGED <<next, prev>>
      /\ pc[0] \in {"create", "clear", "frame", "publish"}
  BY DEF Create, CreateScan, CreateClear, CreateFrame, CreatePublish,
         LaunchDone, At, tableVars, localVars
<1>1. CASE CreateScan \/ CreatePublish \/ LaunchDone
  <2>1. /\ UNCHANGED <<esp, arg, tstate>>
        /\ \E p \in {"create", "clear", "run"} : pc' = [pc EXCEPT ![0] = p]
    BY <1>0, <1>1 DEF CreateScan, CreatePublish, LaunchDone, tableVars,
                      localVars, Goto, At, TypeOK
  <2>2. PICK p \in {"create", "clear", "run"} : pc' = [pc EXCEPT ![0] = p]
    BY <2>1
  <2>3. p \notin YieldSteps /\ p # "net" /\ tstate[0] # "DEAD"
    BY DEF YieldSteps, DeadInv
  <2>4. DeadInv'
    BY <1>0, <2>1, <2>2, <2>3, OwnStepDead DEF Ending, Window, YieldSteps
  <2> QED
    BY <2>1, <2>4 DEF Revives
<1>2. CASE CreateClear
  <2>1. /\ pc' = [pc EXCEPT ![slot] = "none", ![0] = "frame"]
        /\ esp' = [Wiped(esp) EXCEPT ![slot] = Ctx(slot, "null")]
        /\ arg' = [Wiped(arg) EXCEPT ![slot] = Ctx(slot, "null")]
        /\ tstate' = [tstate EXCEPT ![slot] = "READY"]
        /\ slot \in Slots /\ slot # 0 /\ pc[0] = "clear"
    BY <1>2 DEF CreateClear, At, SwitchInv, CreateInv, TypeOK
  <2>2. ASSUME NEW H \in [Slots -> Contexts], NEW t \in Slots, NEW x \in Slots,
               NEW k \in Resumable,
               [Wiped(H) EXCEPT ![slot] = Ctx(slot, "null")][t] = Ctx(x, k)
        PROVE  H[t] = Ctx(x, k) /\ x # slot
    <3>1. Wiped(H) = [s \in Slots |-> Wiped(H)[s]]
      BY DEF Wiped
    <3>2. t # slot
      BY <2>2, <3>1 DEF Ctx, Resumable
    <3>3. Wiped(H)[t] = Ctx(x, k)
      BY <2>2, <3>1, <3>2
    <3> QED
      BY <3>3 DEF Wiped, Ctx, Resumable, Contexts
  <2>3. esp \in [Slots -> Contexts] /\ arg \in [Slots -> Contexts]
    BY DEF TypeOK
  <2>4. ASSUME NEW t \in Slots, NEW x \in Slots, NEW k \in Resumable,
               esp'[t] = Ctx(x, k) \/ arg'[t] = Ctx(x, k)
        PROVE  /\ Held(x, k) /\ x # slot
               /\ arg'[t] = Ctx(x, k) => arg[t] = Ctx(x, k)
    <3>1. esp'[t] = Ctx(x, k) => esp[t] = Ctx(x, k) /\ x # slot
      BY <2>1, <2>2, <2>3
    <3>2. arg'[t] = Ctx(x, k) => arg[t] = Ctx(x, k) /\ x # slot
      BY <2>1, <2>2, <2>3
    <3> QED
      BY <2>4, <3>1, <3>2 DEF Held
  <2>5. \A x \in Slots :
           /\ x # slot => tstate'[x] = tstate[x]
           /\ pc'[x] \in YieldSteps => pc[x] = pc'[x] /\ x # slot /\ x # 0
           /\ pc'[x] # "net"
    BY <2>1 DEF TypeOK, DeadInv, YieldSteps
  <2>6. \A x \in Slots, k \in Resumable : Doomed(x, k)' => Doomed(x, k)
    BY <2>5 DEF Doomed, Ending
  <2>7. ASSUME NEW x \in Slots, pc'[x] \in YieldSteps,
               x = cpu' \/ Held(x, "irq")' \/ Held(x, "yield")'
        PROVE  tstate'[x] = "DEAD"
    <3>1. PICK k \in {"irq", "yield"} : Held(x, k)'
      BY <1>0, <2>5, <2>7
    <3>2. k \in Resumable
      BY DEF Resumable
    <3>3. \E t \in Slots : esp'[t] = Ctx(x, k) \/ arg'[t] = Ctx(x, k)
      BY <3>1 DEF Held, Ctx
    <3>4. Held(x, k)
      BY <2>4, <3>2, <3>3
    <3>5. tstate[x] = "DEAD"
      BY <2>5, <2>7, <3>4 DEF DeadInv
    <3> QED
      BY <2>5, <2>7, <3>5
  <2>8. \A t, x \in Slots, k \in Resumable : arg'[t] = Ctx(x, k) => ~ Doomed(x, k)'
    BY <2>4, <2>6 DEF DeadInv
  <2>9. tstate'[0] # "DEAD" /\ pc'[0] \notin YieldSteps
    BY <2>1, <2>5 DEF DeadInv
  <2>10. DeadInv'
    BY <1>0, <2>5, <2>7, <2>8, <2>9 DEF DeadInv, Ending, Window, YieldSteps
  <2> QED
    BY <2>1, <2>5, <2>10 DEF Revives
<1>3. CASE CreateFrame
  <2>1. /\ pc' = [pc EXCEPT ![0] = "publish"]
        /\ esp' = [esp EXCEPT ![slot] = Ctx(slot, "entry")]
        /\ arg' = arg /\ tstate' = tstate
    BY <1>3 DEF CreateFrame, localVars, Goto
  <2>2. \A x \in Slots, k \in {"irq", "yield"} : Held(x, k)' => Held(x, k)
    <3> SUFFICES ASSUME NEW x \in Slots, NEW k \in {"irq", "yield"}, Held(x, k)'
                 PROVE  Held(x, k)
      OBVIOUS
    <3>1. PICK t \in Slots : esp'[t] = Ctx(x, k) \/ arg'[t] = Ctx(x, k)
      BY DEF Held, Ctx
    <3>2. Ctx(slot, "entry") # Ctx(x, k)
      BY DEF Ctx
    <3> QED
      BY <2>1, <3>1, <3>2 DEF Held, TypeOK
  <2>3. \A x \in Slots :
           /\ pc'[x] \in YieldSteps => pc[x] = pc'[x] /\ x # 0
           /\ pc'[x] # "net"
    BY <2>1 DEF TypeOK, DeadInv, YieldSteps
  <2>4. \A x \in Slots, k \in Resumable : Doomed(x, k)' => Doomed(x, k)
    BY <2>3 DEF Doomed, Ending
  <2>5. \A x \in Slots : /\ pc'[x] \in YieldSteps
                         /\ x = cpu' \/ Held(x, "irq")' \/ Held(x, "yield")'
                         => tstate'[x] = "DEAD"
    BY <1>0, <2>1, <2>2, <2>3 DEF DeadInv
  <2>6. \A t, x \in Slots, k \in Resumable : arg'[t] = Ctx(x, k) => ~ Doomed(x, k)'
    BY <2>1, <2>4 DEF DeadInv
  <2>7. pc'[0] \notin YieldSteps
    BY <2>3
  <2>8. DeadInv'
    BY <1>0, <2>1, <2>3, <2>5, <2>6, <2>7 DEF DeadInv, Ending, Window, YieldSteps
  <2> QED
    BY <2>1, <2>8 DEF Revives
<1> QED
  BY <1>1, <1>2, <1>3 DEF Create

LEMMA OwnDead ==
    ASSUME Yielders = {}, TypeOK, SwitchInv, DeadInv,
           \/ Tick \/ KeepRunning \/ DeviceIrq \/ Start \/ Halt \/ Yield \/ Exit
           \/ \E s \in Slots : \/ YieldPick(s) \/ YieldCompare(s) \/ YieldMark(s)
                               \/ YieldSet(s) \/ YieldCurrent(s)
    PROVE  DeadInv' /\ ~ Revives
<1> USE SlotFacts
<1>1. CASE Tick \/ KeepRunning \/ DeviceIrq
  <2> DEFINE p == IF pc[cpu] = "hlt" THEN "run" ELSE pc[cpu]
  <2>1. /\ cpu \in Slots /\ cpu' = cpu /\ pc' = [pc EXCEPT ![cpu] = p]
        /\ UNCHANGED <<tstate, esp, arg, next, prev>>
    BY <1>1 DEF Tick, KeepRunning, DeviceIrq, Wake, tableVars, localVars
  <2>2. /\ p # "net" /\ (pc[cpu] = "load" => p = "load")
        /\ p \in YieldSteps => p = pc[cpu]
        /\ next[cpu] \in Slots
    BY <2>1 DEF DeadInv, YieldSteps, TypeOK
  <2> HIDE DEF p
  <2>3. /\ p \in YieldSteps => tstate[cpu] = "DEAD"
        /\ p \in Ending \ {"pick"} => tstate[next[cpu]] # "DEAD"
        /\ p \in Window => Continues(next[cpu])
    BY <2>1, <2>2 DEF DeadInv, Ending, Window, YieldSteps
  <2>4. DeadInv'
    BY <2>1, <2>2, <2>3, OwnStepDead DEF DeadInv
  <2> QED
    BY <2>1, <2>4 DEF Revives
<1>2. CASE Start \/ Halt
  <2>1. /\ cpu \in Slots /\ cpu' = cpu /\ pc[cpu] \in {"start", "run"}
        /\ UNCHANGED <<tstate, esp, arg, next, prev>>
        /\ \E p \in {"run", "hlt"} : pc' = [pc EXCEPT ![cpu] = p]
    BY <1>2, BehavioursAssumption DEF Start, Halt, At, Goto, tableVars, localVars
  <2>2. PICK p \in {"run", "hlt"} : pc' = [pc EXCEPT ![cpu] = p]
    BY <2>1
  <2>3. p \notin YieldSteps /\ p # "net" /\ tstate[0] # "DEAD"
    BY DEF YieldSteps, DeadInv
  <2>4. DeadInv'
    BY <2>1, <2>2, <2>3, OwnStepDead DEF Ending, Window, YieldSteps
  <2> QED
    BY <2>1, <2>4 DEF Revives
<1>3. CASE Yield
  BY <1>3 DEF Yield
<1>4. CASE Exit
  <2>1. /\ cpu \in Slots \ {0} /\ cpu' = cpu /\ pc[cpu] = "run"
        /\ UNCHANGED <<esp, arg, next, prev>> /\ pc' = [pc EXCEPT ![cpu] = "pick"]
        /\ tstate' = [tstate EXCEPT ![current_task] = "DEAD"]
    BY <1>4, BehavioursAssumption DEF Exit, At, Goto
  <2>2. current_task = cpu
    BY <2>1 DEF SwitchInv, CpuInv, TurnOf, Window
  <2>3. /\ \A x \in Slots : tstate[x] = "DEAD" => tstate'[x] = "DEAD"
        /\ tstate'[0] # "DEAD" /\ tstate'[cpu] = "DEAD"
    BY <2>1, <2>2 DEF TypeOK, DeadInv
  <2>4. DeadInv'
    BY <2>1, <2>3, OwnStepDead DEF Ending, Window
  <2> QED
    BY <2>3, <2>4 DEF Revives
<1>5. ASSUME NEW s \in Slots,
             \/ YieldPick(s) \/ YieldCompare(s) \/ YieldMark(s)
             \/ YieldSet(s) \/ YieldCurrent(s)
      PROVE  DeadInv' /\ ~ Revives
  <2>1. /\ cpu = s /\ cpu' = s /\ UNCHANGED <<esp, arg>>
        /\ pc[s] \in {"pick", "compare", "mark", "set", "current"}
        /\ tstate[s] = "DEAD" /\ tstate[0] # "DEAD"
        /\ current_task = s /\ s < task_count
        /\ Coherent(s)
    BY <1>5 DEF YieldPick, YieldCompare, YieldMark, YieldSet, YieldCurrent, At,
       tableVars, localVars, SwitchInv, CpuInv, TurnOf, Window, DeadInv, YieldSteps
  <2>2. PICK p \in {"compare", "mark", "set", "current", "call"} :
           /\ pc' = [pc EXCEPT ![s] = p]
           /\ \A x \in Slots : tstate'[x] = "DEAD" <=> tstate[x] = "DEAD"
           /\ next'[s] \in Slots /\ tstate[next'[s]] # "DEAD"
    <3>1. CASE YieldPick(s)
      <4>1. PICK n \in Slots : IsNext(n) /\ next' = [next EXCEPT ![s] = n]
        BY <3>1 DEF YieldPick
      <4>2. tstate[n] # "DEAD"
        BY <2>1, <4>1, NextIsAlive
      <4> QED
        BY <3>1, <4>1, <4>2 DEF YieldPick, Goto, tableVars, TypeOK
    <3>2. CASE ~ YieldPick(s)
      <4>1. next[s] \in Slots /\ next' = next /\ tstate[next[s]] # "DEAD"
        BY <1>5, <2>1, <3>2
        DEF YieldCompare, YieldMark, YieldSet, YieldCurrent, At, localVars,
            DeadInv, Ending, YieldSteps, Window, TypeOK
      <4>2. CASE YieldCompare(s)
        BY <2>1, <4>1, <4>2 DEF YieldCompare, Goto, tableVars
      <4>3. CASE YieldMark(s)
        <5>1. pc[s] \in Leaving
          BY <4>3 DEF YieldMark, At, Leaving
        <5>2. prev[s] = s
          BY <2>1, <5>1 DEF Coherent
        <5>3. tstate' = tstate
          BY <2>1, <4>3, <5>2 DEF YieldMark, MarkReady
        <5> QED
          BY <4>1, <4>3, <5>3 DEF YieldMark, Goto
      <4>4. CASE YieldSet(s)
        BY <2>1, <4>1, <4>4 DEF YieldSet, Goto, TypeOK
      <4>5. CASE YieldCurrent(s)
        BY <4>1, <4>5 DEF YieldCurrent, Goto
      <4> QED
        BY <1>5, <3>2, <4>2, <4>3, <4>4, <4>5
    <3> QED
      BY <3>1, <3>2
  <2>3. Continues(next'[s])
    BY <2>2, DoomedIsDead
  <2>4. p # "net" /\ pc[s] # "load"
    BY <2>1
  <2>5. /\ \A x \in Slots : tstate[x] = "DEAD" => tstate'[x] = "DEAD"
        /\ tstate'[0] # "DEAD" /\ tstate'[s] = "DEAD" /\ tstate'[next'[s]] # "DEAD"
    BY <2>1, <2>2
  <2>6. DeadInv'
    BY <2>1, <2>2, <2>3, <2>4, <2>5, OwnStepDead
  <2> QED
    BY <2>2, <2>6 DEF Revives
<1> QED
  BY <1>1, <1>2, <1>3, <1>4, <1>5

LEMMA CallDead ==
    ASSUME TypeOK, SwitchInv, DeadInv, NEW s \in Slots, YieldCall(s) \/ YieldSave(s)
    PROVE  DeadInv' /\ ~ Revives
<1>1. /\ cpu = s /\ cpu' = s /\ UNCHANGED <<tstate, next, prev>>
      /\ pc[s] \in {"call", "save"} /\ pc'[s] \in {"save", "load"}
      /\ \A x \in Slots \ {s} : pc'[x] = pc[x]
      /\ next[s] \in Slots /\ next[s] # s /\ prev[s] = s /\ tstate[s] = "DEAD"
      /\ Continues(next[s])
  BY DEF YieldCall, YieldSave, At, Goto, localVars, tableVars, SwitchInv, CpuInv,
         Coherent, Leaving, Window, DeadInv, TypeOK, YieldSteps
<1>2. \A x \in Slots, k \in Resumable : Doomed(x, k)' => Doomed(x, k)
  BY <1>1 DEF Doomed, Ending, Window, YieldSteps
<1>3. \A t, x \in Slots, k \in Resumable : arg'[t] = Ctx(x, k) => ~ Doomed(x, k)
  BY <1>1 DEF YieldCall, YieldSave, localVars, Continues, DeadInv, TypeOK
<1>4. \A t, x \in Slots, k \in Resumable :
         /\ esp'[t] = Ctx(x, k) => esp[t] = Ctx(x, k) \/ x = s
         /\ arg'[t] = Ctx(x, k) => Held(x, k)
  BY <1>1 DEF YieldCall, YieldSave, localVars, tableVars, Held, TypeOK, Ctx
<1>5. ASSUME NEW x \in Slots, NEW k \in {"irq", "yield"}, Held(x, k)'
      PROVE  Held(x, k) \/ x = s
  <2>1. PICK t \in Slots : esp'[t] = Ctx(x, k) \/ arg'[t] = Ctx(x, k)
    BY <1>5 DEF Held, Ctx
  <2>2. k \in Resumable
    BY DEF Resumable
  <2> QED
    BY <1>4, <2>1, <2>2 DEF Held
<1>6. \A x \in Slots : /\ pc'[x] \in YieldSteps
                       /\ x = cpu' \/ Held(x, "irq")' \/ Held(x, "yield")'
                       => tstate'[x] = "DEAD"
  BY <1>1, <1>5 DEF DeadInv
<1>7. esp'[next[s]] = esp[next[s]]
  BY <1>1 DEF YieldCall, YieldSave, tableVars, TypeOK
<1>8. \A x \in Slots, k \in Resumable :
         esp'[next'[s]] = Ctx(x, k) => ~ Doomed(x, k)'
  BY <1>1, <1>2, <1>7 DEF Continues
<1>9. Continues(next[cpu])'
  BY <1>1, <1>8 DEF Continues
<1>10. \A x \in Slots : pc'[x] # "net"
  BY <1>1 DEF DeadInv
<1>11. \A t, x \in Slots, k \in Resumable : arg'[t] = Ctx(x, k) => ~ Doomed(x, k)'
  BY <1>2, <1>3
<1>12. tstate'[0] # "DEAD" /\ pc'[cpu'] \notin Ending
  BY <1>1 DEF DeadInv, Ending, Window
<1>13. DeadInv'
  BY <1>6, <1>9, <1>10, <1>11, <1>12 DEF DeadInv
<1> QED
  BY <1>1, <1>13 DEF Revives

(* The invariant of the dead is inductive where no task yields. *)
LEMMA StepDead ==
    ASSUME Yielders = {}, TypeOK, SwitchInv, DeadInv, [Next]_vars
    PROVE  DeadInv' /\ ~ Revives
<1>1. CASE Preempt
  BY <1>1, PreemptDead
<1>2. CASE Create
  BY <1>2, CreateDead
<1>3. CASE \E s \in Slots : YieldCall(s) \/ YieldSave(s)
  BY <1>3, CallDead
<1>4. CASE \E s \in Slots : YieldLoad(s)
  BY <1>4, LoadDead
<1>5. CASE UNCHANGED vars
  BY <1>5 DEF vars, DeadInv, Held, Continues, Doomed, Revives
<1> QED
  BY <1>1, <1>2, <1>3, <1>4, <1>5, OwnDead
  DEF Next, TimerIrq, CpuStep, YieldStep

(***************************************************************************)
(* Where no entry point returns, no slot is ever DEAD.                     *)
(***************************************************************************)
NobodyDead == \A s \in Slots : tstate[s] # "DEAD"

(* Where no task returns from its body, no slot is ever DEAD. *)
LEMMA StepNobodyDead ==
    ASSUME Exiters = {}, TypeOK, NobodyDead, [Next]_vars
    PROVE  NobodyDead'
<1> USE DEF NobodyDead
<1>1. CASE TimerIrq \/ DeviceIrq
  BY <1>1 DEF TimerIrq, Tick, KeepRunning, Preempt, DeviceIrq, MarkReady,
              tableVars, TypeOK
<1>2. CASE Create
  BY <1>2 DEF Create, CreateScan, CreateClear, CreateFrame, CreatePublish,
              LaunchDone, tableVars, TypeOK
<1>3. CASE Start \/ Halt \/ Yield \/ Exit
  BY <1>3 DEF Start, Halt, Yield, Exit, tableVars
<1>4. CASE YieldStep
  BY <1>4 DEF YieldStep, YieldPick, YieldCompare, YieldMark, YieldSet,
              YieldCurrent, YieldCall, YieldSave, YieldLoad, MarkReady,
              tableVars, TypeOK
<1>5. CASE UNCHANGED vars
  BY <1>5 DEF vars
<1> QED
  BY <1>1, <1>2, <1>3, <1>4, <1>5 DEF Next, CpuStep

----------------------------------------------------------------------------
(***************************************************************************)
(* Outside the window of a switch and the reuse of a slot, no step damages *)
(* an intact context.  The one thing to know of the step besides SwitchInv *)
(* is that it is not task_yield setting a DEAD task RUNNING: that one may  *)
(* have lost its frame, and counts as suspended again.                     *)
(***************************************************************************)
RunsTheDead == \E s \in Slots : YieldSet(s) /\ tstate[next[s]] = "DEAD"

(* ContextsIntact, slot by slot. *)
LEMMA IntactUnfolds ==
    ASSUME TypeOK
    PROVE  ContextsIntact <=>
             \A s \in Slots : s < task_count /\ s # cpu /\ tstate[s] # "DEAD" =>
                \E k \in Resumable : esp[s] = Ctx(s, k)
<1>1. \A s : s \in 0 .. task_count - 1 <=> s \in Slots /\ s < task_count
  <2>1. task_count \in Int /\ MaxTasks \in Int /\ task_count <= MaxTasks
    BY SizesAssumption DEF TypeOK
  <2> QED
    BY <2>1 DEF Slots
<1>2. \A s \in Slots : esp[s].stk = s /\ esp[s].kind \in Resumable <=>
                          \E k \in Resumable : esp[s] = Ctx(s, k)
  <2> SUFFICES ASSUME NEW s \in Slots
               PROVE  esp[s].stk = s /\ esp[s].kind \in Resumable <=>
                          \E k \in Resumable : esp[s] = Ctx(s, k)
    OBVIOUS
  <2>1. esp[s] = Ctx(esp[s].stk, esp[s].kind)
    BY ContextFacts DEF TypeOK
  <2>2. \A k \in Resumable : Ctx(s, k).stk = s /\ Ctx(s, k).kind = k
    BY DEF Ctx
  <2> QED
    BY <2>1, <2>2
<1> QED
  BY <1>1, <1>2 DEF ContextsIntact

(* What is intact stays so while the CPU goes from one slot's own stack to *)
(* another's, which it left or was given an intact frame on.               *)
LEMMA ResumeIntact ==
    ASSUME TypeOK, TypeOK', ContextsIntact, cpu \in Slots,
           NEW n \in Slots, n < task_count, n # cpu, NEW kc \in Resumable,
           NEW E \in [Slots -> Contexts], NEW A \in [Slots -> Contexts],
           NEW flag \in BOOLEAN, Resume(Ctx(n, kc), E, A, flag),
           task_count' = task_count,
           \A s \in Slots \ {cpu} : E[s] = esp[s],
           \E k \in Resumable : E[cpu] = Ctx(cpu, k),
           \A s \in Slots : tstate'[s] # "DEAD" => tstate[s] # "DEAD"
    PROVE  ContextsIntact'
<1>1. kc \in Kinds
  BY DEF Resumable, Kinds
<1>2. PICK c \in Contexts : c = Ctx(n, kc) /\ c.stk = n /\ c.kind = kc
  BY <1>1, ContextFacts
<1>3. /\ cpu' = n
      /\ \A t, x \in Slots, k \in Resumable : E[t] = Ctx(x, k) /\ x # n => esp'[t] = E[t]
  BY <1>2, ResumeFrames
<1>4. ASSUME NEW s \in Slots, s < task_count, s # n, tstate'[s] # "DEAD"
      PROVE  \E k \in Resumable : esp'[s] = Ctx(s, k)
  <2>1. PICK k \in Resumable : E[s] = Ctx(s, k)
    BY <1>4, IntactUnfolds
  <2> QED
    BY <1>3, <1>4, <2>1
<1>5. (\A s \in Slots : s < task_count /\ s # cpu /\ tstate[s] # "DEAD" =>
          \E k \in Resumable : esp[s] = Ctx(s, k))'
  BY <1>3, <1>4 DEF Ctx
<1> QED
  BY <1>5, IntactUnfolds, PTL

(* Outside the window and the reuse of a slot, no step loses a context. *)
LEMMA StepIntact ==
    ASSUME TypeOK, SwitchInv, ~ RunsTheDead, ContextsIntact,
           ~ (InSwitchWindow \/ Reclaiming), [Next]_vars
    PROVE  ContextsIntact'
<1> USE SlotFacts
<1>1. TypeOK'
  BY StepTypes
<1>2. ASSUME UNCHANGED <<esp, cpu, task_count>>,
             \A s \in Slots \ {cpu} : tstate'[s] # "DEAD" => tstate[s] # "DEAD"
      PROVE  ContextsIntact'
  <2>1. \A s \in 0 .. task_count - 1 : s \in Slots
    BY SizesAssumption DEF TypeOK, Slots
  <2> QED
    BY <1>2, <2>1 DEF ContextsIntact
<1>3. CASE Preempt
  <2>1. PICK n \in Slots \ {current_task} :
           /\ IsNext(n)
           /\ tstate' = [MarkReady(tstate, current_task) EXCEPT ![n] = "RUNNING"]
           /\ Resume(esp[n], [esp EXCEPT ![current_task] = Ctx(cpu, "irq")],
                     arg, FALSE)
    BY <1>3 DEF Preempt
  <2>2. /\ cpu \in Slots /\ current_task = cpu /\ task_count' = task_count
        /\ n # cpu
    BY <1>3, <2>1 DEF Preempt, InSwitchWindow, SwitchInv, CpuInv, TurnOf, Window
  <2>3. n < task_count /\ tstate[n] # "DEAD"
    BY <2>1, NextInTable DEF SwitchInv, CpuInv, IsNext, Runnable
  <2>4. \A s \in Slots : tstate'[s] # "DEAD" => tstate[s] # "DEAD"
    BY <2>1, <2>3 DEF MarkReady, TypeOK
  <2>5. PICK kc \in Resumable : esp[n] = Ctx(n, kc)
    BY <2>2, <2>3, IntactUnfolds
  <2>6. PICK E \in [Slots -> Contexts], A \in [Slots -> Contexts] :
           A = arg /\ E = [esp EXCEPT ![cpu] = Ctx(cpu, "irq")]
    BY <2>2, ContextFacts DEF TypeOK, Kinds
  <2>7. /\ Resume(Ctx(n, kc), E, A, FALSE)
        /\ \A s \in Slots \ {cpu} : E[s] = esp[s]
        /\ \E k \in Resumable : E[cpu] = Ctx(cpu, k)
    BY <2>1, <2>2, <2>5, <2>6 DEF TypeOK, Resumable
  <2>8. n \in Slots
    BY <2>1
  <2> QED
    BY <1>1, <2>2, <2>3, <2>4, <2>7, <2>8, ResumeIntact
<1>4. CASE Tick \/ KeepRunning \/ DeviceIrq \/ Start \/ Halt \/ Yield \/ Exit
  BY <1>2, <1>4 DEF Tick, KeepRunning, DeviceIrq, Start, Halt, Yield, Exit,
                    tableVars, TypeOK
<1>5. CASE CreateScan \/ LaunchDone
  BY <1>2, <1>5 DEF CreateScan, LaunchDone, tableVars
<1>6. CASE CreateClear
  <2>1. /\ esp' = [Wiped(esp) EXCEPT ![slot] = Ctx(slot, "null")]
        /\ UNCHANGED <<cpu, task_count>> /\ slot \in Slots
        /\ tstate' = [tstate EXCEPT ![slot] = "READY"]
        /\ ~ (slot < task_count)
    BY <1>6 DEF CreateClear, Reclaiming, TypeOK
  <2>2. ASSUME NEW s \in Slots, s < task_count, s # cpu, tstate'[s] # "DEAD"
        PROVE  \E k \in Resumable : esp'[s] = Ctx(s, k)
    <3>1. s # slot /\ tstate[s] # "DEAD"
      BY <2>1, <2>2 DEF TypeOK
    <3>2. PICK k \in Resumable : esp[s] = Ctx(s, k)
      BY <2>2, <3>1, IntactUnfolds
    <3>3. Wiped(esp)[s] = esp[s]
      BY <3>1, <3>2 DEF Wiped, Ctx
    <3>4. esp'[s] = Wiped(esp)[s]
      BY <2>1, <3>1 DEF Wiped
    <3> QED
      BY <3>2, <3>3, <3>4
  <2>3. (\A s \in Slots : s < task_count /\ s # cpu /\ tstate[s] # "DEAD" =>
            \E k \in Resumable : esp[s] = Ctx(s, k))'
    BY <2>1, <2>2 DEF Ctx
  <2> QED
    BY <1>1, <2>3, IntactUnfolds, PTL
<1>7. CASE CreateFrame \/ CreatePublish
  <2>1. /\ UNCHANGED <<tstate, cpu>> /\ cpu = 0 /\ slot \in Slots
        /\ esp' = esp \/ esp' = [esp EXCEPT ![slot] = Ctx(slot, "entry")]
        /\ "entry" \in Resumable
    BY <1>7 DEF CreateFrame, CreatePublish, At, Resumable, TypeOK
  <2>2. ASSUME NEW s \in Slots, s < task_count', s >= task_count
        PROVE  esp[s] = Ctx(s, "entry")
    <3>1. /\ task_count' = IF slot >= task_count THEN slot + 1 ELSE task_count
          /\ pc[0] = "publish"
      BY <1>7, <2>2 DEF CreateFrame, CreatePublish, At, TypeOK
    <3>2. slot <= task_count /\ slot \in Int /\ task_count \in Int
      BY <3>1 DEF SwitchInv, CreateInv, TypeOK
    <3>3. s = slot /\ slot = task_count
      BY <2>2, <3>1, <3>2
    <3> QED
      BY <3>1, <3>3 DEF SwitchInv, CreateInv
  <2>3. ASSUME NEW s \in Slots, s < task_count', s # cpu, tstate'[s] # "DEAD"
        PROVE  \E k \in Resumable : esp'[s] = Ctx(s, k)
    <3>1. \E k \in Resumable : esp[s] = Ctx(s, k)
      <4>1. CASE s < task_count
        BY <2>1, <2>3, <4>1, IntactUnfolds
      <4>2. CASE ~ (s < task_count)
        BY <2>1, <2>2, <2>3, <4>2 DEF TypeOK
      <4> QED
        BY <4>1, <4>2
    <3> QED
      BY <2>1, <3>1 DEF TypeOK
  <2>4. (\A s \in Slots : s < task_count /\ s # cpu /\ tstate[s] # "DEAD" =>
            \E k \in Resumable : esp[s] = Ctx(s, k))'
    BY <2>1, <2>3 DEF Ctx
  <2> QED
    BY <1>1, <2>4, IntactUnfolds, PTL
<1>8. ASSUME NEW s \in Slots, \/ YieldPick(s) \/ YieldCompare(s) \/ YieldMark(s)
                              \/ YieldSet(s) \/ YieldCurrent(s) \/ YieldCall(s)
      PROVE  ContextsIntact'
  <2>1. UNCHANGED <<esp, cpu, task_count>>
    BY <1>8 DEF YieldPick, YieldCompare, YieldMark, YieldSet, YieldCurrent,
                YieldCall, tableVars
  <2>2. \A t \in Slots : tstate'[t] # "DEAD" => tstate[t] # "DEAD"
    BY <1>8 DEF YieldPick, YieldCompare, YieldMark, YieldSet, YieldCurrent,
                YieldCall, tableVars, MarkReady, RunsTheDead, TypeOK
  <2> QED
    BY <1>2, <2>1, <2>2
<1>9. ASSUME NEW s \in Slots, YieldSave(s)
      PROVE  ContextsIntact'
  <2>1. /\ cpu = s /\ UNCHANGED <<cpu, task_count, tstate>>
        /\ prev[s] = s /\ esp' = [esp EXCEPT ![s] = Ctx(s, "yield")]
    BY <1>9 DEF YieldSave, At, SwitchInv, CpuInv, Coherent, Leaving, Window
  <2>2. \A t \in 0 .. task_count - 1 : t \in Slots
    BY SizesAssumption DEF TypeOK, Slots
  <2> QED
    BY <2>1, <2>2 DEF ContextsIntact, TypeOK
<1>10. ASSUME NEW s \in Slots, YieldLoad(s)
       PROVE  ContextsIntact'
  <2>1. /\ cpu = s /\ pc[s] = "load" /\ ~ iflag /\ Coherent(s)
        /\ UNCHANGED <<tstate, task_count>>
        /\ next[s] \in Slots /\ next[s] # s /\ next[s] < task_count
        /\ tstate[next[s]] # "DEAD" /\ arg[s] = esp[next[s]]
        /\ esp[s] = Ctx(s, "yield")
    BY <1>10 DEF YieldLoad, At, InSwitchWindow, SwitchInv, CpuInv, Coherent,
                 Chosen, Leaving, Window, MaskedInv, TypeOK
  <2>2. PICK n \in Slots : n = next[s]
    BY <2>1
  <2>3. PICK kc \in Resumable : esp[n] = Ctx(n, kc)
    BY <2>1, <2>2, IntactUnfolds
  <2>4. PICK E \in [Slots -> Contexts], A \in [Slots -> Contexts] :
           E = esp /\ A = [arg EXCEPT ![s] = Ctx(s, "null")]
    BY ContextFacts DEF TypeOK, Kinds
  <2>5. /\ Resume(Ctx(n, kc), E, A, FALSE)
        /\ \A t \in Slots \ {cpu} : E[t] = esp[t]
        /\ \E k \in Resumable : E[cpu] = Ctx(cpu, k)
    <3>1. Resume(arg[s], esp, [arg EXCEPT ![s] = Ctx(s, "null")], iflag)
      BY <1>10 DEF YieldLoad
    <3>2. iflag = FALSE
      BY <2>1 DEF TypeOK
    <3>3. arg[s] = Ctx(n, kc)
      BY <2>1, <2>2, <2>3
    <3> QED
      BY <2>1, <2>4, <3>1, <3>2, <3>3 DEF Resumable
  <2>6. n < task_count /\ n # cpu /\ cpu \in Slots
    BY <2>1, <2>2
  <2> QED
    BY <1>1, <2>1, <2>5, <2>6, ResumeIntact
<1>11. CASE UNCHANGED vars
  BY <1>2, <1>11 DEF vars
<1> QED
  BY <1>3, <1>4, <1>5, <1>6, <1>7, <1>8, <1>9, <1>10, <1>11
  DEF Next, TimerIrq, CpuStep, Create, YieldStep

(* The switch invariant holds in every mode. *)
LEMMA SwitchInvariant == Spec => [](TypeOK /\ SwitchInv)
<1>1. Init => TypeOK /\ SwitchInv
  BY InitTypes, InitSwitch
<1>2. TypeOK /\ SwitchInv /\ [Next]_vars => (TypeOK /\ SwitchInv)'
  BY StepTypes, StepSwitch
<1> QED
  BY <1>1, <1>2, PTL DEF Spec

LEMMA DeadInvariant ==
    ASSUME Yielders = {}
    PROVE  Spec => [](TypeOK /\ SwitchInv /\ DeadInv)
<1>1. Init => TypeOK /\ SwitchInv /\ DeadInv
  BY InitTypes, InitSwitch, InitDead
<1>2. TypeOK /\ SwitchInv /\ DeadInv /\ [Next]_vars
         => (TypeOK /\ SwitchInv /\ DeadInv)'
  BY StepTypes, StepSwitch, StepDead
<1> QED
  BY <1>1, <1>2, PTL DEF Spec

(***************************************************************************)
(* A context is lost only by a tick inside switch_to's window, or by the   *)
(* reuse of a slot: in the kernel as it is, where tasks yield and none     *)
(* returns, and with tasks that return where none yields.  (With both, a   *)
(* yielding task can set a task RUNNING that died after it was chosen.)    *)
(***************************************************************************)
THEOREM ContextsLostInTheWindow ==
    ASSUME Exiters = {} \/ Yielders = {}
    PROVE  Spec => OnlyTheWindowCorrupts
<1>1. CASE Exiters = {}
  <2>1. Init => NobodyDead
    BY DEF Init, NobodyDead
  <2>2. TypeOK /\ NobodyDead /\ [Next]_vars => NobodyDead'
    BY <1>1, StepNobodyDead
  <2>3. TypeOK /\ SwitchInv /\ NobodyDead /\ [Next]_vars =>
           [ContextsIntact /\ ~ (InSwitchWindow \/ Reclaiming) => ContextsIntact']_vars
    <3>1. TypeOK /\ NobodyDead => ~ RunsTheDead
      BY DEF TypeOK, NobodyDead, RunsTheDead
    <3> QED
      BY <3>1, StepIntact
  <2> QED
    BY <2>1, <2>2, <2>3, SwitchInvariant, PTL DEF Spec, OnlyTheWindowCorrupts
<1>2. CASE Yielders = {}
  <2>1. TypeOK /\ SwitchInv /\ DeadInv /\ [Next]_vars =>
           [ContextsIntact /\ ~ (InSwitchWindow \/ Reclaiming) => ContextsIntact']_vars
    <3>1. DeadInv => ~ RunsTheDead
      BY DEF DeadInv, RunsTheDead, YieldSet, At, Ending, YieldSteps, Window
    <3> QED
      BY <3>1, StepIntact
  <2>2. Spec => [](TypeOK /\ SwitchInv /\ DeadInv)
    BY <1>2, DeadInvariant
  <2> QED
    BY <2>1, <2>2, PTL DEF Spec, OnlyTheWindowCorrupts
<1> QED
  BY <1>1, <1>2

(***************************************************************************)
(* Whichever tasks yield, exit or do both, a context is lost in three ways *)
(* only: a tick inside switch_to's window, the reuse of a slot, and a      *)
(* yielding task that sets RUNNING a task which died after it was chosen.  *)
(* The third cannot be left out: in four slots, with two tasks that yield  *)
(* and one that exits, such a task may have lost its frame before.         *)
(***************************************************************************)
THEOREM ContextsLostInThreeWays ==
    Spec => [][ContextsIntact /\ ~ (InSwitchWindow \/ Reclaiming) /\ ~ RunsTheDead
                  => ContextsIntact']_vars
<1>1. TypeOK /\ SwitchInv /\ [Next]_vars =>
         [ContextsIntact /\ ~ (InSwitchWindow \/ Reclaiming) /\ ~ RunsTheDead
             => ContextsIntact']_vars
  BY StepIntact
<1> QED
  BY <1>1, SwitchInvariant, PTL DEF Spec

(***************************************************************************)
(* A task that called task_exit never runs again, whatever was chosen and  *)
(* wherever it was interrupted, until its slot is used for another.        *)
(***************************************************************************)
THEOREM TheDeadStayDead ==
    ASSUME Yielders = {}
    PROVE  Spec => DeadStaysDead
<1>1. TypeOK /\ SwitchInv /\ DeadInv /\ [Next]_vars =>
         [\A s \in Slots : tstate[s] = "DEAD" =>
             \/ tstate'[s] = "DEAD" /\ pc'[s] # "net"
             \/ slot = s /\ pc[0] = "clear"]_vars
  BY StepDead DEF Revives, DeadInv
<1>2. Spec => [](TypeOK /\ SwitchInv /\ DeadInv)
  BY DeadInvariant
<1> QED
  BY <1>1, <1>2, PTL DEF Spec, DeadStaysDead

----------------------------------------------------------------------------
(***************************************************************************)
(* Keys and their reader leave the scheduler alone: a key's interrupt does *)
(* what any device's does, and what the reader does is a task's business.  *)
(* So whatever holds of Scheduler holds while keys come and are read.      *)
(***************************************************************************)
THEOREM InputIsScheduled == InputSpec => Spec
<1>1. InputInit => Init
  BY DEF InputInit
<1>2. TypeOK /\ [InputNext]_inputVars => [Next]_vars
  <2> SUFFICES ASSUME TypeOK, [InputNext]_inputVars PROVE [Next]_vars
    OBVIOUS
  <2>1. CASE TimerStep
    BY <2>1 DEF TimerStep, Next
  <2>2. CASE KeyIrq
    <3>1. CASE pc[cpu] = "hlt"
      BY <2>2, <3>1 DEF KeyIrq, DeviceIrq, Next
    <3>2. CASE pc[cpu] # "hlt"
      <4>1. Wake(cpu) = pc
        BY <3>2 DEF Wake, TypeOK
      <4> QED
        BY <2>2, <4>1 DEF KeyIrq, vars, tableVars, localVars, createVars
    <3> QED
      BY <3>1, <3>2
  <2>3. CASE ReaderStep
    BY <2>3 DEF ReaderStep, Call, Test, Sleep, Read, Next, CpuStep
  <2>4. CASE OtherStep
    BY <2>4 DEF OtherStep, Next, CpuStep
  <2>5. CASE UNCHANGED inputVars
    BY <2>5 DEF inputVars
  <2> QED
    BY <2>1, <2>2, <2>3, <2>4, <2>5 DEF InputNext
<1>3. Init => TypeOK
  BY InitTypes
<1>4. TypeOK /\ [Next]_vars => TypeOK'
  BY StepTypes
<1> QED
  BY <1>1, <1>2, <1>3, <1>4, PTL DEF InputSpec, Spec

(***************************************************************************)
(* In particular the shell's wait for a key, and every other hlt, is heard,*)
(* whenever the keys come.                                                 *)
(***************************************************************************)
THEOREM InputHaltsAreHeard ==
    ASSUME Exiters = {}
    PROVE  InputSpec => []NoDeafHalt
BY InputIsScheduled, HaltsAreHeard, PTL

(***************************************************************************)
(* And with the keys coming, a context is still lost in the window only.   *)
(***************************************************************************)
THEOREM InputContextsLostInTheWindow ==
    ASSUME Exiters = {} \/ Yielders = {}
    PROVE  InputSpec => OnlyTheWindowCorrupts
<1>1. Spec => OnlyTheWindowCorrupts
  BY ContextsLostInTheWindow
<1> QED
  BY <1>1, InputIsScheduled
=============================================================================
