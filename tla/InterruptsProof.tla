--------------------------- MODULE InterruptsProof ---------------------------
(***************************************************************************)
(* main cannot tell that it was interrupted, whatever number of registers  *)
(* trap_entry saves and whatever main and the peripherals do; and one      *)
(* irq_setmask is worth one call of the handler.                           *)
(*                                                                         *)
(* MainUndisturbed is not inductive: what main finds in its registers is   *)
(* decided a handler earlier, by what is on the stack.  Frame says where   *)
(* main's values are at every point of trap_entry: the registers not yet   *)
(* saved, the slots already saved, the registers already restored.         *)
(***************************************************************************)
EXTENDS CpuSide, TLAPS

\* The slots of the registers up to (not including) n hold main's values.
Below(n) == \A r \in Traps!Registers : r < n => stack[Saved - r] = held[r]

\* Where main's registers are while the handler has the processor.
Frame ==
    /\ t_pc = "main" => regs = held /\ sp = 0 /\ at = 1
    /\ t_pc = "save" => regs = held /\ sp = 0 /\ Below(at)
    /\ t_pc = "frame" => sp = 0 /\ at = 1 /\ Below(Saved + 1)
    /\ t_pc \in {"isr", "la1", "la0", "flag"} => sp = Saved /\ at = 1 /\ Below(Saved + 1)
    /\ t_pc = "load" =>
         /\ sp = Saved /\ Below(Saved + 1)
         /\ \A r \in Traps!Registers : r < at => regs[r] = held[r]
    /\ t_pc = "unwind" => regs = held /\ sp = Saved /\ at = 1
    /\ t_pc = "mret" => regs = held /\ sp = 0 /\ at = 1

\* Whether interrupts will be on again when the handler has returned.
Switch ==
    /\ t_pc = "main" => mie = wanted
    /\ t_pc # "main" => mpie = wanted /\ mie = FALSE

Shapes ==
    /\ wanted \in BOOLEAN /\ mie \in BOOLEAN
    /\ at \in Traps!Registers
    /\ regs \in [Traps!Registers -> Kept \cup {Garbage}] /\ held \in [Traps!Registers -> Kept]
    /\ stack \in [0..(Saved - 1) -> Kept \cup {Garbage}]

IInv == Shapes /\ Frame /\ Switch

\* The mask is empty once isr has run, until main sets it again.
Masked ==
    /\ handled \in {0, 1}
    /\ handled = 1 => t_pc \in {"save", "frame", "isr"} \/ mask = {}
    /\ t_pc # "main" => mie = FALSE

-----------------------------------------------------------------------------
\* The two parts: traps begin and step as in Interrupts, or rest; and the registers
\* begin and step as in CsrBus, or rest.
LEMMA Assumed == Saved \in Nat \ {0}
  BY TrapAssumption DEF Traps!InterruptAssumption

LEMMA TrapsBegin == CpuInit => Traps!Init
  BY Zenon DEF CpuInit

LEMMA TrapsStepOrRest == [CpuNext]_cpuVars => [Traps!Next]_traps
  BY Zenon DEF CpuNext, RegistersStep, TrapsStep, Over, cpuVars

\* What CsrBusProof proves of the register accesses is true of them here.
THEOREM RegistersInSystem == CpuSpec => Spec
<1>1. CpuInit => Init
  BY Zenon DEF CpuInit
<1>2. [CpuNext]_cpuVars => [Next]_vars
  BY Zenon DEF CpuNext, RegistersStep, TrapsStep, Over, cpuVars
<1>3. QED
  BY <1>1, <1>2, PTL DEF CpuSpec, Spec

LEMMA InitUndisturbed == Traps!Init => IInv
<1> SUFFICES ASSUME Traps!Init PROVE IInv
  OBVIOUS
<1>1. Shapes
  <2>1. regs \in [Traps!Registers -> Kept \cup {Garbage}]
    BY DEF Traps!Init
  <2>2. 1 \in Traps!Registers
    BY Assumed DEF Traps!Registers
  <2>3. stack \in [0..(Saved - 1) -> Kept \cup {Garbage}]
    BY DEF Traps!Init
  <2>4. QED
    BY <2>1, <2>2, <2>3 DEF Traps!Init, Shapes
<1>2. Frame /\ Switch
  BY DEF Traps!Init, Frame, Switch
<1>3. QED
  BY <1>1, <1>2 DEF IInv

LEMMA NextUndisturbed == IInv /\ [Traps!Next]_traps => IInv'
<1> SUFFICES ASSUME IInv, [Traps!Next]_traps PROVE IInv'
  OBVIOUS
<1> USE Assumed DEF Traps!Registers
<1>1. ASSUME NEW s \in Sources, Traps!Raise(s) PROVE IInv'
  BY <1>1 DEF IInv, Shapes, Frame, Switch, Below, Traps!Raise, Traps!csrs, Traps!frame, Traps!ghosts
<1>2. CASE Traps!LineClock
  BY <1>2 DEF IInv, Shapes, Frame, Switch, Below, Traps!LineClock, Traps!csrs, Traps!frame, Traps!ghosts
<1>3. CASE Traps!Trap
  <2>1. t_pc = "main" /\ mie
    BY <1>3 DEF IInv, Switch, Traps!Trap, Traps!Trapping
  <2>2. Shapes'
    <3>1. mie' = FALSE /\ at' = 1 /\ UNCHANGED <<wanted, regs, held, stack>>
      BY <1>3 DEF Traps!Trap
    <3>2. 1 \in Traps!Registers /\ Traps!Registers' = Traps!Registers
      OBVIOUS
    <3>3. mie' \in BOOLEAN /\ wanted' \in BOOLEAN
      BY <3>1 DEF IInv, Shapes
    <3>4. QED
      BY <3>1, <3>2, <3>3 DEF IInv, Shapes
  <2>3. Frame'
    BY <1>3, <2>1 DEF IInv, Shapes, Frame, Below, Traps!Trap
  <2>4. Switch'
    BY <1>3, <2>1 DEF IInv, Switch, Traps!Trap
  <2>5. QED
    BY <2>2, <2>3, <2>4 DEF IInv
<1>4. CASE Traps!MainStep
  <2>1. ASSUME NEW ie \in BOOLEAN, Traps!irq_setie(ie) PROVE IInv'
    BY <2>1 DEF IInv, Shapes, Frame, Switch, Below, Traps!irq_setie, Traps!Instruction, Traps!frame
  <2>2. ASSUME NEW x \in SUBSET Sources, Traps!irq_setmask(x) PROVE IInv'
    BY <2>2 DEF IInv, Shapes, Frame, Switch, Below, Traps!irq_setmask, Traps!Instruction, Traps!frame
  <2>3. ASSUME NEW s \in SUBSET Sources, Traps!EnableEvents(s) \/ Traps!ClearEvents(s) PROVE IInv'
    BY <2>3 DEF IInv, Shapes, Frame, Switch, Below, Traps!EnableEvents, Traps!ClearEvents, Traps!Instruction, Traps!frame, Traps!csrs, Traps!ghosts
  <2>4. ASSUME NEW r \in 1..Saved, NEW v \in Kept, Traps!Compute(r, v) PROVE IInv'
    BY <2>4 DEF IInv, Shapes, Frame, Switch, Below, Traps!Compute, Traps!Instruction, Traps!frame, Traps!csrs
  <2>5. QED
    BY <1>4, <2>1, <2>2, <2>3, <2>4 DEF Traps!MainStep
<1>5. CASE Traps!Save
  BY <1>5 DEF IInv, Shapes, Frame, Switch, Below, Traps!Save, Traps!SaveSlot, Traps!NextRegister, Traps!csrs, Traps!ghosts
<1>6. CASE Traps!Call
  BY <1>6 DEF IInv, Shapes, Frame, Switch, Below, Traps!Call, Traps!csrs, Traps!ghosts
<1>7. CASE Traps!MaskAll \/ Traps!Signal
  <2>1. CASE Traps!MaskAll
    BY <2>1 DEF IInv, Shapes, Frame, Switch, Below, Traps!MaskAll, Traps!frame, Traps!ghosts
  <2>2. CASE Traps!Signal
    <3>1. t_pc \in {"la1", "la0", "flag"} /\ t_pc' \in {"la0", "flag", "load"}
      BY <2>2 DEF Traps!Signal
    <3>2. UNCHANGED <<Traps!csrs, Traps!frame, Traps!ghosts, regs>>
      BY <2>2 DEF Traps!Signal
    <3>3. QED
      BY <3>1, <3>2 DEF IInv, Shapes, Frame, Switch, Below, Traps!csrs, Traps!frame, Traps!ghosts
  <2>3. QED
    BY <1>7, <2>1, <2>2
<1>8. CASE Traps!Load
  BY <1>8 DEF IInv, Shapes, Frame, Switch, Below, Traps!Load, Traps!LoadSlot, Traps!NextRegister, Traps!csrs, Traps!ghosts
<1>9. CASE Traps!Unwind
  BY <1>9 DEF IInv, Shapes, Frame, Switch, Below, Traps!Unwind, Traps!csrs, Traps!ghosts
<1>10. CASE Traps!Return
  BY <1>10 DEF IInv, Shapes, Frame, Switch, Below, Traps!Return, Traps!Restored, Traps!frame, Traps!ghosts
<1>11. CASE UNCHANGED traps
  BY <1>11 DEF IInv, Shapes, Frame, Switch, Below, traps, Traps!csrs, Traps!frame, Traps!ghosts
<1>12. QED
  BY <1>1, <1>2, <1>3, <1>4, <1>5, <1>6, <1>7, <1>8, <1>9, <1>10, <1>11 DEF Traps!Next, Traps!HandlerStep

\* trap_entry and mret give main its registers, its stack pointer and its
\* interrupt switch back (crt0_vex.S), for every number of saved registers.
THEOREM InterruptedMainUndisturbed == CpuSpec => []MainUndisturbed
<1>1. IInv => MainUndisturbed
  BY DEF IInv, Frame, Switch, MainUndisturbed, Traps!MainUndisturbed
<1>2. QED
  BY <1>1, InitUndisturbed, NextUndisturbed, TrapsBegin, TrapsStepOrRest, PTL DEF CpuSpec

\* isr's irq_setmask(0) is enough to be called once per irq_setmask of main,
\* although isr leaves the event pending (isr.c:22).
THEOREM CalledOnce == CpuSpec => []HandledOnce
<1>1. Traps!Init => Masked
  BY DEF Traps!Init, Masked
<1>2. Masked /\ [Traps!Next]_traps => Masked'
  <2> SUFFICES ASSUME Masked, [Traps!Next]_traps PROVE Masked'
    OBVIOUS
  <2> USE DEF Masked
  <2>1. CASE UNCHANGED traps \/ Traps!LineClock \/ \E s \in Sources : Traps!Raise(s)
    BY <2>1 DEF traps, Traps!csrs, Traps!ghosts, Traps!LineClock, Traps!Raise
  <2>2. CASE Traps!Trap
    BY <2>2 DEF Traps!Trap, Traps!Trapping, Traps!irq_pending
  <2>3. CASE Traps!MainStep
    BY <2>3 DEF Traps!MainStep, Traps!Instruction, Traps!irq_setie, Traps!irq_setmask, Traps!EnableEvents, Traps!ClearEvents, Traps!Compute, Traps!csrs, Traps!ghosts
  <2>4. CASE Traps!HandlerStep
    <3>1. CASE Traps!Signal
      <4>1. t_pc \in {"la1", "la0", "flag"} /\ t_pc' \in {"la0", "flag", "load"}
        BY <3>1 DEF Traps!Signal
      <4>2. UNCHANGED <<Traps!csrs, Traps!ghosts>>
        BY <3>1 DEF Traps!Signal
      <4>3. QED
        BY <4>1, <4>2 DEF Traps!csrs, Traps!ghosts
    <3>2. CASE ~Traps!Signal
      BY <2>4, <3>2 DEF Traps!HandlerStep, Traps!Save, Traps!Call, Traps!MaskAll, Traps!HandlerMask, Traps!Load, Traps!Unwind, Traps!Return, Traps!csrs, Traps!ghosts
    <3>3. QED
      BY <3>1, <3>2
  <2>5. QED
    BY <2>1, <2>2, <2>3, <2>4 DEF Traps!Next
<1>3. Masked => HandledOnce
  BY DEF Masked, HandledOnce, Traps!HandledOnce
<1>4. QED
  BY <1>1, <1>2, <1>3, TrapsBegin, TrapsStepOrRest, PTL DEF CpuSpec
=============================================================================
