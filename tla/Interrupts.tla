----------------------------- MODULE Interrupts -----------------------------
(***************************************************************************)
(* From an event of a peripheral to the firmware's handler and back:       *)
(* irq_vex.h (the interrupt switches main uses), trap_entry of             *)
(* crt0_vex.S (save the registers, call isr, restore them) and isr.c.      *)
(* The peripherals' event managers and the processor's interrupt logic     *)
(* are hardware; they are here because the handler never clears the event  *)
(* it was called for, so that the mask alone keeps it from being called    *)
(* again the moment it returns.                                            *)
(*                                                                         *)
(* One step is one instruction, or one clock that moves the interrupt      *)
(* lines.  A write of the mask or of the enable bit takes effect before    *)
(* the next trap can be taken; an event reaches the processor later, when  *)
(* LineClock moves it.  Up to InFlight instructions of main that were past *)
(* the decoder when the interrupt arrived are still executed.              *)
(***************************************************************************)
EXTENDS Naturals, FiniteSets

CONSTANTS Sources,      \* the interrupt numbers (eight on the chip)
          Saved,        \* how many registers trap_entry saves (16)
          Value,        \* what main keeps in them
          Junk,         \* what the handler leaves in them
          InFlight      \* instructions past the decoder

InterruptAssumption ==
    IsFiniteSet(Sources) /\ Saved \in Nat \ {0} /\ Junk \notin Value /\ InFlight \in Nat

VARIABLES
    pending, enable,   \* the event managers of the peripherals
    lines,             \* the interrupt lines, as the processor sampled them
    mask,              \* CSR_IRQ_MASK
    mie, mpie,         \* mstatus
    pc,                \* "main", or where in trap_entry and isr
    at,                \* the register trap_entry saves or restores next
    sp,                \* words the handler's frame takes below main's
    regs, stack,       \* the caller-saved registers, and the frame
    flag, la,          \* flag of isr.c; what isr wrote to reg_la1, reg_la0
    slip,              \* instructions executed since the interrupt arrived
    held,              \* ghost: main's registers
    wanted,            \* ghost: main's last irq_setie
    handled            \* ghost: handler calls since main's last irq_setmask

events == <<pending, enable, lines>>
csrs == <<mask, mie, mpie>>
frame == <<at, sp, stack>>
signals == <<flag, la>>
ghosts == <<held, wanted, handled>>
vars == <<events, csrs, frame, signals, ghosts, pc, regs, slip>>

Registers == 1..Saved

\* What irq_pending returns: the sampled lines the mask lets through.
irq_pending == mask \cap lines

\* The processor wants to take the trap.
Trapping == mie /\ irq_pending # {}

-----------------------------------------------------------------------------
(* The hardware *)

\* A peripheral sees its event.
Raise(s) ==
    /\ pending' = pending \cup {s}
    /\ UNCHANGED <<enable, lines, csrs, frame, signals, ghosts, pc, regs, slip>>

\* The lines are sampled; every event that is pending and enabled is one.
LineClock ==
    /\ lines' = pending \cap enable
    /\ UNCHANGED <<pending, enable, csrs, frame, signals, ghosts, pc, regs, slip>>

\* The trap: mstatus closes, and the processor is at trap_entry.
Trap ==
    /\ Trapping
    /\ mie' = FALSE
    /\ mpie' = mie
    /\ pc' = "save"
    /\ at' = 1
    /\ handled' = IF handled = 2 THEN 2 ELSE handled + 1
    /\ UNCHANGED <<events, mask, sp, stack, signals, held, wanted, regs, slip>>

-----------------------------------------------------------------------------
(* main, with the switches of irq_vex.h *)

\* An instruction of main that does what is in its action.
Instruction ==
    /\ pc = "main"
    /\ slip' = IF Trapping THEN slip + 1 ELSE 0
    /\ Trapping => slip < InFlight
    /\ UNCHANGED <<pc, frame, signals>>

irq_setie(ie) ==
    /\ Instruction
    /\ mie' = ie
    /\ wanted' = ie
    /\ UNCHANGED <<events, mask, mpie, held, handled, regs>>

irq_setmask(m) ==
    /\ Instruction
    /\ mask' = m
    /\ handled' = 0
    /\ UNCHANGED <<events, mie, mpie, held, wanted, regs>>

\* <x>_ev_enable_write
EnableEvents(s) ==
    /\ Instruction
    /\ enable' = s
    /\ UNCHANGED <<pending, lines, csrs, ghosts, regs>>

\* <x>_ev_pending_write: what a 1 is written to, is cleared.
ClearEvents(s) ==
    /\ Instruction
    /\ pending' = pending \ s
    /\ UNCHANGED <<enable, lines, csrs, ghosts, regs>>

\* main computes something into a register.
Compute(r, v) ==
    /\ Instruction
    /\ regs' = [regs EXCEPT ![r] = v]
    /\ held' = [held EXCEPT ![r] = v]
    /\ UNCHANGED <<events, csrs, wanted, handled>>

MainStep ==
    \/ \E ie \in BOOLEAN : irq_setie(ie)
    \/ \E m \in SUBSET Sources : irq_setmask(m)
    \/ \E s \in SUBSET Sources : EnableEvents(s) \/ ClearEvents(s)
    \/ \E r \in Registers, v \in Value : Compute(r, v)

-----------------------------------------------------------------------------
(* trap_entry and isr *)

\* The offset above the frame's base that trap_entry saves register r at:
\* sw x_r, -r*4(sp), before the frame is taken.
SaveSlot(r) == Saved - r

\* Faulty: restored in the order they were saved.
LoadSlotUp(r) == r - 1

\* The offset it restores it from: lw x_r, (16-r)*4(sp), in the frame.
LoadSlot(r) == Saved - r

\* The registers go one after the other, in both directions.
NextRegister == IF at = Saved THEN 1 ELSE at + 1

Save ==
    /\ pc = "save"
    /\ stack' = [stack EXCEPT ![SaveSlot(at)] = regs[at]]
    /\ at' = NextRegister
    /\ pc' = IF at = Saved THEN "frame" ELSE "save"
    /\ UNCHANGED <<events, csrs, sp, signals, ghosts, regs, slip>>

\* addi sp,sp,-16*4; call isr, which is free to use every saved register.
Call ==
    /\ pc = "frame"
    /\ sp' = sp + Saved
    /\ pc' = "isr"
    /\ regs' = [r \in Registers |-> Junk]
    /\ UNCHANGED <<events, csrs, at, stack, signals, ghosts, slip>>

\* Faulty: isr without irq_setmask(0), like the lines next to it that are
\* commented out; isr that leaves one source unmasked.
MaskKept == mask
MaskOne == {CHOOSE s \in Sources : TRUE}

\* isr starts with irq_setmask(0).
HandlerMask == {}

MaskAll ==
    /\ pc = "isr"
    /\ mask' = HandlerMask
    /\ pc' = "la1"
    /\ UNCHANGED <<events, mie, mpie, frame, signals, ghosts, regs, slip>>

\* reg_la1_data = 0xa; reg_la0_data = 0x20000; flag = 1
Signal ==
    /\ \/ pc = "la1"  /\ la' = [la EXCEPT !.la1 = TRUE] /\ flag' = flag /\ pc' = "la0"
       \/ pc = "la0"  /\ la' = [la EXCEPT !.la0 = TRUE] /\ flag' = flag /\ pc' = "flag"
       \/ pc = "flag" /\ la' = la /\ flag' = 1 /\ pc' = "load"
    /\ UNCHANGED <<events, csrs, frame, ghosts, regs, slip>>

Load ==
    /\ pc = "load"
    /\ regs' = [regs EXCEPT ![at] = stack[LoadSlot(at)]]
    /\ at' = NextRegister
    /\ pc' = IF at = Saved THEN "unwind" ELSE "load"
    /\ UNCHANGED <<events, csrs, sp, stack, signals, ghosts, slip>>

\* addi sp,sp,16*4
Unwind ==
    /\ pc = "unwind"
    /\ sp' = sp - Saved
    /\ pc' = "mret"
    /\ UNCHANGED <<events, csrs, at, stack, signals, ghosts, regs, slip>>

\* Faulty: interrupts stay off.
RestoredOff == FALSE

\* The enable bit mret brings back.
Restored == mpie

\* mret; the pipeline is empty when main's next instruction is fetched.
Return ==
    /\ pc = "mret"
    /\ mie' = Restored
    /\ mpie' = TRUE
    /\ pc' = "main"
    /\ slip' = InFlight
    /\ UNCHANGED <<events, mask, frame, signals, ghosts, regs>>

HandlerStep == Save \/ Call \/ MaskAll \/ Signal \/ Load \/ Unwind \/ Return

-----------------------------------------------------------------------------
Init ==
    /\ pending = {} /\ enable = {} /\ lines = {}
    /\ mask = {} /\ mie = FALSE /\ mpie = FALSE
    /\ pc = "main" /\ at = 1 /\ sp = 0 /\ slip = 0
    /\ regs \in [Registers -> Value]
    /\ held = regs
    /\ stack = [k \in 0..(Saved - 1) |-> Junk]
    /\ flag = 0 /\ la = [la1 |-> FALSE, la0 |-> FALSE]
    /\ wanted = FALSE /\ handled = 0

Next ==
    \/ \E s \in Sources : Raise(s)
    \/ LineClock
    \/ Trap
    \/ MainStep
    \/ HandlerStep

\* The clock runs, and the processor executes what it has fetched.  Nothing
\* is assumed of the peripherals' events or of what main does.
Fairness == WF_vars(LineClock) /\ WF_vars(Trap) /\ WF_vars(HandlerStep)

Spec == Init /\ [][Next]_vars /\ Fairness

-----------------------------------------------------------------------------
\* main cannot tell that it was interrupted: whenever it executes, its
\* registers hold what it put into them, its stack pointer is where it was,
\* and interrupts are on exactly when its last irq_setie turned them on.
\* (The frame is saved below the stack pointer and restored above it, in 16
\* pairs of hand-written offsets.)
MainUndisturbed ==
    pc = "main" => regs = held /\ sp = 0 /\ mie = wanted

\* One irq_setmask of main is worth one call of the handler: isr masks
\* everything and leaves the event pending, so however long the event stays
\* it is not taken again before main sets the mask.
HandledOnce == handled <= 1

\* An event is not lost while it is masked, disabled or being sampled: if it
\* stays pending, enabled and unmasked with interrupts wanted, it is handled.
Armed(s) == s \in pending \cap enable \cap mask /\ wanted
EventsReachHandler ==
    \A s \in Sources : Armed(s) ~> (pc # "main" \/ ~Armed(s))

\* The handler always gives the processor back: after a trap main is reached
\* again with no further trap in the way.
MainResumes == (pc = "save") ~> (pc = "main" /\ ~Trapping)

=============================================================================
