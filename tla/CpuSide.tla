------------------------------- MODULE CpuSide -------------------------------
(***************************************************************************)
(* Two parts of the processor's side of the bus, modelled without shared   *)
(* state: the accesses to the registers (CsrBus, where the handler is two  *)
(* writes that come in anywhere) and the traps and the handler itself      *)
(* (Interrupts, where the registers of the peripherals are sets of         *)
(* events).  A behaviour is one part's, chosen in the initial state; the   *)
(* variables of the other rest.                                            *)
(***************************************************************************)
EXTENDS CsrBus

CONSTANTS Sources, Saved, Kept, Garbage, InFlight    \* Interrupts

VARIABLES
    part,                                                   \* whose behaviour it is
    pending, enable, lines, mask, mie, mpie, t_pc, at, sp,  \* Interrupts
    regs, stack, flag, la_out, slip, held, wanted, handled

Traps == INSTANCE Interrupts WITH
             Value <- Kept, Junk <- Garbage, pc <- t_pc, la <- la_out

ASSUME TrapAssumption == Traps!InterruptAssumption

traps   == <<pending, enable, lines, mask, mie, mpie, t_pc, at, sp,
             regs, stack, flag, la_out, slip, held, wanted, handled>>
cpuVars == <<part, vars, traps>>

-----------------------------------------------------------------------------
CpuInit == part \in {"registers", "traps"} /\ Init /\ Traps!Init

\* A step of one part: the other rests.
RegistersStep == part = "registers" /\ Next /\ UNCHANGED <<part, traps>>
TrapsStep(A)  == part = "traps" /\ A /\ UNCHANGED <<part, vars>>

\* The call is over.
Over == pc = "done" /\ UNCHANGED cpuVars

CpuNext == RegistersStep \/ TrapsStep(Traps!Next) \/ Over

\* Nothing is assumed of main's calls.  (In a behaviour of the registers the traps stay
\* in their initial state, where none of the fair actions is enabled.)
CpuSpec == CpuInit /\ [][CpuNext]_cpuVars /\ Traps!Fairness

-----------------------------------------------------------------------------
(* What Interrupts promises; the properties of CsrBus are its own.         *)

\* main cannot tell that it was interrupted: its registers, its stack pointer and its
\* interrupt switch are what it left (crt0_vex.S saves and restores them).
MainUndisturbed == Traps!MainUndisturbed

\* One irq_setmask of main is worth one call of the handler (isr.c masks everything).
HandledOnce == Traps!HandledOnce

\* An event that stays pending, enabled and unmasked gets to the handler (irq_vex.h) ...
EventsReachHandler == Traps!EventsReachHandler

\* ... and the handler gives the processor back to main (isr.c, crt0_vex.S).
MainResumes == Traps!MainResumes
=============================================================================
