------------------------------ MODULE MCCpuSide ------------------------------
(***************************************************************************)
(* CpuSide for TLC: all registers and fields at full width, with the words *)
(* that tell the bits of a field from its neighbours'; two sources of      *)
(* interrupts and two registers that trap_entry saves.                     *)
(***************************************************************************)
EXTENDS CpuSide

\* For a field one bit too many is among the bits a caller passes.
MCValues(f) ==
    IF f = NoField THEN {{}, {0}, Bits} ELSE SUBSET {0, f.size - 1, f.size}

MCSignals(k) == {{}, {0}, Width(k)}

\* All zeros, all ones.
MCFillings == {[k \in HwRegs |-> {}], [k \in HwRegs |-> Width(k)]}

\* The initial states in which the part that rests does so in the same state.
MCInit ==
    /\ part \in {"registers", "traps"}
    /\ Init /\ (part = "registers" \/ file = [k \in HwRegs |-> {}])
    /\ Traps!Init /\ (part = "traps" \/ regs = [r \in 1..Saved |-> 0])

MCSpec == MCInit /\ [][CpuNext]_cpuVars /\ Traps!Fairness
=============================================================================
