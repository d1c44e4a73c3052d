----------------------------- MODULE PerfCounters -----------------------------
(***************************************************************************)
(* The performance counters of simple_system_common.c: pcount_reset writes  *)
(* 0 to the low word of every counter and then to the high word of every    *)
(* counter, one instruction each, while the counters run; pcount_enable     *)
(* writes mcountinhibit.                                                    *)
(*                                                                         *)
(* The counters are the processor's: in a step each counts its event or not, *)
(* and a counter is twice as wide as the words the instructions write.      *)
(*                                                                         *)
(* A word is wide enough not to overflow between the two writes to a counter *)
(* (2^32 values against 31 instructions).                                  *)
(*                                                                         *)
(* counted is history: the events of each counter since its low word was    *)
(* last written by pcount_reset, modulo the counter's width.                *)
(***************************************************************************)
EXTENDS Integers

CONSTANTS
    LastCounter,  \* the counters are 0..LastCounter: minstret, mcycle, mhpmcounter3...
    W,            \* a word holds W values
    Starts        \* the values a counter may have when the program starts

Counter == 0..LastCounter
Value   == 0..(W * W - 1)

CounterAssumption ==
    LastCounter \in Nat /\ W \in Nat /\ W > LastCounter + 1 /\ Starts \subseteq Value

VARIABLES
    count,    \* the counters
    inhibit,  \* mcountinhibit: TRUE in all its bits or FALSE in all
    pc,       \* the instruction: <<"idle", 0>>, <<"low", c>> or <<"high", c>>
    reset,    \* whether pcount_reset has been called and has returned
    counted

vars == <<count, inhibit, pc, reset, counted>>

Init ==
    /\ count \in [Counter -> Starts]
    /\ inhibit \in BOOLEAN
    /\ pc = <<"idle", 0>> /\ reset = FALSE
    /\ counted = [c \in Counter |-> 0]

-----------------------------------------------------------------------------

Low(v)  == v % W
High(v) == v \div W

Plus(v, n) == (v + n) % (W * W)

\* What the counters may see in one instruction: one event or none each, and none
\* while they are inhibited.
Events == IF inhibit THEN {[c \in Counter |-> 0]} ELSE [Counter -> {0, 1}]

\* Clearing one word.
ClearLow(v)  == High(v) * W
ClearHigh(v) == Low(v)

\* Faulty variant: the high words first.
HighFirst == <<"high", "low">>

\* The order of the two halves of pcount_reset.
Halves == <<"low", "high">>

Call ==
    /\ pc = <<"idle", 0>>
    /\ pc' = <<Halves[1], 0>>
    /\ UNCHANGED <<count, inhibit, reset, counted>>

After(half, c) ==
    CASE c < LastCounter                      -> <<half, c + 1>>
      [] c = LastCounter /\ half = Halves[1]  -> <<Halves[2], 0>>
      [] c = LastCounter /\ half = Halves[2]  -> <<"idle", 0>>

Cleared(half, v) == IF half = "low" THEN ClearLow(v) ELSE ClearHigh(v)

\* One csrw: it clears a word of its counter, whose own event of that instruction is
\* lost; the others count on.
Instruction ==
    LET c == pc[2]
    IN  /\ pc[1] \in {"low", "high"}
        /\ \E e \in Events :
             /\ count' = [d \in Counter |-> IF d = c THEN Cleared(pc[1], count[d])
                                           ELSE Plus(count[d], e[d])]
             /\ counted' = [d \in Counter |-> IF d # c THEN Plus(counted[d], e[d])
                                             ELSE IF pc[1] = "low" THEN 0 ELSE counted[d]]
        /\ pc' = After(pc[1], c)
        /\ reset' = (reset \/ pc' = <<"idle", 0>>)
        /\ UNCHANGED inhibit

\* The program's other instructions.
Elsewhere ==
    /\ pc = <<"idle", 0>>
    /\ \E e \in Events :
         /\ count' = [c \in Counter |-> Plus(count[c], e[c])]
         /\ counted' = [c \in Counter |-> Plus(counted[c], e[c])]
    /\ UNCHANGED <<inhibit, pc, reset>>

\* pcount_enable(enable)
Enable ==
    /\ pc = <<"idle", 0>>
    /\ inhibit' \in BOOLEAN
    /\ UNCHANGED <<count, pc, reset, counted>>

Next == Call \/ Instruction \/ Elsewhere \/ Enable

Spec == Init /\ [][Next]_vars

-----------------------------------------------------------------------------
(* Properties.                                                             *)

\* Every variable keeps its range.
TypeOK ==
    /\ count \in [Counter -> Value] /\ counted \in [Counter -> Value]
    /\ inhibit \in BOOLEAN /\ reset \in BOOLEAN
    /\ pc \in {<<"idle", 0>>} \cup {<<h, c>> : h \in {"low", "high"}, c \in Counter}

\* pcount_reset, "Resets all performance counters": when it has returned, every counter
\* holds what it has counted since, although it was cleared in two halves while it ran:
\* nothing of the old count comes back as a carry.
ResetMeansZero == reset /\ pc = <<"idle", 0>> => count = counted
=============================================================================
