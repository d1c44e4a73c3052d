------------------------------- MODULE StartUp -------------------------------
(***************************************************************************)
(* The first part of a run: crt0_vex.S brings the memory into the state C  *)
(* expects, word by word, and main calls fir() and reports what it returned. *)
(*                                                                         *)
(* The sections are where sections.lds puts them: the code of fir() is      *)
(* copied from flash to the user RAM, the initialised variables from flash  *)
(* to dff, and the variables without initialiser are cleared.  A reset may  *)
(* come at any time: it leaves the memory as it is and starts over.  fir()  *)
(* adds to the array it returns and never clears it.                       *)
(***************************************************************************)
EXTENDS Integers, Sequences

CONSTANTS
    N,            \* fir.h's N
    CodeLen,      \* words of fir()
    Taps, Input,  \* the initial values of taps and inputsignal
    Junk          \* what the memory may hold when power comes on

Slot == 0..(N - 1)
Code == 0..(CodeLen - 1)

StartUpAssumption ==
    /\ N \in Nat \ {0} /\ CodeLen \in Nat \ {0}
    /\ Taps \in [Slot -> Int] /\ Input \in [Slot -> Int] /\ Junk \subseteq Int

VARIABLES
    mprjram,                     \* the code in the user RAM: whether each word is in place
    taps, inputsignal,           \* .data
    outputsignal,                \* .bss
    pc, a, i, j,                 \* the loop, its pointer or counters
    reported                     \* the words main has written to reg_mprj_datal

memory  == <<mprjram, taps, inputsignal, outputsignal>>
vars    == <<memory, pc, a, i, j, reported>>

\* The loop the program starts with.
FirstLoop == "sram"

Init ==
    /\ mprjram = [w \in Code |-> FALSE]
    /\ \E x \in Junk : taps = [s \in Slot |-> x] /\ inputsignal = [s \in Slot |-> x]
    /\ outputsignal \in [Slot -> Junk]
    /\ pc = FirstLoop /\ a = 0 /\ i = 0 /\ j = 0 /\ reported = <<>>

-----------------------------------------------------------------------------
(* crt0_vex.S                                                              *)

Enter(where) == pc' = where /\ a' = 0

\* _esram
EndOfCode == CodeLen

\* sram_loop
SramInit ==
    /\ pc = "sram"
    /\ IF a = EndOfCode
       THEN Enter("data") /\ UNCHANGED mprjram
       ELSE mprjram' = [mprjram EXCEPT ![a] = TRUE] /\ a' = a + 1 /\ UNCHANGED pc
    /\ UNCHANGED <<taps, inputsignal, outputsignal, i, j, reported>>

\* Faulty variant: the variables without initialiser are not cleared.
AfterDataNoBss == "fir"

\* Faulty variant: the jump goes to the wrong loop.
AfterDataSram == "sram"

AfterData == "bss"

\* data_loop, over both arrays
DataInit ==
    /\ pc = "data"
    /\ IF a = 2 * N
       THEN Enter(AfterData) /\ UNCHANGED <<taps, inputsignal>>
       ELSE /\ taps' = IF a < N THEN [taps EXCEPT ![a] = Taps[a]] ELSE taps
            /\ inputsignal' = IF a < N THEN inputsignal ELSE [inputsignal EXCEPT ![a - N] = Input[a - N]]
            /\ a' = a + 1 /\ UNCHANGED pc
    /\ UNCHANGED <<mprjram, outputsignal, i, j, reported>>

\* bss_loop
BssInit ==
    /\ pc = "bss"
    /\ IF a = N
       THEN Enter("fir") /\ UNCHANGED outputsignal
       ELSE outputsignal' = [outputsignal EXCEPT ![a] = 0] /\ a' = a + 1 /\ UNCHANGED pc
    /\ UNCHANGED <<mprjram, taps, inputsignal, i, j, reported>>

-----------------------------------------------------------------------------
(* fir.c and main                                                          *)

\* One turn of the inner loop, or the step to the next outer one.
Fir ==
    /\ pc = "fir" /\ i < N
    /\ IF j <= i
       THEN /\ outputsignal' = [outputsignal EXCEPT ![i] = @ + taps[j] * inputsignal[i - j]]
            /\ j' = j + 1 /\ UNCHANGED i
       ELSE i' = i + 1 /\ j' = 0 /\ UNCHANGED outputsignal
    /\ UNCHANGED <<mprjram, taps, inputsignal, pc, a, reported>>

FirReturns ==
    /\ pc = "fir" /\ i = N
    /\ Enter("report")
    /\ UNCHANGED <<memory, i, j, reported>>

\* reg_mprj_datal = *(tmp+a) << 16;
Report ==
    /\ pc = "report" /\ a < N
    /\ reported' = Append(reported, outputsignal[a])
    /\ a' = a + 1
    /\ UNCHANGED <<memory, pc, i, j>>

-----------------------------------------------------------------------------
\* The reset pin: the registers are lost and the memory is not.
Reset ==
    /\ Enter(FirstLoop) /\ i' = 0 /\ j' = 0 /\ reported' = <<>>
    /\ UNCHANGED memory

Next == SramInit \/ DataInit \/ BssInit \/ Fir \/ FirReturns \/ Report \/ Reset

\* The processor executes its next instruction.
Spec == Init /\ [][Next]_vars /\ WF_vars(Next /\ ~Reset)

-----------------------------------------------------------------------------
(* Properties.                                                             *)

\* num of firmwareFir, for output k, after each turn of its inner loop.
Sums(k) ==
    LET sum[t \in 0..(k + 1)] ==
            IF t = 0 THEN 0 ELSE sum[t - 1] + Taps[t - 1] * Input[k - (t - 1)]
    IN  sum

\* The line of lab4_1_golden.dat for output k.
Golden(k) == Sums(k)[k + 1]

\* Every variable keeps its range, the pointers of the loops theirs.
TypeOK ==
    /\ mprjram \in [Code -> BOOLEAN]
    /\ \A m \in {taps, inputsignal, outputsignal} : m \in [Slot -> Int]
    /\ pc \in {"sram", "data", "bss", "fir", "report"}
    /\ a \in 0..(IF CodeLen > 2 * N THEN CodeLen ELSE 2 * N) /\ i \in 0..N /\ j \in 0..N /\ Len(reported) <= N

\* What main reports is the golden sums, from whatever state of the memory the run
\* started and however often it was reset on the way: fir() itself only adds.
ReportsAreGolden == \A k \in 1..Len(reported) : reported[k] = Golden(k - 1)

\* fir() is only entered when all its code has been copied.
CodeInPlace == pc = "fir" => \A w \in Code : mprjram[w]

\* Unless it is reset for ever, the run reports all its words.
AllReported == <>[][~Reset]_vars => <>(Len(reported) = N)
=============================================================================
