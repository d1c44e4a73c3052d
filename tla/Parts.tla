-------------------------------- MODULE Parts --------------------------------
(***************************************************************************)
(* Six parts of the system that share no state: the array accesses of      *)
(* hw/common.h, the performance counters, the console, the start-up code,  *)
(* the golden generator and the bus fabric.  A behaviour is one part's,    *)
(* chosen in the initial state; the variables of the others rest.          *)
(***************************************************************************)
EXTENDS Integers, Sequences

CONSTANTS
    MaxCount, ElementSizes,                  \* CsrArray
    LastCounter, W, Starts,                  \* PerfCounters
    Depth, CharBits, NL, CR, Texts,          \* Uart
    N, CodeLen, Taps, Input, Junk,           \* StartUp
    GoldenN, GoldenTaps, DATALEN, Beyond,    \* GoldenData
    Masters, Beats, Lanes, TimeOut, Asked,   \* BusFabric
    None                                     \* no access on the bus

VARIABLES
    part,                                                       \* whose behaviour it is
    op, size, cnt, csr, buf, a_i, a_k, a_v, a_pc,               \* CsrArray
    p_count, inhibit, p_pc, reset, counted,                     \* PerfCounters
    text, u_p, crDone, u_pc, storage, produce, consume, level,  \* Uart
    dout, readable, busy, u_count, u_data, line, received, bits,
    mprjram, taps, inputsignal, outputsignal, s_pc, s_a, s_i, s_j, reported,   \* StartUp
    g_i, g_j, num, g_data, beyond, lines,                       \* GoldenData
    req, left, grant, b_count, ack, wbbd_state, lane, asker, orphan            \* BusFabric

Arrays   == INSTANCE CsrArray WITH i <- a_i, k <- a_k, v <- a_v, pc <- a_pc
Counters == INSTANCE PerfCounters WITH count <- p_count, pc <- p_pc
Console  == INSTANCE Uart WITH p <- u_p, pc <- u_pc, count <- u_count, data <- u_data
StartUp  == INSTANCE StartUp WITH pc <- s_pc, a <- s_a, i <- s_i, j <- s_j
Golden   == INSTANCE GoldenData WITH
                N <- GoldenN, Taps <- GoldenTaps, i <- g_i, j <- g_j, data <- g_data
Bus      == INSTANCE BusFabric WITH count <- b_count

ASSUME PartsAssumption ==
    /\ Arrays!ArrayAssumption /\ Counters!CounterAssumption /\ Console!UartAssumption
    /\ StartUp!StartUpAssumption /\ Golden!GoldenAssumption /\ Bus!FabricAssumption

arrays   == <<op, size, cnt, csr, buf, a_i, a_k, a_v, a_pc>>
counters == <<p_count, inhibit, p_pc, reset, counted>>
console  == <<text, u_p, crDone, u_pc, storage, produce, consume, level, dout, readable,
              busy, u_count, u_data, line, received, bits>>
startUp  == <<mprjram, taps, inputsignal, outputsignal, s_pc, s_a, s_i, s_j, reported>>
golden   == <<g_i, g_j, num, g_data, beyond, lines>>
bus      == <<req, left, grant, b_count, ack, wbbd_state, lane, asker, orphan>>
vars     == <<part, arrays, counters, console, startUp, golden, bus>>

-----------------------------------------------------------------------------
Init ==
    /\ part \in {"arrays", "counters", "console", "start-up", "golden", "bus"}
    /\ Arrays!Init /\ Counters!Init /\ Console!Init
    /\ StartUp!Init /\ Golden!Init /\ Bus!Init

\* A step of one part: the others rest.
ArraysStep(A)   == part = "arrays" /\ A /\ UNCHANGED <<part, counters, console, startUp, golden, bus>>
CountersStep(A) == part = "counters" /\ A /\ UNCHANGED <<part, arrays, console, startUp, golden, bus>>
ConsoleStep(A)  == part = "console" /\ A /\ UNCHANGED <<part, arrays, counters, startUp, golden, bus>>
StartUpStep(A)  == part = "start-up" /\ A /\ UNCHANGED <<part, arrays, counters, console, golden, bus>>
GoldenStep(A)   == part = "golden" /\ A /\ UNCHANGED <<part, arrays, counters, console, startUp, bus>>
BusStep(A)      == part = "bus" /\ A /\ UNCHANGED <<part, arrays, counters, console, startUp, golden>>

\* The call is over, the file is written.
Over == (a_pc = "done" \/ g_i = DATALEN) /\ UNCHANGED vars

Next ==
    \/ ArraysStep(Arrays!Next)
    \/ CountersStep(Counters!Next)
    \/ ConsoleStep(Console!Next)
    \/ StartUpStep(StartUp!Next)
    \/ GoldenStep(Golden!Next)
    \/ BusStep(Bus!FabricClock)
    \/ Over

\* The clocks run, the baud-rate generator ticks, and the program goes on.
Fairness ==
    /\ WF_vars(ConsoleStep(Console!Next)) /\ WF_vars(ConsoleStep(Console!Ticking))
    /\ WF_vars(ConsoleStep(Console!MainStep))
    /\ WF_vars(StartUpStep(StartUp!Next /\ ~StartUp!Reset))
    /\ WF_vars(BusStep(Bus!FabricClock))

Spec == Init /\ [][Next]_vars /\ Fairness

-----------------------------------------------------------------------------
(* The properties of the parts; each invariant includes the ranges of its  *)
(* part's variables.                                                       *)

\* A value of several words is the same number in the register, as its bank reads it, and
\* in the array; only the register's own words are written, and all of them are read.
ArraysAreCopied == Arrays!TypeOK /\ Arrays!SameNumber /\ Arrays!StaysInside

\* After pcount_reset a counter holds what it has counted since.
ResetMeansZero == Counters!TypeOK /\ Counters!ResetMeansZero

\* The line carries the text, nothing lost, doubled or torn ...
LineCarriesText == Console!TypeOK /\ Console!LineCarriesText

\* ... and all of it in the end.
AllPrinted == Console!AllPrinted

\* The sums main reports are right from any memory contents and after any reset; fir()
\* is only entered when all its code has been copied.
ReportsAreGolden == StartUp!TypeOK /\ StartUp!ReportsAreGolden /\ StartUp!CodeInPlace

\* A run that is not reset for ever reports all its words.
AllReported == part = "start-up" => StartUp!AllReported

\* The golden generator writes the sums of the filter.
LinesAreSums == Golden!TypeOK /\ Golden!LinesAreSums

\* Every acknowledgement ends the access it was given for.
AnswersBelong == Bus!TypeOK /\ Bus!AnswersBelong

\* No access waits for ever.
AccessesEnd == Bus!AccessesEnd
=============================================================================
