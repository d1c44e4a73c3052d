------------------------------ MODULE Firmware ------------------------------
(***************************************************************************)
(* The processor as the user project sees it: the Wishbone requests of     *)
(* firmware/crt0_vex.S (sram_loop copies the code into the user RAM) and   *)
(* of the program testbench/counter_la_fir (fir.c's fir_tap and fir_data,  *)
(* called by main), with instruction fetches from the user RAM between.    *)
(*                                                                         *)
(* The program is a sequence of writes, named by <<round, step>>: round 0  *)
(* copies the code; round 1 writes the coefficients first; every round     *)
(* then writes AP_START, the samples, the last one at the next address,    *)
(* and FIR_DATA_DONE there too.  How many cycles lie between two writes    *)
(* depends on the instructions between them: the write of one sample comes *)
(* at least StreamGap cycles after that of the sample before, AP_START at  *)
(* least RestartGap cycles after FIR_DATA_DONE, and any other write as     *)
(* soon as the bus is free.  The data bus of VexRiscv drops its request    *)
(* for one cycle after every acknowledgement and leaves the address as it  *)
(* was; the arbiter of mgmt_core.v lets the instruction bus in after that. *)
(***************************************************************************)
EXTENDS Integers

CONSTANTS
    NTaps,             \* fir.h's N
    DATALEN,           \* samples per round
    Rounds,            \* calls of fir_data in main
    CodeLen,           \* words of the .mprjram section
    Code, Taps, Data,  \* the words written: Code[a], Taps[i], Data[round][i]
    AP_START, FIR_DATA_DONE,
    StreamGap, RestartGap,
    MaxFetches         \* bound on the fetches between two writes

VARIABLES
    round, step,       \* the write the program has to make next, or is making
    bus,               \* the request on the Wishbone bus
    since,             \* cycles since the last write to the FIR began
    fetches            \* fetches since the last write

cpuVars == <<round, step, bus, since, fetches>>

NoRequest == [req |-> FALSE, we |-> FALSE, region |-> "FIR", off |-> 0, dat |-> 0]
Write(r, o, d) == [req |-> TRUE, we |-> TRUE, region |-> r, off |-> o, dat |-> d]
Fetch(o) == [req |-> TRUE, we |-> FALSE, region |-> "MPRJRAM", off |-> o, dat |-> 0]

StartStep == NTaps                    \* the step that writes AP_START
LastStep  == NTaps + DATALEN          \* the step that writes the last sample
DoneStep  == LastStep + 1             \* the step that writes FIR_DATA_DONE
Finished  == round > Rounds

Program ==
    CASE round = 0                           -> Write("MPRJRAM", step, Code[step])
      [] round > 0 /\ step < StartStep       -> Write("FIR", 0, Taps[step])
      [] round > 0 /\ step = StartStep       -> Write("FIR", 0, AP_START)
      [] round > 0 /\ step \in (StartStep + 1)..(LastStep - 1)
                                             -> Write("FIR", 0, Data[round][step - StartStep - 1])
      [] round > 0 /\ step = LastStep        -> Write("FIR", 4, Data[round][DATALEN - 1])
      [] round > 0 /\ step = DoneStep        -> Write("FIR", 4, FIR_DATA_DONE)

\* The earliest cycle, counted from the write before, of the next write.
Gap == CASE round > 1 /\ step = StartStep          -> RestartGap
         [] step \in (StartStep + 2)..LastStep     -> StreamGap
         [] OTHER                                  -> 0

MaxGap == IF StreamGap > RestartGap THEN StreamGap ELSE RestartGap

\* The write that follows <<round, step>>.
Advance ==
    IF round = 0 /\ step < CodeLen - 1 THEN round' = 0 /\ step' = step + 1
    ELSE IF round = 0 THEN round' = 1 /\ step' = 0
    ELSE IF step = DoneStep THEN round' = round + 1 /\ step' = StartStep
    ELSE round' = round /\ step' = step + 1

Elapse == since' = IF since < MaxGap THEN since + 1 ELSE since

\* The bus is free when it is idle, and for a fetch right after another fetch.
Free(ack) == ~bus.req \/ (ack /\ ~bus.we)

Think(ack) ==
    /\ Free(ack)
    /\ bus' = NoRequest
    /\ Elapse
    /\ UNCHANGED <<round, step, fetches>>

FetchCode(ack) ==
    /\ Free(ack) /\ round > 0 /\ fetches < MaxFetches
    /\ \E o \in 0..(CodeLen - 1) : bus' = Fetch(o)
    /\ fetches' = fetches + 1
    /\ Elapse
    /\ UNCHANGED <<round, step>>

IssueWrite(ack) ==
    /\ Free(ack) /\ ~Finished /\ since >= Gap
    /\ bus' = Program
    /\ since' = IF round = 0 THEN since ELSE 1
    /\ fetches' = 0
    /\ UNCHANGED <<round, step>>

Hold(ack) ==
    /\ bus.req /\ ~ack
    /\ Elapse
    /\ UNCHANGED <<round, step, bus, fetches>>

\* The acknowledgement of a write withdraws it and moves the program on.
WriteDone(ack) ==
    /\ bus.req /\ ack /\ bus.we
    /\ Advance
    /\ bus' = [bus EXCEPT !.req = FALSE]
    /\ Elapse
    /\ UNCHANGED fetches

CpuClock(ack) ==
    Think(ack) \/ FetchCode(ack) \/ IssueWrite(ack) \/ Hold(ack) \/ WriteDone(ack)

CpuInit == round = 0 /\ step = 0 /\ bus = NoRequest /\ since = MaxGap /\ fetches = 0

CpuReset == round' = 0 /\ step' = 0 /\ bus' = NoRequest /\ since' = MaxGap /\ fetches' = 0
=============================================================================
