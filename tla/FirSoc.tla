------------------------------- MODULE FirSoc -------------------------------
(***************************************************************************)
(* The user project of rtl/user/user_project_wrapper.v and the firmware    *)
(* that uses it: the FIR engine (Fir), the bridge (Wb2Axi) and the user    *)
(* RAM (UserBram) share one clock, and the processor (Firmware) sees the   *)
(* acknowledgement the wrapper selects.  Every step is one clock edge of   *)
(* all of them, each reading the registers of the others as they were      *)
(* before the edge, or a reset of all of them.                             *)
(***************************************************************************)
EXTENDS FirStream

CONSTANTS TAP_DONE, DATA_DONE,                       \* wb2axi.v
          DELAYS, BramAddr,                          \* user_proj_example
          DATALEN, Rounds, CodeLen, Code, Taps, Data,\* the program
          StreamGap, RestartGap, MaxFetches,
          MaxResets                                  \* bound on the resets

ASSUME HardwareAssumption ==
    /\ TAP_DONE # DATA_DONE
    /\ DELAYS \in Nat
ASSUME ProgramAssumption ==
    /\ {DATALEN, Rounds, CodeLen, StreamGap, RestartGap, MaxFetches, MaxResets} \subseteq Nat
    /\ DATALEN > 0 /\ Rounds > 0 /\ CodeLen > 0
    \* A word of the program that equals a command would be taken for one.
    /\ {TAP_DONE, DATA_DONE} \cap
         ({Code[a] : a \in 0..(CodeLen - 1)} \cup {Taps[i] : i \in Slot}
            \cup UNION {{Data[r][i] : i \in 0..(DATALEN - 1)} : r \in 1..Rounds}) = {}
    /\ {TAP_DONE, DATA_DONE} \subseteq Word
    /\ Code \in [0..(CodeLen - 1) -> Word] /\ 0..(CodeLen - 1) \subseteq BramAddr
    /\ Taps \in [Slot -> Word]
    /\ Data \in [1..Rounds -> [0..(DATALEN - 1) -> Word]]
\* The distances the program keeps between its writes: the engine needs TapNum + 2
\* cycles for a sample, and engine and bridge TapNum + 3 to end a run.
ASSUME GapAssumption == StreamGap >= TapNum + 2 /\ RestartGap >= TapNum + 3

VARIABLES
    wb_ps, wbs_ack_r, wbs_dat_r,                       \* wb2axi
    awvalid_r, awaddr_r, wvalid_r, wdata_r, arvalid_r,
    ss_tvalid_r, ss_tdata_r, ss_tlast_r,
    ready, delayed_count, bram, rdata,                 \* user_proj_example
    round, step, bus, since, fetches,                  \* the processor
    resets

Bridge == INSTANCE Wb2Axi WITH ps <- wb_ps
Bram   == INSTANCE UserBram
Cpu    == INSTANCE Firmware WITH NTaps <- TapNum, AP_START <- TAP_DONE,
                                 FIR_DATA_DONE <- DATA_DONE

socVars == <<streamVars, Bridge!bridgeVars, Bram!bramVars, Cpu!cpuVars, resets>>

\* The wires of the wrapper: the engine's inputs come from the bridge, and the
\* acknowledgement and the data of the slave the address selects go back.
Wires == [awvalid |-> awvalid_r, awaddr |-> awaddr_r, wvalid |-> wvalid_r,
          wdata |-> wdata_r, arvalid |-> arvalid_r, araddr |-> 0,
          ss_tvalid |-> ss_tvalid_r, ss_tdata |-> ss_tdata_r, ss_tlast |-> ss_tlast_r]

wbs_ack_o == IF bus.region = "FIR" THEN wbs_ack_r ELSE ready
wbs_dat_o == IF bus.region = "FIR" THEN wbs_dat_r ELSE rdata

SocInit ==
    /\ StreamInit
    /\ Bridge!BridgeInit /\ Bram!BramInit /\ Cpu!CpuInit
    /\ resets = 0

Hardware ==
    /\ Clock(Wires) /\ Observe(Wires)
    /\ Bridge!BridgeClock(bus, wready_r, rvalid_r, rdata_r)
    /\ Bram!BramClock(bus)
    /\ UNCHANGED resets

SocTick  == Hardware /\ Cpu!CpuClock(wbs_ack_o)

\* The processor reaches the next write of the program.
SocIssue == Hardware /\ Cpu!IssueWrite(wbs_ack_o)

SocReset ==
    /\ resets < MaxResets
    /\ resets' = resets + 1
    /\ Reset
    /\ Bridge!BridgeReset /\ Bram!BramReset(bus) /\ Cpu!CpuReset

SocNext == SocTick \/ SocReset

SocSpec == SocInit /\ [][SocNext]_socVars

\* The clock runs, and the processor executes the program: fetches, which
\* MaxFetches bounds, do not keep it from the next write for ever.
FairSocSpec == SocSpec /\ WF_socVars(SocTick) /\ WF_socVars(SocIssue)

-----------------------------------------------------------------------------
SocTypeOK ==
    /\ TypeOK
    /\ wb_ps \in {"TAP", "AP_START", "DATA", "DONE"}
    /\ Wires \in Ports
    /\ wbs_ack_r \in BOOLEAN /\ wbs_dat_r \in Word
    /\ ready \in BOOLEAN /\ delayed_count \in 0..DELAYS
    /\ bram \in [BramAddr -> FirWord] /\ rdata \in FirWord
    /\ round \in 0..(Rounds + 1) /\ step \in 0..(Cpu!DoneStep + CodeLen)
    /\ bus.req \in BOOLEAN /\ bus.we \in BOOLEAN /\ bus.dat \in Word
    /\ since \in 0..Cpu!MaxGap /\ fetches \in 0..MaxFetches
    /\ resets \in 0..MaxResets

\* The bridge and the firmware are a master as FirStream needs one: no sample
\* is offered to a busy engine and ss_tdata is held while it is read, although
\* nothing but the pace of the firmware sees to it.  Every clock step of
\* FirSoc is therefore a step of FirStream.
MasterObeyed == Master(Wires)

\* The round whose samples the engine is processing.
EngineRound == IF step = Cpu!StartStep THEN round - 1 ELSE round

\* Every variable keeps its range, and what the engine has accepted is what the
\* firmware wrote, in order, with no sample lost, duplicated, or taken from a
\* command word; the coefficients are those the firmware wrote, at their indices.
SamplesArrive ==
    ps # "IDLE" =>
        /\ Len(xs) <= DATALEN
        /\ \A k \in 1..Len(xs) : xs[k] = Data[EngineRound][k - 1]
CoefficientsArrive ==
    ps # "IDLE" => \A i \in Slot : tapRAM[i] = Taps[i]
WordsArrive == SocTypeOK /\ SamplesArrive /\ CoefficientsArrive

\* When sm_tlast leaves the engine, the run's sums are complete: one for each
\* sample of the round, each the convolution the engine computes.
RunComplete ==
    sm_tlast_r =>
        /\ Len(ys) = DATALEN
        /\ \A k \in 2..DATALEN :
             ys[k] = [i \in 1..Min2(k, LastSlot) |->
                        <<Taps[i - 1], Data[EngineRound][k - i]>>]

\* The bridge's state follows the program, which cannot read it: no AP_START is
\* written while the bridge still polls, so every word meant as a coefficient
\* is taken as one, and every word meant as a sample too.
BridgeFollowsProgram ==
    /\ round > 0 /\ step \in (Cpu!StartStep + 1)..Cpu!LastStep => wb_ps \in {"AP_START", "DATA"}
    /\ round > 0 /\ step < Cpu!StartStep => wb_ps = "TAP"

\* The bridge leaves DONE when the run is over, not on some other word with the
\* value of the final status: all sums of the round have left the engine.
BridgeReleasedAfterRun ==
    [][wb_ps = "DONE" /\ wb_ps' = "TAP" /\ resets' = resets
         => ps = "IDLE" /\ Len(ys) = DATALEN]_socVars

\* A fetch returns the code word the boot loop copied: writes to the user RAM
\* and to the engine never reach the other slave, whose answer the wrapper hides.
FetchesReturnCode ==
    bus.req /\ ~bus.we /\ wbs_ack_o => wbs_dat_o = Code[bus.off]

\* What the golden file of patternGenerate/PatternGenerater.c (l.26-33) holds
\* for the k-th sum: all TapNum coefficients, the first sample included.  Words
\* that are zero contribute nothing and are left out on both sides; the products
\* that are left stand at the same places, the newest sample's first.
Significant(sum) ==
    {<<i, sum[i]>> : i \in {j \in DOMAIN sum : sum[j][1] # 0 /\ sum[j][2] # 0}}
Golden(k) == [i \in 1..Min2(k, TapNum) |-> <<Taps[i - 1], Data[EngineRound][k - i]>>]

\* The sums of a run are those of the golden file the testbench compares with.
MatchesGolden ==
    sm_tlast_r => \A k \in 1..DATALEN : Significant(ys[k]) = Significant(Golden(k))

\* The program ends, every round's sums have left, and engine and bridge are
\* idle again.
AllRunsEnd == <>(Cpu!Finished /\ ps = "IDLE" /\ wb_ps = "TAP")

=============================================================================
