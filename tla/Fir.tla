--------------------------------- MODULE Fir ---------------------------------
(***************************************************************************)
(* The FIR engine of rtl/user/fir.v with its coefficient and sample RAMs   *)
(* (the two lutram instances of user_project_wrapper.v), one step per      *)
(* clock edge.  The variables are the registers of the RTL under their     *)
(* source names; a clock edge is Clock(in), where the record "in" holds    *)
(* the values of the input ports sampled by the edge.                      *)
(*                                                                         *)
(* Data is symbolic.  A product of the multiplier is the pair              *)
(* <<coefficient, sample>> and the accumulator is the sequence of the      *)
(* products added since it was last cleared, so the sequence <<>> is the   *)
(* word 0 and two equal sequences are equal words for every wordlength.    *)
(* Every other register keeps its width: addresses have 12 bits, the       *)
(* counters and the ring pointer 4.                                        *)
(*                                                                         *)
(* The RTL writes the ring size 11 as the literal 10 in three places; here *)
(* it is TapNum (fir.v's Tape_Num), so small instances can be checked.     *)
(***************************************************************************)
EXTENDS LutRam, Sequences

CONSTANTS TapNum,   \* number of coefficients, and of slots of each RAM
          Word      \* the data words the bus can carry

ASSUME TapNumAssumption == TapNum \in 2..15
ASSUME WordAssumption == {0, 1, 2, 4} \subseteq Word

VARIABLES
    ps,                                       \* state of the control FSM
    wready_r,                                 \* AXI-Lite write ready
    tap_WE_r, tap_EN_r, tap_Di_r, tap_A_r,    \* coefficient RAM port
    data_WE_r, data_EN_r, data_Di_r, data_A_r,\* sample RAM port
    r_dataAddr_r,                             \* slot of the newest sample
    rvalid_r, rdata_r,                        \* AXI-Lite read response
    cnt_r, round_cnt_r,                       \* product counter and its limit
    temp_r, accumulater_r,                    \* multiplier and adder registers
    sm_tvalid_r, sm_tdata_r, sm_tlast_r,      \* AXI-Stream output
    last_r,                                   \* the last sample was announced
    tapRAM, tap_Do, dataRAM, data_Do          \* the RAMs, output registers

tapPort  == <<tap_WE_r, tap_EN_r, tap_Di_r, tap_A_r>>
dataPort == <<data_WE_r, data_EN_r, data_Di_r, data_A_r>>
ramVars  == <<tapRAM, tap_Do, dataRAM, data_Do>>
firVars  == <<ps, wready_r, tapPort, dataPort, r_dataAddr_r, rvalid_r, rdata_r,
              cnt_r, round_cnt_r, temp_r, accumulater_r,
              sm_tvalid_r, sm_tdata_r, sm_tlast_r, last_r, ramVars>>

-----------------------------------------------------------------------------
Slot     == 0..(TapNum - 1)
LastSlot == TapNum - 1
NoSlot   == 15                    \* 4'hf: no sample of this run is stored yet
AddrSpace == 4096                 \* pADDR_WIDTH = 12
Addr      == 0..(AddrSpace - 1)
FirWord  == Word \cup {X}
Product  == FirWord \X FirWord

\* What the input ports may carry on a clock edge.
Ports == [awvalid : BOOLEAN, awaddr : Addr, wvalid : BOOLEAN, wdata : Word,
          arvalid : BOOLEAN, araddr : Addr,
          ss_tvalid : BOOLEAN, ss_tdata : Word, ss_tlast : BOOLEAN]

CoefAddr(a)    == (a \div 16) % 16 \notin {0, 1}
ApStart(in)    == in.awvalid /\ in.awaddr = 0 /\ in.wvalid /\ in.wdata = 1
ReadBack(in)   == in.arvalid /\ CoefAddr(in.araddr)
TapWrite(in)   == in.awvalid /\ in.wvalid /\ CoefAddr(in.awaddr)
ReadStatus(in) == in.arvalid /\ in.araddr = 0
NewStatusRead(in) == ReadStatus(in) /\ ~rvalid_r

\* Faulty variants of the definitions below, which the properties must notice.
LateWrap        == IF data_A_r = 0 THEN TapNum ELSE (data_A_r - 1) % AddrSpace
LimitOneShort   == IF round_cnt_r = LastSlot - 1 THEN round_cnt_r ELSE (round_cnt_r + 1) % 16
CountStoredOnly == IF r_dataAddr_r = NoSlot THEN cnt_r ELSE (cnt_r + 1) % 16
AddEveryEdge    == IF r_dataAddr_r = NoSlot THEN accumulater_r
                   ELSE Append(accumulater_r, temp_r)

\* The ring: the slot after the newest, the address before the one just read.
NextSlot == IF r_dataAddr_r = LastSlot THEN 0 ELSE (r_dataAddr_r + 1) % 16
PrevAddr == IF data_A_r = 0 THEN LastSlot ELSE (data_A_r - 1) % AddrSpace

\* The counters: products of this round, and their limit, which stops growing
\* at the literal 10, one short of the number of coefficients.
RoundDone == cnt_r = round_cnt_r
NextCnt   == (cnt_r + 1) % 16
NextLimit == IF round_cnt_r = LastSlot THEN round_cnt_r ELSE (round_cnt_r + 1) % 16

\* The first product of a round is not ready on its first edge, and nothing is
\* added while no sample of the run is stored.
Accumulate == IF r_dataAddr_r = NoSlot \/ cnt_r = 0 THEN accumulater_r
              ELSE Append(accumulater_r, temp_r)

-----------------------------------------------------------------------------
\* Next values of groups of registers, used by the actions below.
TapPort(we, en, di, a) ==
    tap_WE_r' = we /\ tap_EN_r' = en /\ tap_Di_r' = di /\ tap_A_r' = a
DataPort(we, en, di, a) ==
    data_WE_r' = we /\ data_EN_r' = en /\ data_Di_r' = di /\ data_A_r' = a
RewindKeepsWE == TapPort(tap_WE_r, TRUE, tap_Di_r, 0)    \* faulty RewindTapPort
RewindTapPort == TapPort(FALSE, TRUE, tap_Di_r, 0)
Respond(d) == rvalid_r' = TRUE /\ rdata_r' = d
NoResponse == rvalid_r' = FALSE /\ rdata_r' = 0
StickyOutput == UNCHANGED <<sm_tvalid_r, sm_tlast_r, sm_tdata_r>>  \* faulty NoOutput
NoOutput   == sm_tvalid_r' = FALSE /\ sm_tlast_r' = FALSE /\ UNCHANGED sm_tdata_r

StickyLast(in) == in.ss_tlast \/ last_r                  \* faulty NextLast

\* The announcement of the last sample is kept until the engine is idle again.
NextLast(in) == in.ss_tlast \/ (last_r /\ ps # "IDLE")

\* The registers every edge loads in the same way, whatever the state.
EveryEdge(in) ==
    /\ tapRAM'   = RamStore(tapRAM, tap_EN_r, tap_WE_r, tap_A_r, tap_Di_r)
    /\ tap_Do'   = RamOut(tapRAM, tap_EN_r, tap_A_r)
    /\ dataRAM'  = RamStore(dataRAM, data_EN_r, data_WE_r, data_A_r, data_Di_r)
    /\ data_Do'  = RamOut(dataRAM, data_EN_r, data_A_r)
    /\ temp_r'   = <<tap_Do, IF cnt_r = 0 THEN in.ss_tdata ELSE data_Do>>
    /\ wready_r' = (ps = "IDLE")
    /\ last_r'   = NextLast(in)

-----------------------------------------------------------------------------
\* IDLE: coefficients are loaded and read back, ap_start begins a run.
InIdle(in) ==
    /\ ps = "IDLE"
    /\ EveryEdge(in)
    /\ IF cnt_r % 4 = 3 THEN Respond(tap_Do) ELSE NoResponse
    /\ cnt_r' = IF cnt_r % 4 = 3 \/ ApStart(in) THEN 0
                ELSE IF in.arvalid THEN (cnt_r + 1) % 4 ELSE cnt_r
    /\ NoOutput
    /\ UNCHANGED <<dataPort, r_dataAddr_r, round_cnt_r, accumulater_r>>

StartRun(in) ==
    /\ ApStart(in)
    /\ InIdle(in)
    /\ ps' = "PEND"
    /\ RewindTapPort

ReadCoefficient(in) ==
    /\ ReadBack(in) /\ ~ApStart(in)
    /\ InIdle(in)
    /\ ps' = "IDLE"
    /\ TapPort(FALSE, TRUE, tap_Di_r, (in.araddr - 32) % AddrSpace)

WriteCoefficient(in) ==
    /\ TapWrite(in) /\ ~ReadBack(in) /\ ~ApStart(in)
    /\ InIdle(in)
    /\ ps' = "IDLE"
    /\ TapPort(TRUE, TRUE, in.wdata, (tap_A_r + 1) % AddrSpace)

StayIdle(in) ==
    /\ ~TapWrite(in) /\ ~ReadBack(in) /\ ~ApStart(in)
    /\ InIdle(in)
    /\ ps' = "IDLE"
    /\ TapPort(FALSE, FALSE, tap_Di_r, tap_A_r)

-----------------------------------------------------------------------------
\* PEND: the newest stored sample is fetched while a new one is awaited.
InPend(in) ==
    /\ ps = "PEND"
    /\ EveryEdge(in)
    /\ DataPort(FALSE, TRUE, data_Di_r, r_dataAddr_r)
    /\ cnt_r' = 0
    /\ NoResponse
    /\ NoOutput
    /\ UNCHANGED <<tap_WE_r, tap_EN_r, tap_Di_r, r_dataAddr_r, round_cnt_r, accumulater_r>>

AcceptSample(in) ==
    /\ in.ss_tvalid
    /\ InPend(in)
    /\ ps' = "START"
    /\ tap_A_r' = (tap_A_r + 1) % AddrSpace

AwaitSample(in) ==
    /\ ~in.ss_tvalid
    /\ InPend(in)
    /\ UNCHANGED <<ps, tap_A_r>>

-----------------------------------------------------------------------------
\* START: one product per edge, adding the one the previous edge multiplied.
InStart(in) ==
    /\ ps = "START"
    /\ EveryEdge(in)
    /\ DataPort(FALSE, TRUE, data_Di_r, PrevAddr)
    /\ accumulater_r' = Accumulate
    /\ IF NewStatusRead(in) THEN Respond(0) ELSE NoResponse
    /\ NoOutput
    /\ UNCHANGED <<tap_WE_r, tap_EN_r, tap_Di_r, round_cnt_r>>

Multiply(in) ==
    /\ ~RoundDone
    /\ InStart(in)
    /\ cnt_r' = NextCnt
    /\ tap_A_r' = (tap_A_r + 1) % AddrSpace
    /\ UNCHANGED <<ps, r_dataAddr_r>>

\* Faulty EndRound: a round with nothing to add emits no sum.
SkipEmptySum(in) ==
    /\ RoundDone
    /\ InStart(in)
    /\ ps' = IF accumulater_r = <<>> THEN "PEND" ELSE "DONE"
    /\ cnt_r' = 0
    /\ tap_A_r' = 0
    /\ r_dataAddr_r' = NextSlot

EndRound(in) ==
    /\ RoundDone
    /\ InStart(in)
    /\ ps' = "DONE"
    /\ cnt_r' = 0
    /\ tap_A_r' = 0
    /\ r_dataAddr_r' = NextSlot

-----------------------------------------------------------------------------
\* DONE: the sum leaves on the stream and the sample is stored.
EmitSum(in) ==
    /\ ps = "DONE"
    /\ EveryEdge(in)
    /\ ps' = IF last_r THEN "FINISH" ELSE "PEND"
    /\ DataPort(TRUE, TRUE, in.ss_tdata, r_dataAddr_r)
    /\ cnt_r' = 0
    /\ round_cnt_r' = NextLimit
    /\ accumulater_r' = <<>>
    /\ sm_tvalid_r' = TRUE
    /\ sm_tdata_r' = accumulater_r
    /\ sm_tlast_r' = last_r
    /\ NoResponse
    /\ UNCHANGED <<tapPort, r_dataAddr_r>>

\* FINISH: the first status read returns 2, the second returns 4 and ends the run.
InFinish(in) ==
    /\ ps = "FINISH"
    /\ EveryEdge(in)
    /\ r_dataAddr_r' = NoSlot
    /\ round_cnt_r' = 1
    /\ cnt_r' = IF ReadStatus(in) /\ rvalid_r THEN NextCnt ELSE cnt_r
    /\ NoOutput
    /\ UNCHANGED <<tapPort, dataPort, accumulater_r>>

AwaitStatusRead(in) ==
    /\ ~NewStatusRead(in)
    /\ InFinish(in)
    /\ NoResponse
    /\ UNCHANGED ps

ReportFinishing(in) ==
    /\ NewStatusRead(in) /\ cnt_r # 1
    /\ InFinish(in)
    /\ Respond(2)
    /\ UNCHANGED ps

ReportDone(in) ==
    /\ NewStatusRead(in) /\ cnt_r = 1
    /\ InFinish(in)
    /\ Respond(4)
    /\ ps' = "IDLE"

-----------------------------------------------------------------------------
Clock(in) ==
    \/ StartRun(in) \/ ReadCoefficient(in) \/ WriteCoefficient(in) \/ StayIdle(in)
    \/ AcceptSample(in) \/ AwaitSample(in)
    \/ Multiply(in) \/ EndRound(in)
    \/ EmitSum(in)
    \/ AwaitStatusRead(in) \/ ReportFinishing(in) \/ ReportDone(in)

\* Reset clears the registers but not the arrays of the RAMs; their output
\* registers are cleared by the edges under reset, when the ports are disabled.
FirReset ==
    /\ ps' = "IDLE" /\ wready_r' = FALSE /\ last_r' = FALSE
    /\ TapPort(FALSE, FALSE, 0, AddrSpace - 1)
    /\ DataPort(FALSE, FALSE, 0, AddrSpace - 1)
    /\ r_dataAddr_r' = NoSlot
    /\ NoResponse
    /\ cnt_r' = 0 /\ round_cnt_r' = 1
    /\ temp_r' = <<0, 0>> /\ accumulater_r' = <<>>
    /\ sm_tvalid_r' = FALSE /\ sm_tlast_r' = FALSE /\ sm_tdata_r' = <<>>
    /\ tap_Do' = 0 /\ data_Do' = 0
    /\ UNCHANGED <<tapRAM, dataRAM>>

\* Power-up: every register reset, no RAM word written yet.
PowerUp ==
    /\ ps = "IDLE" /\ wready_r = FALSE /\ last_r = FALSE
    /\ tap_WE_r = FALSE /\ tap_EN_r = FALSE /\ tap_Di_r = 0 /\ tap_A_r = AddrSpace - 1
    /\ data_WE_r = FALSE /\ data_EN_r = FALSE /\ data_Di_r = 0 /\ data_A_r = AddrSpace - 1
    /\ r_dataAddr_r = NoSlot
    /\ rvalid_r = FALSE /\ rdata_r = 0
    /\ cnt_r = 0 /\ round_cnt_r = 1
    /\ temp_r = <<0, 0>> /\ accumulater_r = <<>>
    /\ sm_tvalid_r = FALSE /\ sm_tlast_r = FALSE /\ sm_tdata_r = <<>>
    /\ tap_Do = 0 /\ data_Do = 0
    /\ tapRAM = [s \in Slot |-> X] /\ dataRAM = [s \in Slot |-> X]
=============================================================================
