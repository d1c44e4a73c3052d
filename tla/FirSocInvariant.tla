--------------------------- MODULE FirSocInvariant ---------------------------
(***************************************************************************)
(* The inductive invariant of FirSoc.  Nothing on the sample path waits    *)
(* for the engine, so that what keeps the parts in step is time: the       *)
(* invariant says, for each state of the bridge, how far the engine is,    *)
(* counted in the cycles since the program's last write.                   *)
(*                                                                         *)
(* A write to the engine is on the bus for two cycles, in which `since' is *)
(* 1 and 2; the bridge acts on it in the first and acknowledges it in the  *)
(* second.  What it forwards is on the engine's port one cycle later.      *)
(***************************************************************************)
EXTENDS FirSoc, FirInvariant

StartStep == Cpu!StartStep
LastStep  == Cpu!LastStep
DoneStep  == Cpu!DoneStep

Writing == bus.req /\ bus.we

-----------------------------------------------------------------------------
\* Where the program is.
Position ==
    /\ round = 0 => step < CodeLen /\ since = Cpu!MaxGap
    /\ round > 0 => step <= DoneStep
    /\ round > 1 => step >= StartStep
    /\ round > Rounds => round = Rounds + 1 /\ step = StartStep

\* What is on the bus, and what the bridge has made of it.  A write to the user RAM
\* is acknowledged by the bridge, too, again and again, but nobody hears it.
BusState ==
    /\ bus.region \in {"FIR", "MPRJRAM"}
    /\ Writing => round <= Rounds /\ bus = Cpu!Program
    /\ bus.req /\ ~bus.we =>
         round > 0 /\ bus.region = "MPRJRAM" /\ bus.off \in 0..(CodeLen - 1)
    /\ wbs_ack_r => bus.we /\ (bus.region = "FIR" => bus.req)
    /\ round > 0 /\ Writing => \/ since = 1 /\ ~wbs_ack_r
                               \/ since = 2 /\ wbs_ack_r /\ wbs_dat_r = bus.dat
    /\ round > 0 /\ ~Writing => since >= 3
    /\ wvalid_r = awvalid_r
    /\ ss_tvalid_r => round > 0 /\ Writing /\ since = 2
    /\ ss_tvalid_r \/ ss_tlast_r => wb_ps \in {"DATA", "DONE"}

\* The code has been copied up to the word being written, and the RAM answers an
\* access after it has been performed.
BramState ==
    /\ \A a \in 0..(CodeLen - 1) : round > 0 \/ a < step => bram[a] = Code[a]
    /\ ready => /\ bus.req /\ bus.region = "MPRJRAM"
                /\ bus.we  => bram[bus.off] = bus.dat
                /\ ~bus.we => rdata = Code[bus.off]

-----------------------------------------------------------------------------
\* The coefficients: forwarded by the bridge, taken by the engine, stored.
Forwarded == IF round = 0 THEN 0 ELSE step
Taken     == IF awvalid_r THEN Forwarded - 1 ELSE Forwarded
TapSettled(i) == IF tap_WE_r /\ tap_A_r = i THEN tap_Di_r ELSE tapRAM[i]

Loading ==
    /\ ps = "IDLE" /\ (round > 0 => step <= StartStep)
    /\ round > 0 => wready_r
    /\ awvalid_r => round = 1 /\ step > 0 /\ ~Writing /\ wdata_r = Taps[step - 1]
    /\ awaddr_r = 28 + 4 * Forwarded
    /\ tap_A_r = IF Taken = 0 THEN AddrSpace - 1 ELSE Taken - 1
    /\ tap_WE_r => tap_EN_r /\ Taken > 0
    /\ step = StartStep /\ Writing /\ round > 0 => since = 1
    /\ \A i \in Slot : i < Taken => TapSettled(i) = Taps[i]

Loaded == ~tap_WE_r /\ \A i \in Slot : tapRAM[i] = Taps[i]

\* A run is over; AP_START, when it comes, may still be on the bus in its second
\* cycle when the bridge has just left DONE.
Idling ==
    /\ ps = "IDLE" /\ step = StartStep
    /\ awaddr_r = 0 /\ ~awvalid_r

\* From AP_START on the bus to ap_start at the engine, before the first sample.
Launching ==
    /\ ps = "IDLE"
    /\ ~ss_tlast_r /\ ~TapWrite(Wires)
    /\ wb_ps = "AP_START" =>
         /\ ~ApStart(Wires)
         /\ \/ step = StartStep /\ Writing /\ since = 2
            \/ step = StartStep + 1 /\ ~Writing /\ since = 3
    /\ wb_ps = "DATA" =>
         /\ ApStart(Wires)
         /\ step = StartStep + 1
         /\ \/ ~Writing /\ since \in {3, 4}
            \/ Writing /\ since = 1

\* The samples accepted are those of the round.
SamplesOf(n) ==
    Len(xs) = n /\ \A k \in 1..n : xs[k] = Data[EngineRound][k - 1]

\* Samples are streamed.  A sample is accepted in the cycle in which its write ends,
\* and the engine is back in PEND before the next one is on its port.
Streaming ==
    /\ ps # "IDLE"
    /\ step \in (StartStep + 1)..DoneStep
    /\ SamplesOf(step - StartStep - 1)
    /\ ended <=> step = DoneStep
    /\ ~awvalid_r
    /\ Writing /\ since = 2 =>
         /\ ps = "PEND" /\ ss_tvalid_r /\ ss_tdata_r = bus.dat
         /\ ss_tlast_r <=> step = LastStep
    /\ ss_tlast_r => \/ Writing /\ since = 2
                     \/ ~Writing /\ since = 3 /\ step = DoneStep
    /\ ps = "START" => IF Writing THEN ended /\ cnt_r >= 1 ELSE since = 3 + cnt_r
    /\ ps = "DONE" /\ ~ended => IF Writing THEN since = 1 ELSE since = 4 + round_cnt_r
    /\ ps = "START" /\ (cnt_r = 0 \/ ~ended) => ss_tdata_r = xs[Len(xs)]
    /\ ps = "DONE" /\ ~ended => ss_tdata_r = xs[Len(xs)]
    /\ ps = "FINISH" => cnt_r = 0 /\ ~rvalid_r

\* The status is polled: the engine ends its last round, answers 2, then 4, and is
\* idle.  The next AP_START is on the bus when it answers 4 at the earliest.
Draining ==
    /\ ps # "PEND"
    /\ SamplesOf(DATALEN)
    /\ ~awvalid_r /\ awaddr_r = 0
    /\ \/ step = DoneStep /\ Writing /\ since = 2 /\ ps # "IDLE"
       \/ step = StartStep /\ round > 1 /\ (Writing => since = 1 /\ ps = "IDLE")
    /\ ss_tlast_r => step = DoneStep
    /\ arvalid_r <=> step = StartStep
    /\ ps # "IDLE" => ended
    /\ ps = "START" => since <= cnt_r /\ cnt_r > 0 /\ (rvalid_r => rdata_r = 0)
    /\ ps = "DONE"  => since <= round_cnt_r + 1 /\ (rvalid_r => rdata_r = 0)
    /\ ps = "FINISH" =>
         \/ cnt_r = 0 /\ ~rvalid_r /\ (arvalid_r => since <= TapNum + 1)
         \/ cnt_r = 0 /\ rvalid_r /\ rdata_r = 2 /\ since <= TapNum + 2
         \/ cnt_r = 1 /\ ~rvalid_r /\ since <= TapNum + 3
    /\ ps = "FINISH" /\ ~arvalid_r => cnt_r = 0 /\ ~rvalid_r
    /\ ps = "IDLE" => rvalid_r /\ rdata_r = 4 /\ Len(ys) = DATALEN

Phase ==
    /\ wb_ps = "TAP" /\ round <= 1 => Loading
    /\ wb_ps = "TAP" /\ round > 1 => Idling
    /\ wb_ps = "AP_START" => Launching
    /\ wb_ps = "DATA" => IF ps = "IDLE" THEN Launching ELSE Streaming
    /\ wb_ps = "DONE" => Draining
    /\ wb_ps # "TAP" \/ round > 1 => round > 0 /\ Loaded
    /\ wb_ps \in {"AP_START", "DATA"} => ~arvalid_r

SocInvariant ==
    Invariant /\ SocTypeOK /\ Position /\ BusState /\ BramState /\ Phase
=============================================================================
