------------------------------ MODULE FirStream ------------------------------
(***************************************************************************)
(* The FIR engine driven by a well-behaved bus master.                     *)
(*                                                                         *)
(* fir.v raises ss_tready only in DONE and never waits for it: it reads    *)
(* ss_tdata when the sample is accepted (the first product) and a second   *)
(* time when the sum is emitted (the word stored in the ring).  Master(in) *)
(* is what the engine therefore needs of the module that drives its ports; *)
(* FirSoc checks that wb2axi.v and the firmware meet it.  xs, ys and ended *)
(* are observers: the samples accepted and the sums emitted in this run,   *)
(* and whether its last sample was announced.                              *)
(***************************************************************************)
EXTENDS Fir

CONSTANTS Inputs,   \* the port values the master may drive
          MaxLen,   \* bound on the samples of one run
          MaxTapA   \* bound on the coefficient address a master writes

ASSUME InputsAssumption == Inputs \subseteq Ports
ASSUME BoundsAssumption == MaxLen \in Nat /\ MaxTapA \in Addr

VARIABLES xs, ys, ended

streamVars == <<firVars, xs, ys, ended>>

Min2(a, b) == IF a < b THEN a ELSE b

\* The sample on the stream when it was last accepted stays on ss_tdata while
\* the engine still reads it.
HoldsSample(in) ==
    /\ ps = "START" /\ cnt_r = 0  => in.ss_tdata = xs[Len(xs)]
    /\ ps = "DONE" /\ ~ended      => in.ss_tdata = xs[Len(xs)]

\* No sample is offered while the engine cannot take it (other than leftovers
\* after the last one), and the last one is announced together with its data.
NoOverrun(in)  == in.ss_tvalid => ps = "PEND" \/ ended
LastOnTime(in) == in.ss_tlast => \/ ps = "PEND" /\ in.ss_tvalid
                                 \/ ps # "IDLE" /\ ended

Master(in) == HoldsSample(in) /\ NoOverrun(in) /\ LastOnTime(in)

\* The bounds; within them the master may always offer nothing.
Bounded(in) ==
    /\ ps = "PEND" /\ in.ss_tvalid => Len(xs) < MaxLen
    /\ ps = "IDLE" /\ TapWrite(in) => (tap_A_r + 1) % AddrSpace <= MaxTapA

Observe(in) ==
    /\ xs' = CASE ps = "IDLE" /\ ApStart(in)   -> <<>>
               [] ps = "PEND" /\ in.ss_tvalid  -> Append(xs, in.ss_tdata)
               [] OTHER                        -> xs
    /\ ys' = CASE ps = "IDLE" /\ ApStart(in)   -> <<>>
               [] sm_tvalid_r'                 -> Append(ys, sm_tdata_r')
               [] OTHER                        -> ys
    /\ ended' = IF ps = "IDLE" /\ ApStart(in) THEN FALSE ELSE ended \/ in.ss_tlast

StreamInit == PowerUp /\ xs = <<>> /\ ys = <<>> /\ ended = FALSE

Tick == \E in \in Inputs : Master(in) /\ Bounded(in) /\ Clock(in) /\ Observe(in)

Reset == FirReset /\ xs' = <<>> /\ ys' = <<>> /\ ended' = FALSE

StreamNext == Tick \/ Reset

StreamSpec == StreamInit /\ [][StreamNext]_streamVars

\* The clock never stops.
FairStreamSpec == StreamSpec /\ WF_streamVars(Tick)

-----------------------------------------------------------------------------
TypeOK ==
    /\ ps \in {"IDLE", "START", "DONE", "PEND", "FINISH"}
    /\ wready_r \in BOOLEAN /\ last_r \in BOOLEAN
    /\ tap_WE_r \in BOOLEAN /\ tap_EN_r \in BOOLEAN
    /\ tap_Di_r \in Word /\ tap_A_r \in Addr
    /\ data_WE_r \in BOOLEAN /\ data_EN_r \in BOOLEAN
    /\ data_Di_r \in Word /\ data_A_r \in Addr
    /\ r_dataAddr_r \in Slot \cup {NoSlot}
    /\ rvalid_r \in BOOLEAN /\ rdata_r \in FirWord
    /\ cnt_r \in 0..15 /\ round_cnt_r \in 1..LastSlot
    /\ temp_r \in Product
    /\ accumulater_r \in Seq(Product) /\ sm_tdata_r \in Seq(Product)
    /\ sm_tvalid_r \in BOOLEAN /\ sm_tlast_r \in BOOLEAN
    /\ tapRAM \in [Slot -> FirWord] /\ dataRAM \in [Slot -> FirWord]
    /\ tap_Do \in FirWord /\ data_Do \in FirWord
    /\ xs \in Seq(Word) /\ ys \in Seq(Seq(Product)) /\ ended \in BOOLEAN

\* The products of the k-th sum as the engine delivers it: the k newest
\* samples under coefficients 0, 1, ..., at most TapNum - 1 of them, and none
\* for the first sample of a run (fir.v:383 skips it, fir.v:339 stops early).
Delivered(k) ==
    IF k = 1 THEN <<>>
    ELSE [i \in 1..Min2(k, LastSlot) |-> <<tapRAM[i - 1], xs[k - i + 1]>>]

\* Every sum emitted in a run is the convolution of the coefficients in the
\* RAM with the samples of this run, newest first: the ring of stored samples
\* never hands the multiplier a stale, overwritten or unwritten word, nor one
\* of an earlier run, and no product is added twice or out of step.
OutputsDelivered ==
    ps # "IDLE" => \A k \in 1..Len(ys) : ys[k] = Delivered(k)

\* Exactly one sum leaves for every sample accepted, before the next is taken.
OneOutputPerSample ==
    ps # "IDLE" => Len(ys) = Len(xs) - (IF ps \in {"START", "DONE"} THEN 1 ELSE 0)

\* sm_tlast marks the sum of the sample that was announced as the last, and no
\* other: the testbench restarts its comparison with the golden file on it.
LastMarksEnd ==
    /\ sm_tlast_r => sm_tvalid_r
    /\ sm_tvalid_r => (sm_tlast_r <=> ended)
    /\ ps = "FINISH" => ended

\* The coefficients do not change during a run: a write still in the RAM's
\* port registers when ap_start arrives, or writes that arrive later, are
\* either complete before the first product or never performed.
CoefficientsFrozen == [][ps # "IDLE" => tapRAM' = tapRAM]_streamVars

\* A sample accepted is always answered: no round runs forever (unless reset).
RoundsEnd == ps = "START" ~> (sm_tvalid_r \/ ps = "IDLE")
=============================================================================
