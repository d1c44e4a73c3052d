---------------------------- MODULE FirInvariant ----------------------------
(***************************************************************************)
(* The inductive invariant of FirStream: what the registers of fir.v hold  *)
(* in each state of its FSM, in terms of the samples accepted in this run. *)
(* OutputsDelivered, OneOutputPerSample and LastMarksEnd follow from it;   *)
(* FirProof shows that every step preserves it.                            *)
(*                                                                         *)
(* The heart of it is the ring.  The sample d positions before the newest  *)
(* is in the slot Back(r_dataAddr_r, d), and the RAM port, the RAM's       *)
(* output register, the multiplier and the accumulator are the stages of   *)
(* one pipeline walking down from the newest sample.                       *)
(***************************************************************************)
EXTENDS FirStream

Accepted == Len(xs)

\* The slot d places before slot p, and what it holds once the port's pending
\* write has been performed.
Back(p, d) == IF d <= p THEN p - d ELSE p - d + TapNum
Settled(s) == IF data_WE_r /\ data_A_r = s THEN data_Di_r ELSE dataRAM[s]

\* The product of coefficient i with the sample i positions before the newest.
Prod(i) == <<tapRAM[i], xs[Accepted - i]>>

\* The accumulator holds the first m products.
Holds(m) == /\ Len(accumulater_r) = m
            /\ \A i \in 1..m : accumulater_r[i] = Prod(i - 1)

\* Every state of a run.
Running ==
    /\ ~tap_WE_r /\ tap_EN_r
    /\ last_r <=> ended
    /\ Len(ys) <= Accepted
    /\ OutputsDelivered

IdleState ==
    r_dataAddr_r = NoSlot /\ round_cnt_r = 1 /\ accumulater_r = <<>>

PendState ==
    /\ Len(ys) = Accepted /\ ~ended
    /\ cnt_r = 0 /\ tap_A_r = 0 /\ accumulater_r = <<>>
    /\ round_cnt_r = Min2(Accepted + 1, LastSlot)
    /\ Accepted = 0 <=> r_dataAddr_r = NoSlot
    /\ \A d \in Slot : d < Accepted => Settled(Back(r_dataAddr_r, d)) = xs[Accepted - d]

StartState ==
    /\ Len(ys) + 1 = Accepted
    /\ round_cnt_r = Min2(Accepted, LastSlot) /\ cnt_r <= round_cnt_r
    /\ Accepted = 1 <=> r_dataAddr_r = NoSlot
    /\ ~data_WE_r /\ data_EN_r
    /\ \A d \in Slot : d < Accepted - 1 => dataRAM[Back(r_dataAddr_r, d)] = xs[Accepted - 1 - d]

\* The stages of the pipeline, in a round with stored samples.
Pipeline ==
    /\ data_A_r = Back(r_dataAddr_r, cnt_r)
    /\ cnt_r \in 1..(Accepted - 1) => data_Do = xs[Accepted - cnt_r]
    /\ cnt_r > 0 => temp_r = Prod(cnt_r - 1)
    /\ Holds(IF cnt_r = 0 THEN 0 ELSE cnt_r - 1)

TapPipeline == tap_A_r = cnt_r + 1 /\ tap_Do = tapRAM[cnt_r]

DoneState ==
    /\ Len(ys) + 1 = Accepted
    /\ cnt_r = 0 /\ tap_A_r = 0
    /\ accumulater_r = Delivered(Accepted)
    /\ round_cnt_r = Min2(Accepted, LastSlot)
    /\ r_dataAddr_r \in Slot /\ ~data_WE_r
    /\ \A d \in Slot : d > 0 /\ d < Accepted =>
         dataRAM[Back(r_dataAddr_r, d)] = xs[Accepted - d]

FinishState == Len(ys) = Accepted /\ accumulater_r = <<>> /\ ended

\* The output port.
PortState ==
    /\ sm_tlast_r => sm_tvalid_r
    /\ sm_tvalid_r => ps \in {"PEND", "FINISH"} /\ (sm_tlast_r <=> ended)

Invariant ==
    /\ TypeOK
    /\ data_WE_r => data_EN_r
    /\ PortState
    /\ ps # "IDLE"   => Running
    /\ ps = "IDLE"   => IdleState
    /\ ps = "PEND"   => PendState
    /\ ps = "START"  => /\ StartState /\ TapPipeline
                        /\ IF Accepted = 1 THEN accumulater_r = <<>> ELSE Pipeline
    /\ ps = "DONE"   => DoneState
    /\ ps = "FINISH" => FinishState
=============================================================================
