---------------------------- MODULE MCFirStream ----------------------------
(* FirStream for TLC: a master that loads, reads back, starts, streams and *)
(* polls, with few enough data words for every interleaving to be visited. *)
EXTENDS FirRefinement, TLC

Quiet == [awvalid |-> FALSE, awaddr |-> 0, wvalid |-> FALSE, wdata |-> 0,
          arvalid |-> FALSE, araddr |-> 0,
          ss_tvalid |-> FALSE, ss_tdata |-> 0, ss_tlast |-> FALSE]

CONSTANT Sample                   \* model values, all alike to the engine

MCWord  == {0, 1, 2, 4} \cup Sample
Samples == Permutations(Sample)

TapWrites  == {[Quiet EXCEPT !.awvalid = TRUE, !.awaddr = 32, !.wvalid = TRUE, !.wdata = w]
                 : w \in {4}}
Starts     == {[Quiet EXCEPT !.awvalid = TRUE, !.wvalid = TRUE, !.wdata = 1]}
ReadBacks  == {[Quiet EXCEPT !.arvalid = TRUE, !.araddr = 32]}
Polls      == {[Quiet EXCEPT !.arvalid = TRUE, !.ss_tdata = d] : d \in {0} \cup Sample}
Streams    == {[Quiet EXCEPT !.ss_tvalid = v, !.ss_tdata = d, !.ss_tlast = l]
                 : v \in BOOLEAN, d \in Sample, l \in BOOLEAN}
MCInputs   == {Quiet} \cup TapWrites \cup Starts \cup ReadBacks \cup Polls \cup Streams
=============================================================================
