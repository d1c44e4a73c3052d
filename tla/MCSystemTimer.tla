--------------------------- MODULE MCSystemTimer ---------------------------
(* SystemTimer for TLC: words of three values, so that the time carries into *)
(* its high half several times and W - 1 is neither 0 nor 1; one interval    *)
(* shorter than a word and one longer.                                       *)
EXTENDS SystemTimer

MCBases == {[h |-> 0, l |-> 2], [h |-> 1, l |-> 1]}
OneTick == {[h |-> 0, l |-> 1]}
=============================================================================
