------------------------------- MODULE MCParts -------------------------------
(***************************************************************************)
(* Parts for TLC: all sizes of elements; two counters, each of which can   *)
(* carry; all texts of up to four characters, more than the queue and its  *)
(* register hold; coefficients and inputs that are all different; the      *)
(* repository's coefficients and number of samples; an address of each     *)
(* kind and a time-out just longer than the back door's access.            *)
(***************************************************************************)
EXTENDS Parts

MCCR         == <<1, 0>>
MCNL         == <<0, 1>>
MCTexts      == UNION {[1..n -> {MCCR, MCNL, <<1, 1>>}] : n \in 0..4}
MCTaps       == [s \in 0..2 |-> <<2, -1, 5>>[s + 1]]
MCInput      == [s \in 0..2 |-> <<1, 3, 4>>[s + 1]]
MCGoldenTaps == [s \in 0..10 |-> <<0, -10, -9, 23, 56, 63, 56, 23, -9, -10, 0>>[s + 1]]
MCBeyond     == {-1, 0, 7}
MCAsked      == {\h10, \h9800020, \hC000000}   \* dff, housekeeping, user project

\* The hardware decodes the memory map the programs are compiled with.
ASSUME MapIsDecoded == Bus!MapIsDecoded

\* The initial states in which a part that rests does so in the same state.
MCInit ==
    /\ part \in {"arrays", "counters", "console", "start-up", "golden", "bus"}
    /\ Arrays!Init /\ (part = "arrays" \/ (op = "rd" /\ size = 1 /\ cnt = 1))
    /\ Counters!Init /\ (part = "counters" \/ (p_count = [c \in 0..1 |-> 0] /\ ~inhibit))
    /\ Console!Init /\ (part = "console" \/ text = <<>>)
    /\ StartUp!Init /\ (part = "start-up" \/ (taps[0] = 0 /\ outputsignal = taps))
    /\ Golden!Init /\ (part = "golden" \/ (beyond = 0 /\ g_data[0] = 0))
    /\ Bus!Init

MCSpec == MCInit /\ [][Next]_vars /\ Fairness
=============================================================================
