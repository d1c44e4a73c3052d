---------------------------- MODULE MCHousekeeping ----------------------------
(* Housekeeping for TLC: two pads on each chain and modes of three bits, the  *)
(* first of which disables the input and the last of which is shifted first.  *)
EXTENDS Housekeeping

Bits3(a, b, c) == [i \in 0..2 |-> <<a, b, c>>[i + 1]]

MCDefault    == Bits3(0, 1, 0)
MCOutputs    == {Bits3(1, 0, 1), Bits3(1, 1, 0)}    \* an output and an analog mode
MCStdOutput  == {Bits3(1, 0, 1)}                    \* main's, whose last bit is 1
=============================================================================
