------------------------------- MODULE LutRam -------------------------------
(***************************************************************************)
(* The synchronous single-port RAM of rtl/user/lutram.v (and of bram.v,    *)
(* which has the same behaviour): one clock edge stores Di0 when the port  *)
(* is enabled for writing and loads the output register with the word that *)
(* was stored before the edge.  A disabled port clears its output register.*)
(*                                                                         *)
(* The byte lanes of WE0 are driven all together by both users of the RAM, *)
(* so a write enable is a Boolean.  A RAM is a function from its addresses;*)
(* X is the word an address outside the RAM, or a word never written,      *)
(* reads as.                                                               *)
(***************************************************************************)
EXTENDS Integers

CONSTANT X

\* The word the output register Do0 holds after the edge.
RamOut(ram, en, a) ==
    IF en THEN (IF a \in DOMAIN ram THEN ram[a] ELSE X) ELSE 0

\* The contents of the RAM after the edge.
RamStore(ram, en, we, a, di) ==
    IF en /\ we THEN [i \in DOMAIN ram |-> IF i = a THEN di ELSE ram[i]] ELSE ram
=============================================================================
