------------------------------ MODULE MCFirSoc ------------------------------
(* FirSoc for TLC.  MC...: every word of the program is a number of its own, *)
(* so that no two words can be exchanged unnoticed; the first coefficient is *)
(* 4, the status word the bridge waits for, the second 1, the ap_start word. *)
(* Repo...: the coefficients of fir.h and the samples fir_data writes.       *)
EXTENDS FirSoc

MCCode == [a \in 0..(CodeLen - 1) |-> 100 + a]
MCTaps == [i \in Slot |-> IF i = 0 THEN 4 ELSE i]
MCData == [r \in 1..Rounds |-> [i \in 0..(DATALEN - 1) |-> 10 * (r + 1) + i]]
MCWord == {0, 1, 2, 4, TAP_DONE, DATA_DONE} \cup (1..LastSlot)
            \cup {MCCode[a] : a \in 0..(CodeLen - 1)}
            \cup UNION {{MCData[r][i] : i \in 0..(DATALEN - 1)} : r \in 1..Rounds}

RepoTaps == [i \in Slot |-> <<0, -10, -9, 23, 56, 63, 56, 23, -9, -10, 0>>[i + 1]]
RepoData == [r \in 1..Rounds |-> [i \in 0..(DATALEN - 1) |-> i]]
RepoWord == (-10..101) \cup {TAP_DONE, DATA_DONE}
=============================================================================
