------------------------------ MODULE GoldenData ------------------------------
(***************************************************************************)
(* PatternGenerater.c: the program that writes the lines the test bench     *)
(* compares the words of a run with.  hardwareFir() keeps the last samples  *)
(* in an array it shifts by one in place, from the oldest kept on, and adds  *)
(* up as it goes.                                                           *)
(*                                                                         *)
(* bound reaches one past the end of both arrays, once.  What lies behind   *)
(* data is a word of the stack that is written and read back; what is read  *)
(* behind taps is any value.                                               *)
(***************************************************************************)
EXTENDS Integers, Sequences

CONSTANTS
    N, DATALEN,
    Taps,     \* the coefficients
    Beyond    \* what may lie behind them, and on the stack

Slot == 0..(N - 1)

GoldenAssumption ==
    N \in Nat \ {0} /\ DATALEN \in Nat /\ Taps \in [Slot -> Int] /\ Beyond \subseteq Int

VARIABLES
    i, j,      \* the sample, and the place in data
    num,       \* the sum so far
    data,      \* the samples kept, and one word behind
    beyond,    \* the word behind the coefficients
    lines      \* the lines written

vars == <<i, j, num, data, beyond, lines>>

Init ==
    /\ i = 0 /\ j = 0 /\ num = 0
    /\ \E x \in Beyond : data = [s \in 0..N |-> x]
    /\ beyond \in Beyond
    /\ lines = <<>>

\* Faulty variant: every sample is taken to find a full array.
BoundFull(n) == N - 1

\* bound = (i > N) ? N-1 : i;
Bound(n) == IF n > N THEN N - 1 ELSE n

Tap(k) == IF k \in Slot THEN Taps[k] ELSE beyond

\* data[j] = data[j-1], and the new sample at the end.
Shifted(k) == IF k # 0 THEN data[k - 1] ELSE i

\* One turn of the inner loop.
Turn ==
    /\ i < DATALEN /\ j >= 0
    /\ data' = [data EXCEPT ![j] = Shifted(j)]
    /\ num' = num + Shifted(j) * Tap(j)
    /\ j' = j - 1
    /\ UNCHANGED <<i, beyond, lines>>

\* fprintf, and the start of the next turn of the outer loop.
Line ==
    /\ i < DATALEN /\ j < 0
    /\ lines' = Append(lines, num)
    /\ i' = i + 1 /\ j' = Bound(i + 1) /\ num' = 0
    /\ UNCHANGED <<data, beyond>>

Next == Turn \/ Line

Spec == Init /\ [][Next]_vars

-----------------------------------------------------------------------------
(* Properties.                                                             *)

\* The coefficients that meet a sample in the sum for sample n.
Meeting(n) == IF n < N THEN n + 1 ELSE N

\* The sum of the first products for sample n, of none to all: sample k is the number k.
Sums(n) ==
    LET sum[k \in 0..Meeting(n)] ==
            IF k = 0 THEN 0 ELSE sum[k - 1] + (n - (k - 1)) * Taps[k - 1]
    IN  sum

\* The sum the filter should give for sample n.
Sum(n) == Sums(n)[Meeting(n)]

\* Every variable keeps its range.
TypeOK ==
    /\ i \in 0..DATALEN /\ j \in -1..N /\ num \in Int
    /\ data \in [0..N -> (0..DATALEN) \cup Beyond] /\ Len(lines) = i

\* lab4_2_golden.dat holds the sums of the filter, although the loop once adds a product
\* of two words that belong to neither array: the sample there is sample 0, which is 0.
LinesAreSums == \A n \in 1..Len(lines) : lines[n] = Sum(n - 1)
=============================================================================
