------------------------------ MODULE PartsProof ------------------------------
(***************************************************************************)
(* Proofs about five of the parts, each for every value of its constants.  *)
(*                                                                         *)
(* StartUp: main reports the golden sums from whatever the memory held     *)
(* when power came on and after any number of resets.  GoldenData:         *)
(* hardwareFir() writes the sums of the filter, whatever lies behind its   *)
(* two arrays.  BusFabric: an acknowledgement on the management core's bus *)
(* ends the access it was given for.  PerfCounters: pcount_reset leaves    *)
(* every counter with what it has counted since.  CsrArray: an array and   *)
(* its register hold the same number after every transfer, for arrays of   *)
(* any length and elements of any size the code has.                       *)
(***************************************************************************)
EXTENDS Parts, WellFoundedInduction, TLAPS

-----------------------------------------------------------------------------
\* A set of numbers that is not empty has a least one.
LEMMA LeastNumber ==
    ASSUME NEW T, T \subseteq Nat, T # {}
    PROVE  \E x \in T : \A y \in T : x <= y
<1>1. PICK x \in T : \A y \in T : <<y, x>> \notin OpToRel(<, Nat)
  BY NatLessThanWellFounded, WFMin, Zenon
<1>2. \A y \in T : ~(y < x)
  BY <1>1, Zenon DEF OpToRel
<1> QED BY <1>2

-----------------------------------------------------------------------------
(* The running sums are defined.  The recursive function is one only if    *)
(* there is a function that satisfies its equation: were there none for    *)
(* some number of terms, there would be a least such number, and the sums  *)
(* of one term fewer, with one added, would satisfy it.                    *)

\* Any terms have running sums.
LEMMA RunningSumsExist ==
    ASSUME NEW n \in Nat, NEW term
    PROVE  \E sum : sum = [t \in 0..n |-> IF t = 0 THEN 0 ELSE sum[t - 1] + term[t - 1]]
<1> DEFINE Good(m) == \E sum :
               sum = [t \in 0..m |-> IF t = 0 THEN 0 ELSE sum[t - 1] + term[t - 1]]
           Bad == {m \in 0..n : ~Good(m)}
<1>1. SUFFICES ASSUME Bad # {} PROVE FALSE
  <2>1. n \in 0..n
    OBVIOUS
  <2>2. Good(n)
    BY <1>1, <2>1
  <2> QED BY <2>2
<1>2. PICK m \in Bad : \A y \in Bad : m <= y
  <2>1. Bad \subseteq Nat
    OBVIOUS
  <2> HIDE DEF Bad
  <2> QED BY <1>1, <2>1, LeastNumber
<1>3. m \in 0..n /\ ~Good(m)
  BY <1>2
<1>4. CASE m = 0
  <2> DEFINE zero == [t \in 0..0 |-> 0]
  <2>1. zero = [t \in 0..m |-> IF t = 0 THEN 0 ELSE zero[t - 1] + term[t - 1]]
    BY <1>4
  <2>2. Good(m)
    BY <2>1
  <2> QED BY <1>3, <2>2
<1>5. CASE m > 0
  <2>1. m - 1 \in 0..n /\ ~(m <= m - 1)
    BY <1>3, <1>5
  <2>2. Good(m - 1)
    BY <1>2, <2>1
  <2>3. PICK sum : sum = [t \in 0..(m - 1) |-> IF t = 0 THEN 0 ELSE sum[t - 1] + term[t - 1]]
    BY <2>2
  <2> DEFINE more == [t \in 0..m |-> IF t = m THEN sum[m - 1] + term[m - 1] ELSE sum[t]]
  <2>4. ASSUME NEW t \in 0..m
        PROVE  more[t] = IF t = 0 THEN 0 ELSE more[t - 1] + term[t - 1]
    <3>1. CASE t = m
      <4>1. more[t] = sum[m - 1] + term[m - 1]
        BY <3>1
      <4>2. m - 1 \in 0..m /\ m - 1 # m
        BY <1>3, <1>5
      <4>3. more[m - 1] = sum[m - 1]
        BY <4>2
      <4> QED BY <1>5, <3>1, <4>1, <4>3
    <3>2. CASE t # m /\ t # 0
      <4>1. t \in 0..(m - 1) /\ t - 1 \in 0..m /\ t - 1 # m
        BY <1>3, <3>2
      <4>2. sum[t] = sum[t - 1] + term[t - 1]
        BY <2>3, <3>2, <4>1
      <4>3. more[t] = sum[t] /\ more[t - 1] = sum[t - 1]
        BY <3>2, <4>1
      <4> QED BY <3>2, <4>2, <4>3
    <3>3. CASE t # m /\ t = 0
      <4>1. 0 \in 0..(m - 1)
        BY <1>3, <1>5
      <4>2. sum[0] = 0
        BY <2>3, <4>1
      <4> QED BY <3>3, <4>2
    <3> QED BY <3>1, <3>2, <3>3
  <2>5. more = [t \in 0..m |-> IF t = 0 THEN 0 ELSE more[t - 1] + term[t - 1]]
    BY <2>4
  <2>6. Good(m)
    BY <2>5
  <2> QED BY <1>3, <2>6
<1> QED BY <1>3, <1>4, <1>5

-----------------------------------------------------------------------------
(* StartUp.  The invariant says, for each loop of the start-up code and of *)
(* fir(), how much of the memory is in order already.  What fir() has to   *)
(* find is arrays with the initial values and an array of zeros, because it*)
(* adds; a reset in the middle of it leaves neither zeros nor the code's   *)
(* place in the loops, and everything before it is done again.             *)

\* sram_loop has copied the words below its pointer.
SramInv ==
    IF s_pc = "sram" THEN s_a \in 0..CodeLen /\ \A w \in StartUp!Code : w < s_a => mprjram[w]
                     ELSE \A w \in StartUp!Code : mprjram[w]

\* data_loop has copied the words below its pointer, first of taps.
DataInv ==
    /\ s_pc = "data" => /\ s_a \in 0..(2 * N)
                        /\ \A s \in StartUp!Slot : s < s_a => taps[s] = Taps[s]
                        /\ \A s \in StartUp!Slot : s + N < s_a => inputsignal[s] = Input[s]
    /\ s_pc \in {"bss", "fir", "report"} => taps = Taps /\ inputsignal = Input

\* bss_loop has cleared the words below its pointer.
BssInv == s_pc = "bss" => s_a \in 0..N /\ \A s \in StartUp!Slot : s < s_a => outputsignal[s] = 0

\* fir() has finished the outputs below i and the first j products of output i.
FirInv ==
    /\ s_pc \notin {"fir", "report"} => s_i = 0 /\ s_j = 0
    /\ s_pc = "fir" => /\ s_i = N => s_j = 0
                       /\ s_i < N => s_j <= s_i + 1 /\ outputsignal[s_i] = StartUp!Sums(s_i)[s_j]
                       /\ \A s \in StartUp!Slot : s < s_i => outputsignal[s] = StartUp!Golden(s)
                       /\ \A s \in StartUp!Slot : s > s_i => outputsignal[s] = 0
    /\ s_pc = "report" => s_i = N /\ \A s \in StartUp!Slot : outputsignal[s] = StartUp!Golden(s)

\* main has reported the outputs below its counter.
ReportInv ==
    /\ reported \in Seq(Int)
    /\ IF s_pc = "report" THEN s_a \in 0..N /\ Len(reported) = s_a ELSE reported = <<>>

StartUpInv ==
    /\ StartUp!TypeOK /\ SramInv /\ DataInv /\ BssInv /\ FirInv /\ ReportInv
    /\ StartUp!ReportsAreGolden

\* The sums of output k: nothing at first, one product more with every turn.
LEMMA StartUpSums ==
    ASSUME StartUp!StartUpAssumption, NEW k \in StartUp!Slot
    PROVE  /\ StartUp!Sums(k)[0] = 0
           /\ \A t \in 0..k : StartUp!Sums(k)[t + 1] = StartUp!Sums(k)[t] + Taps[t] * Input[k - t]
<1> DEFINE sums == StartUp!Sums(k)
           term == [t \in 0..k |-> Taps[t] * Input[k - t]]
<1>1. k \in Nat /\ k + 1 \in Nat /\ k + 1 - 1 = k
  BY DEF StartUp!Slot, StartUp!StartUpAssumption
<1>2. \E sum : sum = [t \in 0..(k + 1) |-> IF t = 0 THEN 0 ELSE sum[t - 1] + term[t - 1]]
  <2> HIDE DEF term
  <2> QED BY <1>1, RunningSumsExist
<1>3. PICK sum : sum = [t \in 0..(k + 1) |-> IF t = 0 THEN 0 ELSE sum[t - 1] + term[t - 1]]
  BY <1>2
<1>4. ASSUME NEW t \in 0..(k + 1)
      PROVE  (IF t = 0 THEN 0 ELSE sum[t - 1] + term[t - 1])
                = IF t = 0 THEN 0 ELSE sum[t - 1] + Taps[t - 1] * Input[k - (t - 1)]
  <2>1. t # 0 => t - 1 \in 0..k
    BY <1>1
  <2> QED BY <2>1
<1>5. sum = [t \in 0..(k + 1) |->
               IF t = 0 THEN 0 ELSE sum[t - 1] + Taps[t - 1] * Input[k - (t - 1)]]
  <2> HIDE DEF term
  <2> QED BY <1>3, <1>4
<1>6. sums = [t \in 0..(k + 1) |->
                IF t = 0 THEN 0 ELSE sums[t - 1] + Taps[t - 1] * Input[k - (t - 1)]]
  BY <1>5, Zenon DEF StartUp!Sums
<1> HIDE DEF sums
<1>7. sums[0] = 0
  BY <1>1, <1>6
<1>8. ASSUME NEW t \in 0..k
       PROVE  sums[t + 1] = sums[t] + Taps[t] * Input[k - t]
  <2>1. PICK u \in 0..(k + 1) : u # 0 /\ t + 1 = u /\ u - 1 = t
    BY <1>1
  <2>2. sums[u] = sums[u - 1] + Taps[u - 1] * Input[k - (u - 1)]
    BY <1>6, <2>1
  <2> QED BY <2>1, <2>2, Zenon
<1> QED BY <1>7, <1>8 DEF sums

-----------------------------------------------------------------------------
(* The invariant, with one lemma per action.                               *)

\* What a step that leaves the arrays and the code alone preserves of the types.
LEMMA ArrayTypes ==
    ASSUME StartUp!TypeOK
    PROVE  /\ mprjram \in [StartUp!Code -> BOOLEAN] /\ taps \in [StartUp!Slot -> Int]
           /\ inputsignal \in [StartUp!Slot -> Int] /\ outputsignal \in [StartUp!Slot -> Int]
BY DEF StartUp!TypeOK

\* The numbers the loops count to.
LEMMA StartUpNumbers ==
    ASSUME StartUp!StartUpAssumption
    PROVE  /\ N \in Nat \ {0} /\ CodeLen \in Nat \ {0}
           /\ StartUp!Slot = 0..(N - 1) /\ StartUp!Code = 0..(CodeLen - 1)
           /\ 2 * N = N + N
           /\ \A x \in 0..CodeLen : x \in 0..(IF CodeLen > 2 * N THEN CodeLen ELSE 2 * N)
           /\ \A x \in 0..(2 * N) : x \in 0..(IF CodeLen > 2 * N THEN CodeLen ELSE 2 * N)
           /\ \A x \in 0..N : x \in 0..(2 * N)
BY DEF StartUp!StartUpAssumption, StartUp!Slot, StartUp!Code

LEMMA StartUpInvInit ==
    ASSUME StartUp!StartUpAssumption, StartUp!Init
    PROVE  StartUpInv
<1> USE DEF StartUp!Init, StartUp!FirstLoop
<1>1. StartUp!TypeOK
  <2>1. PICK x \in Junk : /\ taps = [s \in StartUp!Slot |-> x]
                          /\ inputsignal = [s \in StartUp!Slot |-> x]
    OBVIOUS
  <2>2. x \in Int /\ Junk \subseteq Int
    BY DEF StartUp!StartUpAssumption
  <2>3. /\ taps \in [StartUp!Slot -> Int] /\ inputsignal \in [StartUp!Slot -> Int]
        /\ outputsignal \in [StartUp!Slot -> Int]
    BY <2>1, <2>2
  <2>4. mprjram \in [StartUp!Code -> BOOLEAN]
    OBVIOUS
  <2> QED BY <2>3, <2>4, StartUpNumbers DEF StartUp!TypeOK
<1>2. SramInv /\ DataInv /\ BssInv /\ FirInv
  BY StartUpNumbers DEF SramInv, DataInv, BssInv, FirInv
<1>3. ReportInv /\ StartUp!ReportsAreGolden
  BY DEF ReportInv, StartUp!ReportsAreGolden
<1> QED BY <1>1, <1>2, <1>3 DEF StartUpInv

\* sram_loop: the word at the pointer is copied, or all have been.
LEMMA SramInitIInv ==
    ASSUME StartUp!StartUpAssumption, StartUpInv, StartUp!SramInit
    PROVE  StartUpInv'
<1> USE StartUpNumbers DEF StartUpInv, StartUp!SramInit, StartUp!Enter, StartUp!EndOfCode
<1>1. s_a \in 0..CodeLen /\ s_i = 0 /\ s_j = 0 /\ reported = <<>>
  BY DEF SramInv, FirInv, ReportInv
<1>2. StartUp!TypeOK' /\ SramInv'
  <2>1. mprjram' \in [StartUp!Code -> BOOLEAN] /\ s_a' \in 0..CodeLen
    <3>1. CASE s_a = CodeLen
      BY <1>1, <3>1, ArrayTypes
    <3>2. CASE s_a # CodeLen
      <4>1. mprjram' = [mprjram EXCEPT ![s_a] = TRUE] /\ s_a' = s_a + 1
        BY <3>2, Zenon
      <4>2. mprjram' \in [StartUp!Code -> BOOLEAN]
        BY <4>1, ArrayTypes, Zenon
      <4> QED BY <1>1, <3>2, <4>1, <4>2
    <3> QED BY <3>1, <3>2
  <2>2. StartUp!TypeOK'
    BY <2>1, ArrayTypes DEF StartUp!TypeOK
  <2>3. SramInv'
    BY <1>1, <2>1, ArrayTypes DEF SramInv
  <2> QED BY <2>2, <2>3
<1>3. DataInv' /\ BssInv' /\ FirInv'
  BY <1>1 DEF DataInv, BssInv, FirInv
<1>4. ReportInv' /\ StartUp!ReportsAreGolden'
  BY <1>1 DEF ReportInv, StartUp!ReportsAreGolden
<1> QED BY <1>2, <1>3, <1>4

\* data_loop: the word at the pointer is copied, or all have been.
LEMMA DataInitIInv ==
    ASSUME StartUp!StartUpAssumption, StartUpInv, StartUp!DataInit
    PROVE  StartUpInv'
<1> USE StartUpNumbers DEF StartUpInv, StartUp!DataInit, StartUp!Enter, StartUp!AfterData
<1>1. s_a \in 0..(2 * N) /\ s_i = 0 /\ s_j = 0 /\ reported = <<>>
  BY DEF DataInv, FirInv, ReportInv
<1>2. \A s \in StartUp!Slot : Taps[s] \in Int /\ Input[s] \in Int
  BY DEF StartUp!StartUpAssumption
<1>3. /\ s_a' \in 0..(2 * N)
      /\ taps' \in [StartUp!Slot -> Int] /\ inputsignal' \in [StartUp!Slot -> Int]
      /\ s_a # 2 * N => \A s \in StartUp!Slot :
               /\ taps'[s] = IF s = s_a THEN Taps[s] ELSE taps[s]
               /\ inputsignal'[s] = IF s + N = s_a THEN Input[s] ELSE inputsignal[s]
  <2>1. CASE s_a = 2 * N
    BY <1>1, <2>1, ArrayTypes
  <2>2. CASE s_a # 2 * N /\ s_a < N
    <3>1. taps' = [taps EXCEPT ![s_a] = Taps[s_a]] /\ inputsignal' = inputsignal /\ s_a' = s_a + 1
      BY <2>2
    <3>2. s_a \in StartUp!Slot /\ s_a' \in 0..(2 * N) /\ \A s \in StartUp!Slot : s + N # s_a
      BY <1>1, <2>2, <3>1
    <3> QED BY <1>2, <3>1, <3>2, ArrayTypes
  <2>3. CASE s_a # 2 * N /\ ~(s_a < N)
    <3>1. /\ inputsignal' = [inputsignal EXCEPT ![s_a - N] = Input[s_a - N]]
          /\ taps' = taps /\ s_a' = s_a + 1
      BY <2>3
    <3>2. /\ s_a - N \in StartUp!Slot /\ s_a' \in 0..(2 * N)
          /\ \A s \in StartUp!Slot : s # s_a /\ (s + N = s_a <=> s = s_a - N)
      BY <1>1, <2>3, <3>1
    <3> QED BY <1>2, <3>1, <3>2, ArrayTypes
  <2> QED BY <2>1, <2>2, <2>3
<1>4. StartUp!TypeOK' /\ SramInv'
  BY <1>3, ArrayTypes DEF StartUp!TypeOK, SramInv
<1>5. DataInv'
  <2>1. CASE s_a = 2 * N
    <3>1. \A s \in StartUp!Slot : s < s_a /\ s + N < s_a
      BY <2>1
    <3>2. taps = Taps /\ inputsignal = Input
      BY <3>1, ArrayTypes DEF DataInv, StartUp!StartUpAssumption
    <3> QED BY <2>1, <3>2 DEF DataInv
  <2>2. CASE s_a # 2 * N
    <3>1. ASSUME NEW s \in StartUp!Slot, s < s_a'
          PROVE  taps'[s] = Taps[s]
      <4>1. taps'[s] = IF s = s_a THEN Taps[s] ELSE taps[s]
        BY <1>3, <2>2, Zenon
      <4>2. s # s_a => s < s_a
        BY <1>1, <2>2, <3>1
      <4> QED BY <4>1, <4>2 DEF DataInv
    <3>2. ASSUME NEW s \in StartUp!Slot, s + N < s_a'
          PROVE  inputsignal'[s] = Input[s]
      <4>1. inputsignal'[s] = IF s + N = s_a THEN Input[s] ELSE inputsignal[s]
        BY <1>3, <2>2, Zenon
      <4>2. s + N # s_a => s + N < s_a
        BY <1>1, <2>2, <3>2
      <4> QED BY <4>1, <4>2 DEF DataInv
    <3> QED BY <1>3, <2>2, <3>1, <3>2 DEF DataInv
  <2> QED BY <2>1, <2>2
<1>6. BssInv' /\ FirInv' /\ ReportInv' /\ StartUp!ReportsAreGolden'
  BY <1>1 DEF BssInv, FirInv, ReportInv, StartUp!ReportsAreGolden
<1> QED BY <1>4, <1>5, <1>6

\* bss_loop: the word at the pointer is cleared, or all have been, and fir() starts.
LEMMA BssInitIInv ==
    ASSUME StartUp!StartUpAssumption, StartUpInv, StartUp!BssInit
    PROVE  StartUpInv'
<1> USE StartUpNumbers DEF StartUpInv, StartUp!BssInit, StartUp!Enter
<1>1. s_a \in 0..N /\ s_i = 0 /\ s_j = 0 /\ reported = <<>>
  BY DEF BssInv, FirInv, ReportInv
<1>2. outputsignal' \in [StartUp!Slot -> Int] /\ s_a' \in 0..N
  BY <1>1, ArrayTypes
<1>3. StartUp!TypeOK' /\ SramInv' /\ DataInv'
  BY <1>2, ArrayTypes DEF StartUp!TypeOK, SramInv, DataInv
<1>4. BssInv'
  BY <1>1, ArrayTypes DEF BssInv
<1>5. FirInv'
  <2>1. 0 \in StartUp!Slot /\ StartUp!Sums(0)[0] = 0
    BY StartUpSums
  <2>2. s_a = N => \A s \in StartUp!Slot : outputsignal[s] = 0
    BY DEF BssInv
  <2> QED BY <1>1, <2>1, <2>2 DEF FirInv
<1>6. ReportInv' /\ StartUp!ReportsAreGolden'
  BY <1>1 DEF ReportInv, StartUp!ReportsAreGolden
<1> QED BY <1>3, <1>4, <1>5, <1>6

\* fir(): a product is added to output i, or it has them all.
LEMMA FirIInv ==
    ASSUME StartUp!StartUpAssumption, StartUpInv, StartUp!Fir
    PROVE  StartUpInv'
<1> USE StartUpNumbers DEF StartUpInv, StartUp!Fir
<1>1. /\ s_i \in StartUp!Slot /\ s_j \in 0..(s_i + 1)
      /\ outputsignal[s_i] = StartUp!Sums(s_i)[s_j]
      /\ taps = Taps /\ inputsignal = Input
  BY DEF FirInv, DataInv, StartUp!TypeOK
<1>2. StartUp!TypeOK' /\ FirInv'
  <2>1. CASE s_j <= s_i
    <3>1. s_j \in StartUp!Slot /\ s_i - s_j \in StartUp!Slot /\ s_j \in 0..s_i
      BY <1>1, <2>1
    <3>2. taps[s_j] \in Int /\ inputsignal[s_i - s_j] \in Int /\ outputsignal[s_i] \in Int
      BY <1>1, <3>1, ArrayTypes
    <3>3. outputsignal[s_i] + taps[s_j] * inputsignal[s_i - s_j] \in Int
      BY <3>2
    <3>4. outputsignal' = [outputsignal EXCEPT ![s_i] =
                               outputsignal[s_i] + taps[s_j] * inputsignal[s_i - s_j]]
      BY <2>1
    <3>5. outputsignal' \in [StartUp!Slot -> Int]
      BY <3>3, <3>4, ArrayTypes
    <3>6. s_j' \in 0..N /\ s_j' <= s_i + 1
      BY <1>1, <2>1
    <3>7. StartUp!TypeOK'
      BY <2>1, <3>5, <3>6, ArrayTypes DEF StartUp!TypeOK
    <3>8. outputsignal'[s_i] = StartUp!Sums(s_i)[s_j + 1]
      <4>1. outputsignal'[s_i] = outputsignal[s_i] + taps[s_j] * inputsignal[s_i - s_j]
        BY <1>1, <3>4, ArrayTypes, Zenon
      <4>2. StartUp!Sums(s_i)[s_j + 1] = StartUp!Sums(s_i)[s_j] + Taps[s_j] * Input[s_i - s_j]
        BY <1>1, <3>1, StartUpSums, Zenon
      <4> QED BY <1>1, <4>1, <4>2, Zenon
    <3>9. \A s \in StartUp!Slot : s # s_i => outputsignal'[s] = outputsignal[s]
      BY <3>4, ArrayTypes
    <3> QED BY <1>1, <2>1, <3>6, <3>7, <3>8, <3>9 DEF FirInv
  <2>2. CASE ~(s_j <= s_i)
    <3>1. s_j = s_i + 1 /\ s_i' = s_i + 1 /\ s_j' = 0 /\ UNCHANGED outputsignal
      BY <1>1, <2>2
    <3>2. StartUp!TypeOK'
      BY <1>1, <3>1, ArrayTypes DEF StartUp!TypeOK
    <3>3. outputsignal[s_i] = StartUp!Golden(s_i)
      BY <1>1, <3>1 DEF StartUp!Golden
    <3>4. s_i' < N => s_i' \in StartUp!Slot /\ outputsignal[s_i'] = 0 /\ StartUp!Sums(s_i')[0] = 0
      <4>1. SUFFICES ASSUME s_i + 1 < N
                     PROVE  /\ s_i + 1 \in StartUp!Slot /\ outputsignal[s_i + 1] = 0
                            /\ StartUp!Sums(s_i + 1)[0] = 0
        BY <3>1
      <4>2. s_i + 1 \in StartUp!Slot /\ s_i + 1 > s_i
        BY <1>1, <4>1
      <4> QED BY <4>2, StartUpSums DEF FirInv
    <3>5. \A s \in StartUp!Slot : s < s_i + 1 => s < s_i \/ s = s_i
      BY <1>1
    <3>6. \A s \in StartUp!Slot : s > s_i + 1 => s > s_i
      BY <1>1
    <3> QED BY <1>1, <3>1, <3>2, <3>3, <3>4, <3>5, <3>6 DEF FirInv
  <2> QED BY <2>1, <2>2
<1>3. SramInv' /\ DataInv' /\ BssInv' /\ ReportInv' /\ StartUp!ReportsAreGolden'
  BY DEF SramInv, DataInv, BssInv, ReportInv, StartUp!ReportsAreGolden
<1> QED BY <1>2, <1>3

\* fir() returns when every output has its products.
LEMMA FirReturnsIInv ==
    ASSUME StartUp!StartUpAssumption, StartUpInv, StartUp!FirReturns
    PROVE  StartUpInv'
<1> USE StartUpNumbers DEF StartUpInv, StartUp!FirReturns, StartUp!Enter, StartUp!memory
<1>1. s_i = N /\ reported = <<>>
  BY DEF ReportInv
<1>2. StartUp!TypeOK' /\ SramInv' /\ DataInv' /\ BssInv'
  BY ArrayTypes DEF StartUp!TypeOK, SramInv, DataInv, BssInv
<1>3. FirInv'
  BY <1>1 DEF FirInv
<1>4. ReportInv' /\ StartUp!ReportsAreGolden'
  BY <1>1 DEF ReportInv, StartUp!ReportsAreGolden
<1> QED BY <1>2, <1>3, <1>4

\* main reports the next output.
LEMMA ReportIInv ==
    ASSUME StartUp!StartUpAssumption, StartUpInv, StartUp!Report
    PROVE  StartUpInv'
<1> USE StartUpNumbers DEF StartUpInv, StartUp!Report, StartUp!memory
<1>1. s_a \in StartUp!Slot /\ outputsignal[s_a] = StartUp!Golden(s_a) /\ outputsignal[s_a] \in Int
  BY ArrayTypes DEF ReportInv, FirInv
<1>2. reported \in Seq(Int) /\ Len(reported) = s_a
  BY DEF ReportInv
<1>3. /\ reported' \in Seq(Int) /\ Len(reported') = s_a + 1
      /\ \A k \in 1..s_a : reported'[k] = reported[k]
      /\ reported'[s_a + 1] = outputsignal[s_a]
  BY <1>1, <1>2
<1>4. StartUp!TypeOK' /\ SramInv' /\ DataInv' /\ BssInv'
  BY <1>1, <1>3, ArrayTypes DEF StartUp!TypeOK, SramInv, DataInv, BssInv
<1>5. FirInv' /\ ReportInv'
  BY <1>1, <1>3 DEF FirInv, ReportInv
<1>6. StartUp!ReportsAreGolden'
  <2>1. ASSUME NEW k \in 1..(s_a + 1)
        PROVE  reported'[k] = StartUp!Golden(k - 1)
    <3>1. CASE k = s_a + 1
      <4>1. k - 1 = s_a
        BY <1>1, <3>1
      <4> QED BY <1>1, <1>3, <3>1, <4>1
    <3>2. CASE k # s_a + 1
      <4>1. k \in 1..s_a
        BY <1>1, <3>2
      <4> QED BY <1>2, <1>3, <4>1 DEF StartUp!ReportsAreGolden
    <3> QED BY <3>1, <3>2
  <2> QED BY <1>3, <2>1 DEF StartUp!ReportsAreGolden
<1> QED BY <1>4, <1>5, <1>6

\* A reset leaves the memory as it is, whatever was going on.
LEMMA ResetIInv ==
    ASSUME StartUp!StartUpAssumption, StartUpInv, StartUp!Reset
    PROVE  StartUpInv'
<1> USE StartUpNumbers DEF StartUpInv, StartUp!Reset, StartUp!Enter, StartUp!FirstLoop,
                           StartUp!memory
<1>1. StartUp!TypeOK' /\ SramInv'
  BY ArrayTypes DEF StartUp!TypeOK, SramInv
<1>2. DataInv' /\ BssInv' /\ FirInv' /\ ReportInv' /\ StartUp!ReportsAreGolden'
  BY DEF DataInv, BssInv, FirInv, ReportInv, StartUp!ReportsAreGolden
<1> QED BY <1>1, <1>2

\* Every step preserves the invariant: one of the start-up code, or of another part.
LEMMA StartUpInvStep ==
    ASSUME StartUpInv, [Next]_vars
    PROVE  StartUpInv'
<1>1. StartUp!StartUpAssumption
  BY PartsAssumption
<1>2. StartUp!Next \/ UNCHANGED startUp
  BY Zenon DEF vars, Next, ArraysStep, CountersStep, ConsoleStep, StartUpStep, GoldenStep, BusStep,
               Over
<1>3. CASE UNCHANGED startUp
  BY <1>3 DEF startUp, StartUpInv, StartUp!TypeOK, SramInv, DataInv, BssInv, FirInv,
              ReportInv, StartUp!ReportsAreGolden
<1>4. CASE StartUp!Next
  BY <1>1, <1>4, SramInitIInv, DataInitIInv, BssInitIInv, FirIInv, FirReturnsIInv, ReportIInv,
     ResetIInv DEF StartUp!Next
<1> QED BY <1>2, <1>3, <1>4

-----------------------------------------------------------------------------
\* What main reports is the golden sums, from whatever the memory held when power came on
\* and however often the run was reset: crt0_vex.S's loops restore what fir() relies on.
\* fir() is only called when all its code is in the user RAM.
THEOREM ReportsCorrect == Spec => []ReportsAreGolden
<1>1. Init => StartUpInv
  BY StartUpInvInit, PartsAssumption, Zenon DEF Init
<1>2. StartUpInv /\ [Next]_vars => StartUpInv'
  BY StartUpInvStep
<1>3. StartUpInv => ReportsAreGolden
  BY DEF StartUpInv, SramInv, StartUp!CodeInPlace, ReportsAreGolden
<1> QED BY <1>1, <1>2, <1>3, PTL DEF Spec

-----------------------------------------------------------------------------
(* GoldenData.  The inner loop goes down, so that the places above j hold  *)
(* the samples for this line already and those from j on still the samples *)
(* for the line before, one place lower.  num is what the products of the  *)
(* places up to j lack of the whole sum.  The turn that reaches behind the *)
(* arrays is the first of line N: it moves sample 0 there, which is 0.     *)

\* The array, in the middle of the shift.
ShiftInv ==
    \A k \in Golden!Slot : /\ k > g_j /\ k <= g_i => g_data[k] = g_i - k
                           /\ k <= g_j /\ k < g_i => g_data[k] = g_i - 1 - k

\* The sum, without the products still to come.
SumInv ==
    IF g_j < GoldenN
    THEN g_j < Golden!Meeting(g_i) /\ num = Golden!Sum(g_i) - Golden!Sums(g_i)[g_j + 1]
    ELSE g_i = GoldenN /\ num = 0

GoldenInv ==
    /\ Golden!TypeOK /\ beyond \in Beyond /\ lines \in Seq(Int)
    /\ ShiftInv /\ SumInv /\ Golden!LinesAreSums

\* The sums for sample n: nothing at first, one product more with every coefficient.
LEMMA GoldenSums ==
    ASSUME Golden!GoldenAssumption, NEW n \in Nat
    PROVE  /\ Golden!Sums(n)[0] = 0
           /\ \A k \in 0..(Golden!Meeting(n) - 1) :
                 Golden!Sums(n)[k + 1] = Golden!Sums(n)[k] + (n - k) * GoldenTaps[k]
<1> DEFINE sums == Golden!Sums(n)
           term == [k \in 0..Golden!Meeting(n) |-> (n - k) * GoldenTaps[k]]
<1>1. Golden!Meeting(n) \in Nat
  BY DEF Golden!Meeting, Golden!GoldenAssumption
<1>2. \E sum : sum = [k \in 0..Golden!Meeting(n) |->
                        IF k = 0 THEN 0 ELSE sum[k - 1] + term[k - 1]]
  <2> HIDE DEF term
  <2> QED BY <1>1, RunningSumsExist
<1>3. PICK sum : sum = [k \in 0..Golden!Meeting(n) |->
                          IF k = 0 THEN 0 ELSE sum[k - 1] + term[k - 1]]
  BY <1>2
<1>4. ASSUME NEW k \in 0..Golden!Meeting(n)
      PROVE  (IF k = 0 THEN 0 ELSE sum[k - 1] + term[k - 1])
                = IF k = 0 THEN 0 ELSE sum[k - 1] + (n - (k - 1)) * GoldenTaps[k - 1]
  <2>1. k # 0 => k - 1 \in 0..Golden!Meeting(n)
    BY <1>1
  <2> QED BY <2>1
<1>5. sum = [k \in 0..Golden!Meeting(n) |->
               IF k = 0 THEN 0 ELSE sum[k - 1] + (n - (k - 1)) * GoldenTaps[k - 1]]
  <2> HIDE DEF term
  <2> QED BY <1>3, <1>4
<1>6. sums = [k \in 0..Golden!Meeting(n) |->
                IF k = 0 THEN 0 ELSE sums[k - 1] + (n - (k - 1)) * GoldenTaps[k - 1]]
  BY <1>5, Zenon DEF Golden!Sums
<1> HIDE DEF sums
<1>7. sums[0] = 0
  BY <1>1, <1>6
<1>8. ASSUME NEW k \in 0..(Golden!Meeting(n) - 1)
      PROVE  sums[k + 1] = sums[k] + (n - k) * GoldenTaps[k]
  <2>1. PICK u \in 0..Golden!Meeting(n) : u # 0 /\ k + 1 = u /\ u - 1 = k
    BY <1>1
  <2>2. sums[u] = sums[u - 1] + (n - (u - 1)) * GoldenTaps[u - 1]
    BY <1>6, <2>1
  <2> QED BY <2>1, <2>2, Zenon
<1> QED BY <1>7, <1>8 DEF sums

\* The sums are numbers: otherwise there were a first one that is not.
LEMMA GoldenSumsAreNumbers ==
    ASSUME Golden!GoldenAssumption, NEW n \in Nat
    PROVE  /\ Golden!Meeting(n) \in Nat
           /\ \A k \in 0..Golden!Meeting(n) : Golden!Sums(n)[k] \in Int
           /\ Golden!Sum(n) \in Int
<1> DEFINE Bad == {k \in 0..Golden!Meeting(n) : Golden!Sums(n)[k] \notin Int}
<1>1. Golden!Meeting(n) \in Nat /\ \A k \in 0..(Golden!Meeting(n) - 1) : GoldenTaps[k] \in Int
  BY DEF Golden!Meeting, Golden!GoldenAssumption, Golden!Slot
<1>2. SUFFICES ASSUME Bad # {} PROVE FALSE
  BY <1>1 DEF Golden!Sum
<1>3. PICK m \in Bad : \A y \in Bad : m <= y
  <2>1. Bad \subseteq Nat
    BY <1>1
  <2> HIDE DEF Bad
  <2> QED BY <1>2, <2>1, LeastNumber
<1>4. m \in 0..Golden!Meeting(n) /\ Golden!Sums(n)[m] \notin Int
  BY <1>3
<1>5. m # 0
  BY <1>4, GoldenSums
<1>6. /\ m - 1 \in 0..(Golden!Meeting(n) - 1) /\ m - 1 \in 0..Golden!Meeting(n)
      /\ m - 1 + 1 = m /\ ~(m <= m - 1)
  BY <1>1, <1>4, <1>5
<1>7. Golden!Sums(n)[m - 1] \in Int
  BY <1>3, <1>6
<1>8. Golden!Sums(n)[m] = Golden!Sums(n)[m - 1] + (n - (m - 1)) * GoldenTaps[m - 1]
  BY <1>6, GoldenSums, Zenon
<1>9. (n - (m - 1)) * GoldenTaps[m - 1] \in Int
  BY <1>1, <1>4, <1>6
<1> QED BY <1>4, <1>7, <1>8, <1>9

-----------------------------------------------------------------------------
(* The invariant, with one lemma per action.                               *)

LEMMA GoldenTypes ==
    ASSUME Golden!GoldenAssumption, GoldenInv
    PROVE  /\ GoldenN \in Nat \ {0} /\ DATALEN \in Nat /\ Golden!Slot = 0..(GoldenN - 1)
           /\ g_i \in 0..DATALEN /\ g_j \in -1..GoldenN /\ num \in Int
           /\ g_data \in [0..GoldenN -> (0..DATALEN) \cup Beyond] /\ beyond \in Int
           /\ \A k \in Golden!Slot : GoldenTaps[k] \in Int
           /\ lines \in Seq(Int) /\ Len(lines) = g_i
BY DEF Golden!GoldenAssumption, GoldenInv, Golden!TypeOK, Golden!Slot

LEMMA GoldenInvInit ==
    ASSUME Golden!GoldenAssumption, Golden!Init
    PROVE  GoldenInv
<1> USE DEF Golden!Init
<1>1. Golden!TypeOK /\ beyond \in Beyond
  <2>1. PICK x \in Beyond : g_data = [s \in 0..GoldenN |-> x]
    OBVIOUS
  <2> QED BY <2>1 DEF Golden!TypeOK, Golden!GoldenAssumption
<1>2. ShiftInv
  BY DEF ShiftInv, Golden!Slot, Golden!GoldenAssumption
<1>3. SumInv
  <2>1. Golden!Meeting(0) = 1 /\ 0 < GoldenN
    BY DEF Golden!Meeting, Golden!GoldenAssumption
  <2>2. Golden!Sums(0)[1] \in Int
    BY <2>1, GoldenSumsAreNumbers
  <2> QED BY <2>1, <2>2 DEF SumInv, Golden!Sum
<1>4. lines \in Seq(Int) /\ Golden!LinesAreSums
  BY DEF Golden!LinesAreSums
<1> QED BY <1>1, <1>2, <1>3, <1>4 DEF GoldenInv

\* A turn inside the arrays moves the sample of this line to place j.
LEMMA TurnInside ==
    ASSUME Golden!GoldenAssumption, GoldenInv, Golden!Turn, g_j < GoldenN
    PROVE  GoldenInv'
<1> USE GoldenTypes
<1>1. /\ g_i < DATALEN /\ g_j \in Golden!Slot /\ g_j < Golden!Meeting(g_i) /\ g_j <= g_i
      /\ g_j' = g_j - 1 /\ g_i' = g_i /\ lines' = lines /\ beyond' = beyond
  BY DEF Golden!Turn, GoldenInv, SumInv, Golden!Meeting
<1>2. Golden!Shifted(g_j) = g_i - g_j
  <2>1. CASE g_j = 0
    BY <2>1 DEF Golden!Shifted
  <2>2. CASE g_j # 0
    <3>1. g_j - 1 \in Golden!Slot /\ g_j - 1 <= g_j /\ g_j - 1 < g_i
      BY <1>1, <2>2
    <3>2. g_data[g_j - 1] = g_i - 1 - (g_j - 1)
      BY <3>1 DEF GoldenInv, ShiftInv
    <3> QED BY <1>1, <2>2, <3>2 DEF Golden!Shifted
  <2> QED BY <2>1, <2>2
<1>3. /\ g_data' = [g_data EXCEPT ![g_j] = g_i - g_j]
      /\ num' = num + (g_i - g_j) * GoldenTaps[g_j]
  BY <1>1, <1>2, Zenon DEF Golden!Turn, Golden!Tap
<1>4. Golden!TypeOK' /\ beyond' \in Beyond /\ lines' \in Seq(Int)
  <2>1. g_i - g_j \in 0..DATALEN /\ (g_i - g_j) * GoldenTaps[g_j] \in Int /\ g_j' \in -1..GoldenN
    BY <1>1
  <2>2. num' \in Int
    BY <1>3, <2>1
  <2>3. g_data' \in [0..GoldenN -> (0..DATALEN) \cup Beyond]
    BY <1>3, <2>1
  <2> QED BY <1>1, <2>1, <2>2, <2>3 DEF Golden!TypeOK, GoldenInv
<1>5. ShiftInv'
  <2>1. ASSUME NEW k \in Golden!Slot
        PROVE  g_data'[k] = IF k = g_j THEN g_i - g_j ELSE g_data[k]
    BY <1>3
  <2>2. ASSUME NEW k \in Golden!Slot
        PROVE  /\ k > g_j - 1 /\ k <= g_i => g_data'[k] = g_i - k
               /\ k <= g_j - 1 /\ k < g_i => g_data'[k] = g_i - 1 - k
    <3>1. k > g_j - 1 => k = g_j \/ k > g_j
      BY <1>1
    <3>2. k <= g_j - 1 => k # g_j /\ k <= g_j
      BY <1>1
    <3> QED BY <2>1, <3>1, <3>2 DEF GoldenInv, ShiftInv
  <2> QED BY <1>1, <2>2 DEF ShiftInv
<1>6. SumInv'
  <2>1. Golden!Sums(g_i)[g_j + 1] = Golden!Sums(g_i)[g_j] + (g_i - g_j) * GoldenTaps[g_j]
    <3>1. g_i \in Nat
      OBVIOUS
    <3>2. Golden!Meeting(g_i) \in Nat
      BY <3>1, GoldenSumsAreNumbers, Zenon
    <3>3. g_j \in 0..(Golden!Meeting(g_i) - 1)
      BY <1>1, <3>2
    <3> QED BY <3>1, <3>3, GoldenSums, Zenon
  <2>2. /\ Golden!Sums(g_i)[g_j] \in Int /\ Golden!Sum(g_i) \in Int
        /\ (g_i - g_j) * GoldenTaps[g_j] \in Int
        /\ Golden!Meeting(g_i) \in Nat
    <3>1. g_i \in Nat /\ (g_i - g_j) * GoldenTaps[g_j] \in Int
      BY <1>1
    <3>2. /\ Golden!Meeting(g_i) \in Nat /\ Golden!Sum(g_i) \in Int
          /\ \A k \in 0..Golden!Meeting(g_i) : Golden!Sums(g_i)[k] \in Int
      BY <3>1, GoldenSumsAreNumbers, Zenon
    <3>3. g_j \in 0..Golden!Meeting(g_i)
      BY <1>1, <3>2
    <3> QED BY <3>1, <3>2, <3>3
  <2>3. num = Golden!Sum(g_i) - Golden!Sums(g_i)[g_j + 1]
    BY DEF GoldenInv, SumInv
  <2>4. num' = Golden!Sum(g_i) - Golden!Sums(g_i)[g_j]
    <3>1. \A x, y, z \in Int : x - (y + z) + z = x - y
      OBVIOUS
    <3>2. num' = Golden!Sum(g_i)
                   - (Golden!Sums(g_i)[g_j] + (g_i - g_j) * GoldenTaps[g_j])
                   + (g_i - g_j) * GoldenTaps[g_j]
      BY <1>3, <2>1, <2>3, Zenon
    <3> QED BY <2>2, <3>1, <3>2, Zenon
  <2>5. g_j' < GoldenN /\ g_j' < Golden!Meeting(g_i) /\ g_j' + 1 = g_j
    <3>1. \A x, y \in Int : x < y => x - 1 < y /\ x - 1 + 1 = x
      OBVIOUS
    <3>2. g_j \in Int /\ GoldenN \in Int /\ Golden!Meeting(g_i) \in Int
      BY <2>2
    <3>3. g_j < GoldenN /\ g_j < Golden!Meeting(g_i) /\ g_j' = g_j - 1
      BY <1>1, Zenon
    <3> QED BY <3>1, <3>2, <3>3, Zenon
  <2> QED BY <1>1, <2>4, <2>5 DEF SumInv
<1>7. Golden!LinesAreSums'
  BY <1>1 DEF GoldenInv, Golden!LinesAreSums
<1> QED BY <1>1, <1>4, <1>5, <1>6, <1>7 DEF GoldenInv

\* The turn that reaches behind the arrays adds a product of zero.
LEMMA TurnBehind ==
    ASSUME Golden!GoldenAssumption, GoldenInv, Golden!Turn, ~(g_j < GoldenN)
    PROVE  GoldenInv'
<1> USE GoldenTypes
<1>1. /\ g_i = GoldenN /\ g_j = GoldenN /\ num = 0 /\ g_i < DATALEN
      /\ g_j' = GoldenN - 1 /\ g_i' = g_i /\ lines' = lines /\ beyond' = beyond
  BY DEF Golden!Turn, GoldenInv, SumInv
<1>2. Golden!Shifted(GoldenN) = 0 /\ Golden!Tap(GoldenN) = beyond
  <2>1. /\ GoldenN - 1 \in Golden!Slot /\ GoldenN - 1 <= g_j /\ GoldenN - 1 < g_i
        /\ GoldenN \notin Golden!Slot
    BY <1>1
  <2>2. g_data[GoldenN - 1] = GoldenN - 1 - (GoldenN - 1)
    BY <1>1, <2>1 DEF GoldenInv, ShiftInv
  <2> QED BY <2>1, <2>2 DEF Golden!Shifted, Golden!Tap
<1>3. g_data' = [g_data EXCEPT ![GoldenN] = 0] /\ num' = 0 + 0 * beyond
  BY <1>1, <1>2, Zenon DEF Golden!Turn
<1>4. num' = 0
  BY <1>3
<1>5. Golden!TypeOK' /\ beyond' \in Beyond /\ lines' \in Seq(Int)
  <2>1. g_data' \in [0..GoldenN -> (0..DATALEN) \cup Beyond]
    BY <1>3
  <2> QED BY <1>1, <1>4, <2>1 DEF Golden!TypeOK, GoldenInv
<1>6. ShiftInv'
  <2>1. \A k \in Golden!Slot : g_data'[k] = g_data[k] /\ k <= GoldenN - 1 /\ k < GoldenN
    BY <1>3
  <2> QED BY <1>1, <2>1 DEF GoldenInv, ShiftInv
<1>7. SumInv'
  <2>1. Golden!Meeting(GoldenN) = GoldenN /\ Golden!Sums(GoldenN)[GoldenN] \in Int
    BY GoldenSumsAreNumbers DEF Golden!Meeting
  <2>2. Golden!Sum(GoldenN) - Golden!Sums(GoldenN)[GoldenN - 1 + 1] = 0
    BY <2>1 DEF Golden!Sum
  <2> QED BY <1>1, <1>4, <2>1, <2>2 DEF SumInv
<1>8. Golden!LinesAreSums'
  BY <1>1 DEF GoldenInv, Golden!LinesAreSums
<1> QED BY <1>1, <1>5, <1>6, <1>7, <1>8 DEF GoldenInv

\* Writing a line: the sum is whole, and every place is a sample behind for the next one.
LEMMA LineIInv ==
    ASSUME Golden!GoldenAssumption, GoldenInv, Golden!Line
    PROVE  GoldenInv'
<1> USE GoldenTypes
<1>1. /\ g_i < DATALEN /\ g_j = -1 /\ lines' = Append(lines, num)
      /\ g_i' = g_i + 1 /\ g_j' = Golden!Bound(g_i + 1)
      /\ num' = 0 /\ g_data' = g_data /\ beyond' = beyond
  BY DEF Golden!Line
<1>2. num = Golden!Sum(g_i)
  <2>1. Golden!Sums(g_i)[0] = 0 /\ Golden!Sum(g_i) \in Int
    <3>1. g_i \in Nat
      OBVIOUS
    <3> QED BY <3>1, GoldenSums, GoldenSumsAreNumbers, Zenon
  <2>2. num = Golden!Sum(g_i) - Golden!Sums(g_i)[g_j + 1]
    BY <1>1 DEF GoldenInv, SumInv
  <2> QED BY <1>1, <2>1, <2>2
<1>3. /\ lines' \in Seq(Int) /\ Len(lines') = g_i + 1 /\ lines'[g_i + 1] = num
      /\ \A n \in 1..g_i : lines'[n] = lines[n]
  BY <1>1
<1>4. Golden!TypeOK' /\ beyond' \in Beyond
  BY <1>1, <1>3 DEF Golden!TypeOK, GoldenInv, Golden!Bound
<1>5. ShiftInv'
  <2>1. ASSUME NEW k \in Golden!Slot, k <= g_i
        PROVE  g_data'[k] = g_i + 1 - 1 - k
    <3>1. k > g_j /\ g_i + 1 - 1 - k = g_i - k
      BY <1>1
    <3> QED BY <1>1, <2>1, <3>1 DEF GoldenInv, ShiftInv
  <2>2. ASSUME NEW k \in Golden!Slot
        PROVE  ~(k > Golden!Bound(g_i + 1) /\ k <= g_i + 1) /\ (k < g_i + 1 => k <= g_i)
    BY DEF Golden!Bound
  <2> QED BY <1>1, <2>1, <2>2 DEF ShiftInv
<1>6. SumInv'
  <2>1. CASE g_i + 1 = GoldenN
    BY <1>1, <2>1 DEF SumInv, Golden!Bound
  <2>2. CASE g_i + 1 # GoldenN
    <3>1. Golden!Bound(g_i + 1) < GoldenN /\ Golden!Bound(g_i + 1) + 1 = Golden!Meeting(g_i + 1)
      <4>1. CASE g_i + 1 > GoldenN
        BY <4>1 DEF Golden!Bound, Golden!Meeting
      <4>2. CASE g_i + 1 < GoldenN
        BY <4>2 DEF Golden!Bound, Golden!Meeting
      <4> QED BY <2>2, <4>1, <4>2
    <3>2. g_i + 1 \in Nat
      OBVIOUS
    <3>3. Golden!Meeting(g_i + 1) \in Nat /\ Golden!Sum(g_i + 1) \in Int
      BY <3>2, GoldenSumsAreNumbers
    <3>4. /\ Golden!Bound(g_i + 1) < Golden!Meeting(g_i + 1)
          /\ Golden!Sum(g_i + 1) - Golden!Sums(g_i + 1)[Golden!Bound(g_i + 1) + 1] = 0
      BY <3>1, <3>3 DEF Golden!Sum, Golden!Bound
    <3> QED BY <1>1, <3>1, <3>4 DEF SumInv
  <2> QED BY <2>1, <2>2
<1>7. Golden!LinesAreSums'
  <2>1. ASSUME NEW n \in 1..(g_i + 1)
        PROVE  lines'[n] = Golden!Sum(n - 1)
    <3>1. CASE n = g_i + 1
      <4>1. n - 1 = g_i
        BY <3>1
      <4> QED BY <1>2, <1>3, <3>1, <4>1
    <3>2. CASE n # g_i + 1
      <4>1. n \in 1..g_i
        BY <3>2
      <4> QED BY <1>3, <4>1 DEF GoldenInv, Golden!LinesAreSums
    <3> QED BY <3>1, <3>2
  <2> QED BY <1>3, <2>1 DEF Golden!LinesAreSums
<1> QED BY <1>3, <1>4, <1>5, <1>6, <1>7 DEF GoldenInv

-----------------------------------------------------------------------------
\* lab4_2_golden.dat holds the sums of the filter, for every length and all coefficients:
\* the word behind the arrays that PatternGenerater.c reads and writes once adds nothing.
THEOREM LinesCorrect == Spec => []LinesAreSums
<1>1. Init => GoldenInv
  BY GoldenInvInit, PartsAssumption, Zenon DEF Init
<1>2. ASSUME GoldenInv, [Next]_vars
      PROVE  GoldenInv'
  <2>1. Golden!Next \/ UNCHANGED golden
    BY <1>2, Zenon DEF vars, Next, ArraysStep, CountersStep, ConsoleStep, StartUpStep, GoldenStep,
                       BusStep, Over
  <2>2. CASE UNCHANGED golden
    BY <1>2, <2>2 DEF golden, GoldenInv, Golden!TypeOK, ShiftInv, SumInv, Golden!LinesAreSums
  <2>3. CASE Golden!Next
    BY <1>2, <2>3, TurnInside, TurnBehind, LineIInv, PartsAssumption DEF Golden!Next
  <2> QED BY <2>1, <2>2, <2>3
<1>3. GoldenInv => LinesAreSums
  BY DEF GoldenInv, LinesAreSums
<1> QED BY <1>1, <1>2, <1>3, PTL DEF Spec

-----------------------------------------------------------------------------
(* BusFabric.  Nothing but an answer ends an access, and the grant moves   *)
(* only when the bus is free.  So it is enough that no slave but its own   *)
(* answers an access.  The time-out does not, to a quick slave's: it       *)
(* starts over with every access, and its first clock is the one after     *)
(* which the slave answers.  It does to the stalled back door's: that is   *)
(* the exception, and the ghost orphan is what remembers it.               *)

\* The time-out has not begun to count when a slave takes an access on.
CountInv ==
    /\ Bus!Selects("quick") /\ ~ack => b_count = TimeOut
    /\ Bus!Selects("door") /\ wbbd_state = "IDLE" => b_count = TimeOut

\* What the slaves work on is on the bus.
DoorInv == ~orphan /\ wbbd_state # "IDLE" => Bus!Selects("door") /\ grant = asker
AckInv  == ~orphan /\ ack => Bus!Selects("quick")

BusInv == Bus!TypeOK /\ CountInv /\ DoorInv /\ AckInv

-----------------------------------------------------------------------------
(* The arbiter.                                                            *)

\* The turn goes to a master that asks.
LEMMA NextInTurnAsks ==
    ASSUME Bus!FabricAssumption, Bus!TypeOK, NEW ms, ms \subseteq Bus!Master, ms # {}
    PROVE  Bus!NextInTurn(ms) \in ms
<1>1. \A m \in Bus!Master : Bus!Turns(m) \in Nat
  BY DEF Bus!Turns, Bus!Master, Bus!TypeOK, Bus!FabricAssumption
<1>2. PICK x \in {Bus!Turns(m) : m \in ms} : \A y \in {Bus!Turns(m) : m \in ms} : x <= y
  <2>1. {Bus!Turns(m) : m \in ms} \subseteq Nat /\ {Bus!Turns(m) : m \in ms} # {}
    BY <1>1
  <2> QED BY <2>1, LeastNumber
<1>3. PICK m \in ms : x = Bus!Turns(m)
  BY <1>2
<1>4. \A n \in ms : Bus!Turns(m) <= Bus!Turns(n)
  BY <1>2, <1>3
<1> QED BY <1>4, Zenon DEF Bus!NextInTurn

\* The grant goes to a master, and stays where it is while an access is on the bus.
LEMMA GrantStep ==
    ASSUME Bus!FabricAssumption, Bus!TypeOK, Bus!FabricClock
    PROVE  grant' \in Bus!Master /\ (Bus!shared_cyc => grant' = grant)
<1> DEFINE asking == {m \in Bus!Master : req[m] # None}
<1>1. grant' = IF Bus!shared_cyc \/ asking = {} THEN grant ELSE Bus!NextInTurn(asking)
  BY DEF Bus!FabricClock, Bus!NextGrant
<1>2. asking # {} => Bus!NextInTurn(asking) \in Bus!Master
  BY NextInTurnAsks
<1> QED BY <1>1, <1>2 DEF Bus!TypeOK

-----------------------------------------------------------------------------
(* Types.                                                                  *)

LEMMA TypeStep ==
    ASSUME Bus!FabricAssumption, Bus!TypeOK, Bus!FabricClock
    PROVE  Bus!TypeOK'
<1> USE DEF Bus!TypeOK, Bus!FabricAssumption
<1>1. req' \in [Bus!Master -> Asked \cup {None}]
  BY DEF Bus!FabricClock, Bus!MastersClock
<1>2. left' \in 0..(Beats - 1)
  BY DEF Bus!FabricClock, Bus!MastersClock
<1>3. b_count' \in 0..TimeOut
  <2>1. Bus!wait_1 => b_count > 0
    BY DEF Bus!wait_1, Bus!shared_ack, Bus!done
  <2> QED BY <2>1 DEF Bus!FabricClock, Bus!NextCount
<1>4. ack' \in BOOLEAN /\ orphan' \in BOOLEAN
  BY DEF Bus!FabricClock
<1>5. wbbd_state' \in {"IDLE", "SETUP", "RW", "DONE"} /\ lane' \in 0..(Lanes - 1)
  BY DEF Bus!FabricClock, Bus!DoorClock
<1>6. asker' \in Bus!Master
  BY DEF Bus!FabricClock, Bus!DoorClock
<1> QED BY <1>1, <1>2, <1>3, <1>4, <1>5, <1>6, GrantStep

-----------------------------------------------------------------------------
(* The clock.                                                              *)

\* An access that is not answered stays on the bus; the time-out counts only then.
LEMMA AccessStays ==
    ASSUME Bus!FabricAssumption, Bus!TypeOK, Bus!FabricClock
    PROVE  /\ Bus!shared_cyc /\ ~Bus!shared_ack =>
                /\ Bus!shared_cyc' /\ \A b : Bus!Selects(b)' <=> Bus!Selects(b)
                /\ grant' = grant
           /\ ~(Bus!shared_cyc /\ ~Bus!shared_ack) => b_count' = TimeOut
<1>1. ASSUME Bus!shared_cyc, ~Bus!shared_ack
      PROVE  grant' = grant /\ req'[grant] = req[grant]
  <2>1. grant' = grant /\ grant \in Bus!Master
    BY <1>1, GrantStep DEF Bus!TypeOK
  <2>2. ~Bus!Withdraws(grant) /\ req[grant] # None
    BY <1>1 DEF Bus!Withdraws, Bus!Answered, Bus!shared_cyc
  <2>3. req'[grant] \in {req[grant]}
    BY <2>1, <2>2 DEF Bus!FabricClock, Bus!MastersClock, Bus!MayAsk
  <2> QED BY <2>1, <2>3
<1>2. ~(Bus!shared_cyc /\ ~Bus!shared_ack) => b_count' = TimeOut
  BY DEF Bus!FabricClock, Bus!NextCount, Bus!wait_1
<1> QED BY <1>1, <1>2 DEF Bus!shared_cyc, Bus!Selects

\* A slave takes an access on in its first clock, so the count starts with it.
LEMMA CountStep ==
    ASSUME Bus!FabricAssumption, BusInv, Bus!FabricClock
    PROVE  CountInv'
<1>0. Bus!TypeOK
  BY DEF BusInv
<1>1. CASE ~(Bus!shared_cyc /\ ~Bus!shared_ack)
  BY <1>0, <1>1, AccessStays DEF CountInv
<1>2. CASE Bus!shared_cyc /\ ~Bus!shared_ack
  <2>1. (\A b : Bus!Selects(b)' <=> Bus!Selects(b)) /\ ~ack /\ ~Bus!hk_ack
    BY <1>0, <1>2, AccessStays DEF Bus!shared_ack
  <2>2. Bus!Selects("quick") => ack'
    BY <2>1 DEF Bus!FabricClock
  <2>3. wbbd_state' = "IDLE" => ~Bus!Selects("door")
    BY <2>1 DEF Bus!FabricClock, Bus!DoorClock, Bus!hk_ack
  <2> QED BY <2>1, <2>2, <2>3 DEF CountInv
<1> QED BY <1>1, <1>2

\* The quick slaves answer the access they have seen.
LEMMA AckStep ==
    ASSUME Bus!FabricAssumption, BusInv, Bus!FabricClock
    PROVE  AckInv'
<1>0. Bus!TypeOK /\ TimeOut > 0
  BY DEF BusInv, Bus!FabricAssumption
<1> SUFFICES ASSUME ~orphan', ack' PROVE Bus!Selects("quick")'
  BY DEF AckInv
<1>1. Bus!Selects("quick") /\ ~ack /\ ~orphan
  BY DEF Bus!FabricClock
<1>2. ~Bus!done
  BY <1>0, <1>1 DEF BusInv, CountInv, Bus!done
<1>3. ~Bus!hk_ack
  <2>1. Bus!hk_ack => Bus!Selects("door")
    BY <1>1 DEF BusInv, DoorInv, Bus!hk_ack
  <2> QED BY <1>1, <2>1 DEF Bus!Selects
<1>4. Bus!shared_cyc /\ ~Bus!shared_ack
  BY <1>1, <1>2, <1>3 DEF Bus!shared_ack, Bus!Selects
<1> QED BY <1>0, <1>1, <1>4, AccessStays

\* The back door's access stays on the bus until it is done or timed out.
LEMMA DoorStep ==
    ASSUME Bus!FabricAssumption, BusInv, Bus!FabricClock
    PROVE  DoorInv'
<1>0. Bus!TypeOK /\ TimeOut > 0
  BY DEF BusInv, Bus!FabricAssumption
<1> SUFFICES ASSUME ~orphan', wbbd_state' # "IDLE"
             PROVE  Bus!Selects("door")' /\ grant' = asker'
  BY DEF DoorInv
<1>1. ~orphan /\ ~(wbbd_state \in {"SETUP", "RW"} /\ Bus!done /\ grant = asker)
  BY DEF Bus!FabricClock
<1>2. Bus!Selects("door") => ~ack
  BY <1>1 DEF BusInv, AckInv, Bus!Selects
<1>3. CASE wbbd_state = "IDLE"
  <2>1. Bus!Selects("door") /\ asker' = grant
    BY <1>3 DEF Bus!FabricClock, Bus!DoorClock
  <2>2. ~Bus!done /\ ~Bus!hk_ack
    BY <1>0, <1>3, <2>1 DEF BusInv, CountInv, Bus!done, Bus!hk_ack
  <2>3. Bus!shared_cyc /\ ~Bus!shared_ack
    BY <1>2, <2>1, <2>2 DEF Bus!shared_ack, Bus!Selects
  <2> QED BY <1>0, <2>1, <2>3, AccessStays
<1>4. CASE wbbd_state \in {"SETUP", "RW"}
  <2>1. Bus!Selects("door") /\ grant = asker /\ asker' = asker
    BY <1>1, <1>4 DEF Bus!FabricClock, Bus!DoorClock, BusInv, DoorInv
  <2>2. ~Bus!done /\ ~Bus!hk_ack
    BY <1>1, <1>4, <2>1 DEF Bus!hk_ack
  <2>3. Bus!shared_cyc /\ ~Bus!shared_ack
    BY <1>2, <2>1, <2>2 DEF Bus!shared_ack, Bus!Selects
  <2> QED BY <1>0, <2>1, <2>3, AccessStays
<1>5. wbbd_state # "DONE"
  BY DEF Bus!FabricClock, Bus!DoorClock
<1> QED BY <1>0, <1>3, <1>4, <1>5 DEF Bus!TypeOK

\* mgmt_core.v and housekeeping.v: an acknowledgement finds its access on the bus, from
\* the master that made it and to the slave that gives it, unless the time-out has
\* ended the access of the back door that is still at work on it.
THEOREM AnswersCorrect == Spec => []AnswersBelong
<1>1. ASSUME Init PROVE BusInv
  <2>0. Bus!Init /\ Bus!FabricAssumption
    BY <1>1, PartsAssumption, Zenon DEF Init
  <2>1. 0 \in Bus!Master /\ 0 \in 0..(Beats - 1) /\ 0 \in 0..(Lanes - 1) /\ TimeOut \in 0..TimeOut
    BY <2>0 DEF Bus!Master, Bus!FabricAssumption
  <2>2. ack = FALSE /\ orphan = FALSE /\ wbbd_state = "IDLE" /\ ~Bus!shared_cyc
    BY <2>0, <2>1, Zenon DEF Bus!Init, Bus!shared_cyc
  <2>3. Bus!TypeOK
    BY <2>0, <2>1, <2>2 DEF Bus!Init, Bus!TypeOK
  <2> QED BY <2>2, <2>3 DEF BusInv, CountInv, DoorInv, AckInv, Bus!Selects
<1>2. ASSUME BusInv, [Next]_vars
      PROVE  BusInv'
  <2>1. Bus!FabricClock \/ UNCHANGED bus
    BY <1>2, Zenon DEF vars, Next, ArraysStep, CountersStep, ConsoleStep, StartUpStep, GoldenStep,
                       BusStep, Over
  <2>2. CASE Bus!FabricClock
    BY <1>2, <2>2, TypeStep, CountStep, AckStep, DoorStep, PartsAssumption DEF BusInv
  <2>3. CASE UNCHANGED bus
    BY <1>2, <2>3 DEF bus, BusInv, Bus!TypeOK, CountInv, DoorInv, AckInv, Bus!Selects,
                      Bus!shared_cyc
  <2> QED BY <2>1, <2>2, <2>3
<1>3. BusInv => AnswersBelong
  BY DEF BusInv, AckInv, DoorInv, Bus!AnswersBelong, Bus!hk_ack, AnswersBelong
<1> QED BY <1>1, <1>2, <1>3, PTL DEF Spec

-----------------------------------------------------------------------------
(* PerfCounters.  After the first half of pcount_reset a counter's low     *)
(* word is what it has counted since, and there are fewer instructions     *)
(* left than would let it carry; so the second half can clear the rest     *)
(* without losing anything.                                                *)

\* Counter d has counted at most n since its low word was cleared.
LowIsCounted(d, n) == Counters!Low(p_count[d]) = counted[d] /\ counted[d] <= n

\* Where pcount_reset is, as the counters before and behind it show.
HalvesInv ==
    \A d \in Counters!Counter :
        /\ p_pc[1] = "low" /\ d < p_pc[2] => LowIsCounted(d, p_pc[2] - 1 - d)
        /\ p_pc[1] = "high" /\ d < p_pc[2] => p_count[d] = counted[d]
        /\ p_pc[1] = "high" /\ d >= p_pc[2] => LowIsCounted(d, LastCounter + p_pc[2] - d)

CountersInv == Counters!TypeOK /\ HalvesInv /\ Counters!ResetMeansZero

\* A word of a counter and what is left of it when the other word is cleared.
LEMMA WordsOfCounter ==
    ASSUME Counters!CounterAssumption, NEW x \in Counters!Value
    PROVE  /\ Counters!Low(x) \in 0..(W - 1) /\ Counters!ClearHigh(x) = Counters!Low(x)
           /\ Counters!ClearHigh(x) \in Counters!Value
           /\ Counters!ClearLow(x) \in Counters!Value /\ Counters!Low(Counters!ClearLow(x)) = 0
<1> DEFINE q == x \div W
           r == x % W
<1>1. W \in Nat /\ W > 1 /\ x \in Int /\ 0 <= x /\ x < W * W
  BY DEF Counters!CounterAssumption, Counters!Value
<1>2. q \in Int /\ r \in 0..(W - 1) /\ x = W * q + r
  BY <1>1
<1> HIDE DEF q, r
<1>3. 0 <= q /\ q < W
  BY <1>1, <1>2
<1>4. r < W * W /\ 0 <= q * W /\ q * W < W * W /\ (q * W) % W = 0
  BY <1>1, <1>2, <1>3
<1> QED BY <1>1, <1>2, <1>3, <1>4
        DEF Counters!Low, Counters!High, Counters!ClearHigh, Counters!ClearLow, Counters!Value,
            q, r

\* A counter stays one, and counts in its low word until that is full.
LEMMA NoCarry ==
    ASSUME Counters!CounterAssumption, NEW x \in Counters!Value, NEW n \in {0, 1}
    PROVE  /\ Counters!Plus(x, n) \in Counters!Value
           /\ Counters!Low(x) + n < W => Counters!Low(Counters!Plus(x, n)) = Counters!Low(x) + n
           /\ x + n < W => Counters!Plus(x, n) = x + n
<1> DEFINE q == x \div W
           r == x % W
<1>1. W \in Nat /\ W > 1 /\ x \in Int /\ 0 <= x /\ x < W * W
  BY DEF Counters!CounterAssumption, Counters!Value
<1>2. q \in Int /\ r \in 0..(W - 1) /\ x = W * q + r
  BY <1>1
<1> HIDE DEF q, r
<1>3. 0 <= q /\ q <= W - 1
  BY <1>1, <1>2
<1>4. W * W \in Nat /\ W * W > W
  BY <1>1
<1>5. (x + n) % (W * W) \in 0..(W * W - 1)
  BY <1>1, <1>4
<1>6. ASSUME r + n < W
      PROVE  ((x + n) % (W * W)) % W = r + n
  <2>1. x + n = W * q + (r + n) /\ 0 <= x + n
    BY <1>1, <1>2
  <2>2. W * q <= W * W - W
    <3>1. \A y, z \in Nat : y * z >= 0
      OBVIOUS
    <3>2. W - 1 - q \in Nat
      BY <1>1, <1>2, <1>3
    <3>3. W * (W - 1 - q) >= 0
      BY <1>1, <3>1, <3>2
    <3>4. W * (W - 1 - q) = W * W - W - W * q
      BY <1>1, <1>2
    <3> QED BY <1>1, <1>2, <3>3, <3>4
  <2>3. x + n < W * W
    BY <1>1, <1>2, <1>6, <2>1, <2>2
  <2>4. (x + n) % (W * W) = x + n
    BY <1>1, <1>4, <2>1, <2>3
  <2>5. (x + n) % W = r + n
    BY <1>1, <1>2, <1>6, <2>1
  <2> QED BY <2>4, <2>5
<1>7. x + n < W => (x + n) % (W * W) = x + n
  BY <1>1, <1>4
<1> QED BY <1>5, <1>6, <1>7 DEF Counters!Low, Counters!Plus, Counters!Value, r

\* The counters and the history count together.
LEMMA CountersStepInv ==
    ASSUME Counters!CounterAssumption, CountersInv, Counters!Next
    PROVE  CountersInv'
<1> USE DEF CountersInv
<1> DEFINE C == Counters!Counter
<1>1. /\ LastCounter \in Nat /\ W \in Nat /\ W > LastCounter + 1 /\ C = 0..LastCounter
      /\ p_count \in [C -> Counters!Value] /\ counted \in [C -> Counters!Value]
      /\ \A d \in C : counted[d] \in Int
      /\ 0 \in Counters!Value
  BY DEF Counters!CounterAssumption, Counters!TypeOK, Counters!Counter, Counters!Value
<1>2. \A e \in Counters!Events : e \in [C -> {0, 1}]
  BY DEF Counters!Events
<1>3. CASE Counters!Call
  BY <1>3, <1>1 DEF Counters!Call, Counters!Halves, Counters!TypeOK, HalvesInv,
                    Counters!ResetMeansZero, Counters!Counter
<1>4. CASE Counters!Enable
  BY <1>4 DEF Counters!Enable, Counters!TypeOK, HalvesInv, LowIsCounted, Counters!ResetMeansZero
<1>5. CASE Counters!Elsewhere
  <2>1. PICK e \in [C -> {0, 1}] :
           /\ p_count' = [c \in C |-> Counters!Plus(p_count[c], e[c])]
           /\ counted' = [c \in C |-> Counters!Plus(counted[c], e[c])]
    BY <1>2, <1>5 DEF Counters!Elsewhere
  <2>2. p_pc' = <<"idle", 0>> /\ p_pc = <<"idle", 0>> /\ UNCHANGED <<inhibit, reset>>
    BY <1>5 DEF Counters!Elsewhere
  <2>3. p_count' \in [C -> Counters!Value] /\ counted' \in [C -> Counters!Value]
    BY <1>1, <2>1, NoCarry
  <2>4. reset => p_count' = counted'
    BY <2>1, <2>2 DEF Counters!ResetMeansZero
  <2> QED BY <2>2, <2>3, <2>4 DEF Counters!TypeOK, HalvesInv, Counters!ResetMeansZero
<1>6. CASE Counters!Instruction
  <2>1. PICK c \in C : p_pc[2] = c /\ p_pc = <<p_pc[1], c>> /\ p_pc[1] \in {"low", "high"}
    BY <1>6 DEF Counters!Instruction, Counters!TypeOK
  <2>2. PICK e \in [C -> {0, 1}] :
           /\ p_count' = [d \in C |-> IF d = c THEN Counters!Cleared(p_pc[1], p_count[d])
                                               ELSE Counters!Plus(p_count[d], e[d])]
           /\ counted' = [d \in C |-> IF d # c THEN Counters!Plus(counted[d], e[d])
                                      ELSE IF p_pc[1] = "low" THEN 0 ELSE counted[d]]
    BY <1>2, <1>6, <2>1 DEF Counters!Instruction
  <2>3. p_pc' = Counters!After(p_pc[1], c) /\ inhibit' = inhibit
        /\ reset' = (reset \/ p_pc' = <<"idle", 0>>)
    BY <1>6, <2>1 DEF Counters!Instruction
  <2>4. p_count' \in [C -> Counters!Value] /\ counted' \in [C -> Counters!Value]
    BY <1>1, <2>1, <2>2, NoCarry, WordsOfCounter DEF Counters!Cleared
  \* What the instruction does to the low words that have been cleared.
  <2>5. ASSUME NEW d \in C, NEW n \in Int, d # c, n + 1 < W, LowIsCounted(d, n)
        PROVE  LowIsCounted(d, n + 1)'
    <3>1. /\ p_count'[d] = Counters!Plus(p_count[d], e[d])
          /\ counted'[d] = Counters!Plus(counted[d], e[d])
          /\ e[d] \in {0, 1} /\ p_count[d] \in Counters!Value /\ counted[d] \in Counters!Value
      BY <1>1, <2>2, <2>5
    <3>2. Counters!Low(p_count[d]) = counted[d] /\ counted[d] <= n /\ counted[d] \in Int
      BY <1>1, <2>5 DEF LowIsCounted
    <3>3. counted[d] + e[d] < W
      BY <1>1, <2>5, <3>1, <3>2
    <3>4. /\ Counters!Low(Counters!Plus(p_count[d], e[d])) = counted[d] + e[d]
          /\ Counters!Plus(counted[d], e[d]) = counted[d] + e[d]
      BY <3>1, <3>2, <3>3, NoCarry
    <3> QED BY <2>5, <3>1, <3>2, <3>4 DEF LowIsCounted
  <2>6. CASE p_pc[1] = "low"
    <3>1. /\ counted'[c] = 0 /\ p_count'[c] = Counters!ClearLow(p_count[c])
          /\ Counters!Low(p_count'[c]) = 0
      BY <1>1, <2>1, <2>2, <2>6, WordsOfCounter DEF Counters!Cleared
    <3>2. \A d \in C : d <= c => LowIsCounted(d, c - d)'
      <4>1. SUFFICES ASSUME NEW d \in C, d <= c PROVE LowIsCounted(d, c - d)'
        BY Zenon
      <4>2. CASE d = c
        BY <1>1, <3>1, <4>2 DEF LowIsCounted
      <4>3. CASE d # c
        <5>1. c - 1 - d \in Int /\ c - 1 - d + 1 < W /\ d < c /\ c - 1 - d + 1 = c - d
          BY <1>1, <2>1, <4>1, <4>3
        <5>2. LowIsCounted(d, c - 1 - d)
          BY <2>1, <2>6, <5>1 DEF HalvesInv
        <5> QED BY <2>5, <4>3, <5>1, <5>2
      <4> QED BY <4>2, <4>3
    <3>3. CASE c < LastCounter
      <4>1. p_pc' = <<"low", c + 1>> /\ c + 1 \in C
        BY <1>1, <2>1, <2>3, <2>6, <3>3 DEF Counters!After
      <4>2. \A d \in C : d < c + 1 => d <= c /\ c + 1 - 1 - d = c - d
        BY <1>1, <2>1
      <4>3. \A d \in C : d < c + 1 => LowIsCounted(d, c + 1 - 1 - d)'
        BY <3>2, <4>2
      <4>4. p_pc'[1] = "low" /\ p_pc'[2] = c + 1
        BY <4>1
      <4>5. HalvesInv'
        BY <1>1, <4>3, <4>4 DEF HalvesInv, LowIsCounted
      <4> QED BY <2>3, <2>4, <4>1, <4>5 DEF Counters!TypeOK, Counters!ResetMeansZero
    <3>4. CASE c = LastCounter
      <4>1. p_pc' = <<"high", 0>> /\ 0 \in C
        BY <1>1, <2>1, <2>3, <2>6, <3>4 DEF Counters!After, Counters!Halves
      <4>2. \A d \in C : d <= c /\ ~(d < 0) /\ LastCounter + 0 - d = c - d
        BY <1>1, <2>1, <3>4
      <4> QED BY <2>3, <2>4, <3>2, <4>1, <4>2
              DEF Counters!TypeOK, HalvesInv, Counters!ResetMeansZero
    <3> QED BY <1>1, <2>1, <3>3, <3>4
  <2>7. CASE p_pc[1] = "high"
    <3>1. /\ counted'[c] = counted[c] /\ p_count'[c] = Counters!ClearHigh(p_count[c])
          /\ Counters!ClearHigh(p_count[c]) = counted[c]
      <4>1. Counters!Low(p_count[c]) = counted[c]
        BY <1>1, <2>1, <2>7 DEF HalvesInv, LowIsCounted
      <4> QED BY <1>1, <2>1, <2>2, <2>7, <4>1, WordsOfCounter DEF Counters!Cleared
    <3>2. \A d \in C : d <= c => p_count'[d] = counted'[d]
      BY <1>1, <2>1, <2>2, <2>7, <3>1 DEF HalvesInv
    <3>3. CASE c < LastCounter
      <4>1. p_pc' = <<"high", c + 1>> /\ c + 1 \in C
        BY <1>1, <2>1, <2>3, <2>7, <3>3 DEF Counters!After, Counters!Halves
      <4>2. ASSUME NEW d \in C, d >= c + 1 PROVE LowIsCounted(d, LastCounter + (c + 1) - d)'
        <5>0. LastCounter \in Int /\ c \in Int /\ d \in Int /\ d >= c + 1
          BY <1>1, <4>2
        <5>1. /\ LastCounter + c - d \in Int /\ LastCounter + c - d + 1 < W /\ d # c /\ d >= c
              /\ LastCounter + c - d + 1 = LastCounter + (c + 1) - d
          BY <1>1, <5>0
        <5>2. LowIsCounted(d, LastCounter + c - d)
          BY <2>1, <2>7, <5>1 DEF HalvesInv
        <5> QED BY <2>5, <5>1, <5>2
      <4>3. \A d \in C : d < c + 1 => d <= c
        BY <1>1, <2>1
      <4> QED BY <2>3, <2>4, <3>2, <4>1, <4>2, <4>3
              DEF Counters!TypeOK, HalvesInv, Counters!ResetMeansZero
    <3>4. CASE c = LastCounter
      <4>1. p_pc' = <<"idle", 0>>
        BY <1>1, <2>1, <2>3, <2>7, <3>4 DEF Counters!After, Counters!Halves
      <4>2. p_count' = counted'
        BY <1>1, <2>4, <3>2, <3>4
      <4> QED BY <2>3, <2>4, <4>1, <4>2 DEF Counters!TypeOK, HalvesInv, Counters!ResetMeansZero
    <3> QED BY <1>1, <2>1, <3>3, <3>4
  <2> QED BY <2>1, <2>6, <2>7
<1> QED BY <1>3, <1>4, <1>5, <1>6 DEF Counters!Next

\* simple_system_common.c: when pcount_reset has returned, every counter holds what it has
\* counted since, for any number of counters, any width that outlasts the calls, and
\* whatever they held before.
THEOREM ResetCorrect == Spec => []ResetMeansZero
<1>1. ASSUME Init PROVE CountersInv
  <2>1. Counters!Init /\ Counters!CounterAssumption
    BY <1>1, PartsAssumption, Zenon DEF Init
  <2>2. Starts \subseteq Counters!Value /\ 0 \in Counters!Value
    BY <2>1 DEF Counters!CounterAssumption, Counters!Value
  <2>3. p_count \in [Counters!Counter -> Counters!Value]
    BY <2>1, <2>2 DEF Counters!Init
  <2>4. counted \in [Counters!Counter -> Counters!Value]
    BY <2>1, <2>2 DEF Counters!Init
  <2>5. p_pc = <<"idle", 0>> /\ inhibit \in BOOLEAN /\ reset = FALSE
    BY <2>1, Zenon DEF Counters!Init
  <2>6. HalvesInv
    BY <2>5 DEF HalvesInv
  <2>7. Counters!TypeOK
    <3>1. reset \in BOOLEAN
      BY <2>5
    <3>2. p_pc \in {<<"idle", 0>>}
                     \cup {<<h, c>> : h \in {"low", "high"}, c \in Counters!Counter}
      BY <2>5
    <3>3. inhibit \in BOOLEAN
      BY <2>5
    <3> QED BY <2>3, <2>4, <3>1, <3>2, <3>3 DEF Counters!TypeOK
  <2> QED BY <2>5, <2>6, <2>7, Zenon DEF CountersInv, Counters!ResetMeansZero
<1>2. ASSUME CountersInv, [Next]_vars
      PROVE  CountersInv'
  <2>1. Counters!Next \/ UNCHANGED counters
    BY <1>2, Zenon DEF vars, Next, ArraysStep, CountersStep, ConsoleStep, StartUpStep, GoldenStep,
                       BusStep, Over
  <2>2. CASE Counters!Next
    BY <1>2, <2>2, CountersStepInv, PartsAssumption
  <2>3. CASE UNCHANGED counters
    BY <1>2, <2>3 DEF counters, CountersInv, Counters!TypeOK, HalvesInv, LowIsCounted,
                      Counters!ResetMeansZero
  <2> QED BY <2>1, <2>2, <2>3
<1>3. CountersInv => ResetMeansZero
  BY DEF CountersInv, ResetMeansZero
<1> QED BY <1>1, <1>2, <1>3, PTL DEF Spec

-----------------------------------------------------------------------------
(* CsrArray.  The code goes from the first word to the last; where byte n  *)
(* of the number lies is counted from the other end.  The invariant says   *)
(* for each byte on both sides where it came from.                         *)

\* How many words of the register are written, and below which element the array is read.
Written   == IF Arrays!Shared THEN a_i ELSE a_i * Arrays!WordsPerElement + a_k
ReadSoFar == IF Arrays!Shared THEN a_i * Arrays!nsubelems - Arrays!Offset(Arrays!nsubregs) ELSE a_i

\* The byte of the array that belongs into byte b of word w ...
Target(w, b) ==
    LET n == 4 * (Arrays!Needed - 1 - w) + b
    IN  IF n < Arrays!ByteCount THEN <<"buf", cnt - 1 - n \div size, n % size>> ELSE Arrays!NoByte

\* ... and the byte of the register that belongs into byte b of element e.
Source(e, b) ==
    LET n == size * (cnt - 1 - e) + b
    IN  <<"csr", Arrays!Needed - 1 - n \div 4, n % 4>>

\* Where the outer loop ends.
Last == IF Arrays!Shared THEN Arrays!nsubregs ELSE cnt

\* The register, the array, and the word or two of an element that _csr_rd has read.
CsrIs == csr = [w \in Arrays!AllWords |-> [b \in 0..3 |->
                  IF op = "wr" /\ w < Written THEN Target(w, b) ELSE <<"csr", w, b>>]]
BufIs == buf = [e \in 0..(cnt - 1) |-> [b \in 0..(size - 1) |->
                  IF op = "rd" /\ e < ReadSoFar THEN Source(e, b) ELSE <<"buf", e, b>>]]
ValIs == a_v = [b \in 0..7 |->
                  IF op = "rd" /\ a_k = 1 /\ b < 4 THEN <<"csr", 2 * a_i, b>> ELSE Arrays!NoByte]

\* The call, and how far its loops are.
Sorts == /\ op \in {"rd", "wr"} /\ size \in ElementSizes /\ cnt \in 1..MaxCount
         /\ a_pc \in {"loop", "done"}
Places == /\ a_i \in 0..Last /\ a_k \in 0..1 /\ (a_k = 1 => size = 8 /\ a_i < cnt)
          /\ (a_pc = "done" => a_i = Last)

ArraysInv == Sorts /\ Places /\ CsrIs /\ BufIs /\ ValIs

-----------------------------------------------------------------------------
\* The sizes in numbers: words of one element, elements of one word, words of the array.
LEMMA Sizes ==
    ASSUME size \in {1, 2, 4, 8}, cnt \in Nat \ {0}
    PROVE  /\ Arrays!Shared <=> size \in {1, 2}
           /\ Arrays!nsubregs = Arrays!Needed /\ Arrays!Needed \in Nat
           /\ size = 1 => /\ Arrays!nsubelems = 4 /\ Arrays!ByteCount = cnt
                          /\ 4 * Arrays!Needed >= cnt /\ 4 * Arrays!Needed < cnt + 4
           /\ size = 2 => /\ Arrays!nsubelems = 2 /\ Arrays!ByteCount = 2 * cnt
                          /\ 2 * Arrays!Needed >= cnt /\ 2 * Arrays!Needed < cnt + 2
           /\ size = 4 => /\ Arrays!WordsPerElement = 1 /\ Arrays!ByteCount = 4 * cnt
                          /\ Arrays!Needed = cnt
           /\ size = 8 => /\ Arrays!WordsPerElement = 2 /\ Arrays!ByteCount = 8 * cnt
                          /\ Arrays!Needed = 2 * cnt
<1> USE DEF Arrays!Shared, Arrays!nsubregs, Arrays!Needed, Arrays!nsubelems, Arrays!ByteCount,
            Arrays!WordsPerElement, Arrays!num_subregs, Arrays!CSR_DW_BYTES
<1>1. CASE size = 1
  BY <1>1
<1>2. CASE size = 2
  BY <1>2
<1>3. CASE size = 4
  BY <1>3
<1>4. CASE size = 8
  BY <1>4
<1> QED BY <1>1, <1>2, <1>3, <1>4

\* A byte of an element.
LEMMA Division ==
    ASSUME NEW z \in {1, 2, 4, 8}, NEW c \in Nat, NEW g \in 0..(c - 1), NEW m \in 0..(z - 1)
    PROVE  z * g + m < z * c /\ (z * g + m) \div z = g /\ (z * g + m) % z = m
<1>1. CASE z = 1
  BY <1>1
<1>2. CASE z = 2
  BY <1>2
<1>3. CASE z = 4
  BY <1>3
<1>4. CASE z = 8
  BY <1>4
<1> QED BY <1>1, <1>2, <1>3, <1>4

\* Bytes of the array and of the register are not zeros that were shifted in.
LEMMA ByteKinds ==
    ASSUME NEW x, NEW y
    PROVE  <<"buf", x, y>> # Arrays!NoByte /\ <<"csr", x, y>> # Arrays!NoByte
BY DEF Arrays!NoByte

-----------------------------------------------------------------------------
(* _csr_wr_buf: the word that several elements share.                      *)

\* v after j of the elements of word w: the last of them is in the lowest bytes.
PackedSoFar(w, j) ==
    [b \in 0..7 |-> LET e == Arrays!Element(w, j - 1 - b \div size)
                    IN  IF b \div size < j /\ e >= 0 THEN <<"buf", e, b % size>> ELSE Arrays!NoByte]

PackOne(w, j, x) ==
    IF Arrays!Element(w, j - 1) < 0 THEN x
    ELSE Arrays!Or(Arrays!Shl(x, size), Arrays!Extend(buf[Arrays!Element(w, j - 1)]))

\* The array is still the caller's.
Untouched == buf = [e \in 0..(cnt - 1) |-> [b \in 0..(size - 1) |-> <<"buf", e, b>>]]

\* One more element.
LEMMA PackStep ==
    ASSUME size \in {1, 2}, cnt \in Nat \ {0}, Untouched,
           NEW w \in 0..(Arrays!nsubregs - 1), NEW j \in 1..Arrays!nsubelems
    PROVE  PackOne(w, j, PackedSoFar(w, j - 1)) = PackedSoFar(w, j)
<1> DEFINE E(y) == Arrays!Element(w, y)
           d    == Arrays!nsubelems
           B    == 0..7
<1>1. /\ d \in Nat /\ w \in Nat /\ j \in Nat /\ j >= 1 /\ j <= d /\ w < Arrays!Needed
      /\ Arrays!nsubregs = Arrays!Needed /\ Arrays!Needed \in Nat /\ d \in {2, 4}
      /\ d * Arrays!Needed >= cnt /\ d * Arrays!Needed < cnt + d /\ d * size = 4
  BY Sizes
<1>2. \E z \in Int : \A y \in Int : E(y) = z + y
  <2>1. w * d - (Arrays!Needed * d - cnt) \in Int
    BY <1>1
  <2>2. \A y \in Int : E(y) = w * d - (Arrays!Needed * d - cnt) + y
    BY <1>1 DEF Arrays!Element, Arrays!Offset
  <2> QED BY <2>1, <2>2
<1>3. PICK z \in Int : \A y \in Int : E(y) = z + y
  BY <1>2
<1>4. \A y \in 0..(d - 1) : E(y) < cnt
  BY <1>1 DEF Arrays!Element, Arrays!Offset
<1>5. \A b \in B : b \div size \in Nat /\ b % size \in 0..(size - 1)
                   /\ (b >= size => b - size \in B /\ (b - size) \div size = b \div size - 1
                                    /\ (b - size) % size = b % size)
                   /\ (b < size => b \div size = 0 /\ b % size = b)
  OBVIOUS
<1>6. CASE E(j - 1) < 0
  <2>1. \A b \in B : /\ j - 1 - 1 - b \div size \in Int /\ E(j - 1 - 1 - b \div size) < 0
                     /\ j - 1 - b \div size \in Int /\ E(j - 1 - b \div size) < 0
    BY <1>1, <1>3, <1>5, <1>6
  <2>2. \A b \in B : PackedSoFar(w, j - 1)[b] = Arrays!NoByte /\ PackedSoFar(w, j)[b] = Arrays!NoByte
    BY <1>3, <2>1 DEF PackedSoFar
  <2>3. PackedSoFar(w, j - 1) = PackedSoFar(w, j)
    BY <2>2 DEF PackedSoFar
  <2> QED BY <1>6, <2>3 DEF PackOne
<1>7. CASE E(j - 1) >= 0
  <2> DEFINE x   == PackedSoFar(w, j - 1)
             s   == Arrays!Shl(x, size)
             t   == Arrays!Extend(buf[E(j - 1)])
  <2>1. E(j - 1) \in 0..(cnt - 1)
    BY <1>1, <1>3, <1>4, <1>7
  <2>2. buf[E(j - 1)] = [b \in 0..(size - 1) |-> <<"buf", E(j - 1), b>>]
    BY <2>1 DEF Untouched
  <2>3. ASSUME NEW b \in B PROVE Arrays!Or(s, t)[b] = PackedSoFar(w, j)[b]
    <3>1. Arrays!Or(s, t)[b] = IF s[b] = Arrays!NoByte THEN t[b] ELSE s[b]
      BY DEF Arrays!Or
    <3>2. PackedSoFar(w, j)[b] = IF b \div size < j /\ E(j - 1 - b \div size) >= 0
                                 THEN <<"buf", E(j - 1 - b \div size), b % size>>
                                 ELSE Arrays!NoByte
      BY DEF PackedSoFar
    <3>3. CASE b < size
      <4>1. s[b] = Arrays!NoByte
        BY <3>3 DEF Arrays!Shl
      <4>2. t[b] = <<"buf", E(j - 1), b>>
        BY <2>2, <3>3 DEF Arrays!Extend
      <4>3. b \div size = 0 /\ b % size = b /\ j - 1 - 0 = j - 1 /\ 0 < j
        BY <1>1, <1>5, <3>3
      <4> QED BY <1>7, <3>1, <3>2, <4>1, <4>2, <4>3
    <3>4. CASE b >= size
      <4> DEFINE c == b - size
      <4>1. c \in B /\ c \div size = b \div size - 1 /\ c % size = b % size
        BY <1>5, <3>4
      <4>2. s[b] = x[c]
        BY <3>4 DEF Arrays!Shl
      <4>3. x[c] = IF c \div size < j - 1 /\ E(j - 1 - 1 - c \div size) >= 0
                   THEN <<"buf", E(j - 1 - 1 - c \div size), c % size>> ELSE Arrays!NoByte
        BY <4>1 DEF PackedSoFar
      <4>4. j - 1 - 1 - c \div size = j - 1 - b \div size
            /\ (c \div size < j - 1 <=> b \div size < j)
        BY <1>1, <1>5, <4>1
      <4>5. x[c] = PackedSoFar(w, j)[b]
        BY <3>2, <4>1, <4>3, <4>4
      <4>6. t[b] = Arrays!NoByte
        BY <2>2, <3>4 DEF Arrays!Extend
      <4> QED BY <3>1, <4>2, <4>5, <4>6
    <3> QED BY <3>3, <3>4
  <2>4. Arrays!Or(s, t) = PackedSoFar(w, j)
    <3>1. Arrays!Or(s, t) = [b \in B |-> Arrays!Or(s, t)[b]]
      BY DEF Arrays!Or
    <3>2. PackedSoFar(w, j) = [b \in B |-> PackedSoFar(w, j)[b]]
      BY DEF PackedSoFar
    <3> QED BY <2>3, <3>1, <3>2, Zenon
  <2>5. ~(E(j - 1) < 0)
    BY <1>1, <1>3, <1>7
  <2> QED BY <2>4, <2>5, Zenon DEF PackOne
<1>8. E(j - 1) \in Int
  BY <1>1, <1>3
<1> QED BY <1>6, <1>7, <1>8

\* All the elements of the word: what is written is what belongs there.
LEMMA PackedIsTarget ==
    ASSUME size \in {1, 2}, cnt \in Nat \ {0}, Untouched, NEW w \in 0..(Arrays!nsubregs - 1)
    PROVE  \A b \in 0..3 : Arrays!Packed(w)[b] = Target(w, b)
<1> DEFINE d      == Arrays!nsubelems
           all    == [j \in 0..d |-> PackedSoFar(w, j)]
           Fills(f) == f = [j \in 0..d |-> IF j = 0 THEN Arrays!Zero
                                          ELSE IF Arrays!Element(w, j - 1) < 0 THEN f[j - 1]
                                          ELSE Arrays!Or(Arrays!Shl(f[j - 1], size),
                                                         Arrays!Extend(buf[Arrays!Element(w, j - 1)]))]
           upTo   == CHOOSE f : Fills(f)
<1>1. /\ d \in {2, 4} /\ d * size = 4 /\ w < Arrays!Needed /\ w \in Nat
      /\ Arrays!nsubregs = Arrays!Needed /\ Arrays!Needed \in Nat
      /\ d * Arrays!Needed >= cnt /\ d * Arrays!Needed < cnt + d
      /\ Arrays!ByteCount = size * cnt
  BY Sizes DEF Arrays!ByteCount
<1>2. PackedSoFar(w, 0) = Arrays!Zero
  <2>1. \A b \in 0..7 : ~(b \div size < 0)
    OBVIOUS
  <2> QED BY <2>1 DEF PackedSoFar, Arrays!Zero
<1>3. \A j \in 1..d : PackOne(w, j, PackedSoFar(w, j - 1)) = PackedSoFar(w, j)
  BY PackStep
<1>4. Fills(all)
  <2>1. ASSUME NEW j \in 0..d
        PROVE  all[j] = IF j = 0 THEN Arrays!Zero
                        ELSE IF Arrays!Element(w, j - 1) < 0 THEN all[j - 1]
                        ELSE Arrays!Or(Arrays!Shl(all[j - 1], size),
                                       Arrays!Extend(buf[Arrays!Element(w, j - 1)]))
    <3>1. CASE j = 0
      BY <1>2, <3>1
    <3>2. CASE j # 0
      <4>1. j \in 1..d /\ j - 1 \in 0..d
        BY <1>1, <3>2
      <4>2. all[j] = PackedSoFar(w, j) /\ all[j - 1] = PackedSoFar(w, j - 1)
        BY <4>1
      <4> HIDE DEF all
      <4> QED BY <1>3, <3>2, <4>1, <4>2, Zenon DEF PackOne
    <3> QED BY <3>1, <3>2
  <2> QED BY <2>1, Zenon
<1>5. Fills(upTo)
  <2> HIDE DEF all, Fills
  <2> QED BY <1>4, Zenon
<1>6. \A j \in 0..d : upTo[j] = IF j = 0 THEN Arrays!Zero ELSE PackOne(w, j, upTo[j - 1])
  <2> HIDE DEF upTo
  <2> QED BY <1>5, Zenon DEF PackOne
<1>7. upTo[d] = PackedSoFar(w, d)
  <2> HIDE DEF upTo
  <2>1. upTo[0] = PackedSoFar(w, 0)
    BY <1>1, <1>2, <1>6
  <2>2. ASSUME NEW j \in 1..d, upTo[j - 1] = PackedSoFar(w, j - 1)
        PROVE  upTo[j] = PackedSoFar(w, j)
    <3>1. j \in 0..d /\ j # 0
      BY <1>1
    <3>2. upTo[j] = PackOne(w, j, upTo[j - 1])
      BY <1>6, <3>1, Zenon
    <3> QED BY <1>3, <2>2, <3>2, Zenon
  <2>3. upTo[1] = PackedSoFar(w, 1)
    BY <1>1, <2>1, <2>2
  <2>4. upTo[2] = PackedSoFar(w, 2)
    BY <1>1, <2>3, <2>2
  <2>5. d = 4 => upTo[3] = PackedSoFar(w, 3)
    BY <1>1, <2>4, <2>2
  <2>6. d = 4 => upTo[4] = PackedSoFar(w, 4)
    BY <1>1, <2>5, <2>2
  <2> QED BY <1>1, <2>4, <2>6
<1>8. Arrays!Packed(w) = upTo[d]
  BY Zenon DEF Arrays!Packed
<1>9. ASSUME NEW b \in 0..3 PROVE PackedSoFar(w, d)[b] = Target(w, b)
  <2> DEFINE q == b \div size
             n == 4 * (Arrays!Needed - 1 - w) + b
             e == Arrays!Element(w, d - 1 - q)
  <2>1. b \in 0..7 /\ q < d /\ q \in Nat
    BY <1>1
  <2>2. n \div size = d * (Arrays!Needed - 1 - w) + q /\ n % size = b % size /\ n \in Nat
    BY <1>1
  <2>3. e = cnt - 1 - n \div size
    BY <1>1, <2>1, <2>2 DEF Arrays!Element, Arrays!Offset
  <2>4. e >= 0 <=> n < Arrays!ByteCount
    BY <1>1, <2>1, <2>2, <2>3
  <2>5. PackedSoFar(w, d)[b] = IF e >= 0 THEN <<"buf", e, b % size>> ELSE Arrays!NoByte
    BY <2>1 DEF PackedSoFar
  <2>6. Target(w, b) = IF n < Arrays!ByteCount THEN <<"buf", cnt - 1 - n \div size, n % size>>
                                               ELSE Arrays!NoByte
    BY DEF Target
  <2> QED BY <2>2, <2>3, <2>4, <2>5, <2>6
<1> QED BY <1>7, <1>8, <1>9, Zenon

-----------------------------------------------------------------------------
(* The steps.                                                              *)

\* The call keeps its arguments.
LEMMA SameCall ==
    ASSUME UNCHANGED <<op, size, cnt>>
    PROVE  /\ Arrays!Shared' = Arrays!Shared /\ Arrays!nsubregs' = Arrays!nsubregs
           /\ Arrays!nsubelems' = Arrays!nsubelems /\ Arrays!Needed' = Arrays!Needed
           /\ Arrays!WordsPerElement' = Arrays!WordsPerElement
           /\ Arrays!Offset(Arrays!nsubregs)' = Arrays!Offset(Arrays!nsubregs) /\ Last' = Last
           /\ \A w, b : Target(w, b)' = Target(w, b)
           /\ \A e, b : Source(e, b)' = Source(e, b)
<1> USE DEF Arrays!Shared, Arrays!nsubregs, Arrays!nsubelems, Arrays!Needed, Arrays!WordsPerElement,
            Arrays!num_subregs, Arrays!ByteCount
<1>1. /\ Arrays!Shared' = Arrays!Shared /\ Arrays!nsubregs' = Arrays!nsubregs
      /\ Arrays!nsubelems' = Arrays!nsubelems /\ Arrays!Needed' = Arrays!Needed
      /\ Arrays!WordsPerElement' = Arrays!WordsPerElement
  OBVIOUS
<1>2. Arrays!Offset(Arrays!nsubregs)' = Arrays!Offset(Arrays!nsubregs)
  BY DEF Arrays!Offset
<1>3. Last' = Last
  BY DEF Last
<1>4. \A w, b : Target(w, b)' = Target(w, b)
  BY DEF Target
<1>5. \A e, b : Source(e, b)' = Source(e, b)
  BY DEF Source
<1> QED BY <1>1, <1>2, <1>3, <1>4, <1>5

\* Where the words and the elements lie.
LEMMA Bounds ==
    ASSUME Arrays!ArrayAssumption, Sorts, Places
    PROVE  /\ size \in {1, 2, 4, 8} /\ cnt \in Nat \ {0} /\ cnt <= MaxCount /\ MaxCount \in Nat
           /\ Arrays!Needed \in Nat /\ Arrays!Needed <= 2 * cnt /\ Last \in Nat
           /\ Written \in Nat /\ Written <= Arrays!Needed /\ ReadSoFar \in Int /\ ReadSoFar <= cnt
           /\ a_i = 0 /\ a_k = 0 => Written = 0 /\ ReadSoFar <= 0
           /\ a_i = Last => Written = Arrays!Needed /\ ReadSoFar = cnt
<1>1. size \in {1, 2, 4, 8} /\ cnt \in Nat \ {0} /\ cnt <= MaxCount /\ MaxCount \in Nat
  BY DEF Arrays!ArrayAssumption, Sorts
<1>2. a_i \in 0..Last /\ a_k \in 0..1 /\ (a_k = 1 => size = 8 /\ a_i < cnt)
  BY DEF Places
<1>3. CASE size \in {1, 2}
  <2> DEFINE d == Arrays!nsubelems
             m == Arrays!Needed
  <2>1. /\ d \in {2, 4} /\ m \in Nat /\ d * m >= cnt /\ d * m < cnt + d /\ Arrays!Shared
        /\ Arrays!nsubregs = m
    BY <1>1, <1>3, Sizes
  <2>2. Last = m /\ Written = a_i /\ ReadSoFar = a_i * d - (m * d - cnt)
    BY <2>1 DEF Last, Written, ReadSoFar, Arrays!Offset
  <2> HIDE DEF d, m
  <2>3. a_i \in 0..m /\ a_k = 0
    BY <1>2, <1>3, <2>1, <2>2
  <2>4. Written \in Nat /\ Written <= m /\ m <= 2 * cnt /\ Last \in Nat
    BY <1>1, <2>1, <2>2, <2>3
  <2>5. ReadSoFar \in Int /\ ReadSoFar <= cnt
    BY <1>1, <2>1, <2>2, <2>3
  <2>6. a_i = 0 => Written = 0 /\ ReadSoFar <= 0
    BY <1>1, <2>1, <2>2
  <2>7. a_i = Last => Written = m /\ ReadSoFar = cnt
    BY <1>1, <2>1, <2>2
  <2> QED BY <1>1, <2>1, <2>4, <2>5, <2>6, <2>7 DEF m
<1>4. CASE size \in {4, 8}
  <2>1. ~Arrays!Shared /\ (size = 4 => Arrays!WordsPerElement = 1 /\ Arrays!Needed = cnt)
        /\ (size = 8 => Arrays!WordsPerElement = 2 /\ Arrays!Needed = 2 * cnt)
    BY <1>1, <1>4, Sizes
  <2>2. Last = cnt /\ Written = a_i * Arrays!WordsPerElement + a_k /\ ReadSoFar = a_i
    BY <2>1 DEF Last, Written, ReadSoFar
  <2> QED BY <1>1, <1>2, <1>4, <2>1, <2>2
<1> QED BY <1>1, <1>3, <1>4

\* A word that several elements share is written.
LEMMA WriteSharedInv ==
    ASSUME Arrays!ArrayAssumption, ArraysInv, Arrays!WriteShared
    PROVE  ArraysInv'
<1>1. /\ op = "wr" /\ a_pc = "loop" /\ Arrays!Shared /\ a_i < Arrays!nsubregs /\ a_i' = a_i + 1
      /\ csr' = [csr EXCEPT ![a_i] = Arrays!Low(Arrays!Packed(a_i), 4)]
      /\ op' = op /\ size' = size /\ cnt' = cnt
      /\ buf' = buf /\ a_k' = a_k /\ a_v' = a_v /\ a_pc' = a_pc
  BY DEF Arrays!WriteShared, Arrays!WriteWord, Arrays!CSR_DW_BYTES
<1>2. Sorts /\ Places /\ CsrIs /\ BufIs /\ ValIs
  BY DEF ArraysInv
<1>3. /\ size \in {1, 2} /\ cnt \in Nat \ {0} /\ cnt <= MaxCount /\ MaxCount \in Nat /\ a_i \in Nat
      /\ Arrays!nsubregs = Arrays!Needed /\ Arrays!Needed \in Nat /\ Arrays!Needed <= 2 * cnt
      /\ Last = Arrays!Needed /\ a_k = 0 /\ Written = a_i
  BY <1>1, <1>2, Bounds, Sizes DEF Places, Last, Written
<1>4. UNCHANGED <<op, size, cnt>>
  BY <1>1
<1>5. Written' = a_i + 1 /\ Last' = Last
  BY <1>1, <1>4, SameCall DEF Written
<1>6. Sorts' /\ Places'
  BY <1>1, <1>2, <1>3, <1>5 DEF Sorts, Places
<1>7. CsrIs'
  <2>1. Untouched
    BY <1>1, <1>2 DEF BufIs, Untouched
  <2>2. a_i \in 0..(Arrays!nsubregs - 1) /\ a_i \in Arrays!AllWords
    BY <1>1, <1>3 DEF Arrays!AllWords
  <2>3. \A b \in 0..3 : Arrays!Packed(a_i)[b] = Target(a_i, b)
    BY <1>3, <2>1, <2>2, PackedIsTarget
  <2>4. Arrays!Low(Arrays!Packed(a_i), 4) = [b \in 0..3 |-> Target(a_i, b)]
    BY <2>3 DEF Arrays!Low
  <2>5. \A w \in Arrays!AllWords : w < a_i + 1 <=> w < a_i \/ w = a_i
    BY <1>3 DEF Arrays!AllWords
  <2>6. csr' = [csr EXCEPT ![a_i] = [b \in 0..3 |-> Target(a_i, b)]]
    BY <1>1, <2>4
  <2>7. csr = [w \in Arrays!AllWords |-> [b \in 0..3 |->
                 IF w < a_i THEN Target(w, b) ELSE <<"csr", w, b>>]]
    BY <1>1, <1>2, <1>3 DEF CsrIs
  <2>8. csr' = [w \in Arrays!AllWords |-> [b \in 0..3 |->
                  IF w < a_i + 1 THEN Target(w, b) ELSE <<"csr", w, b>>]]
    BY <2>2, <2>5, <2>6, <2>7
  <2>9. \A w, b : Target(w, b)' = Target(w, b)
    BY <1>4, SameCall
  <2>10. Arrays!AllWords' = Arrays!AllWords
    BY DEF Arrays!AllWords
  <2> QED BY <1>1, <1>5, <2>8, <2>9, <2>10 DEF CsrIs
<1>8. BufIs'
  BY <1>1, <1>2 DEF BufIs
<1>9. ValIs'
  BY <1>1, <1>2 DEF ValIs
<1> QED BY <1>6, <1>7, <1>8, <1>9 DEF ArraysInv

\* One of the words of an element is written.
LEMMA WriteElementInv ==
    ASSUME Arrays!ArrayAssumption, ArraysInv, Arrays!WriteElement
    PROVE  ArraysInv'
<1> DEFINE p == Arrays!WordsPerElement
           t == a_i * p + a_k
<1>1. /\ op = "wr" /\ a_pc = "loop" /\ ~Arrays!Shared /\ a_i < cnt
      /\ csr' = [csr EXCEPT ![t] =
                  Arrays!Low(Arrays!Shr(Arrays!Extend(buf[a_i]), 4 * (p - 1 - a_k)), 4)]
      /\ op' = op /\ size' = size /\ cnt' = cnt /\ buf' = buf /\ a_v' = a_v /\ a_pc' = a_pc
  BY DEF Arrays!WriteElement, Arrays!WriteWord, Arrays!CSR_DW_BYTES, Arrays!WordShift
<1>2. IF a_k + 1 < p THEN a_k' = a_k + 1 /\ a_i' = a_i ELSE a_k' = 0 /\ a_i' = a_i + 1
  BY DEF Arrays!WriteElement
<1>3. Sorts /\ Places /\ CsrIs /\ BufIs /\ ValIs
  BY DEF ArraysInv
<1>4. /\ cnt \in Nat \ {0} /\ cnt <= MaxCount /\ MaxCount \in Nat /\ Last = cnt
      /\ (size = 4 /\ p = 1 /\ Arrays!Needed = cnt) \/ (size = 8 /\ p = 2 /\ Arrays!Needed = 2 * cnt)
      /\ a_i \in Nat /\ a_k \in 0..1 /\ (a_k = 1 => size = 8) /\ Written = t
  BY <1>1, <1>3, Bounds, Sizes DEF Places, Last, Written
<1>5. t \in Nat /\ t < Arrays!Needed /\ t <= 2 * MaxCount + 1 /\ t \in Arrays!AllWords
  BY <1>1, <1>4 DEF Arrays!AllWords
<1>6. UNCHANGED <<op, size, cnt>>
  BY <1>1
<1>7. Arrays!Shared' = Arrays!Shared /\ p' = p /\ Last' = Last
      /\ \A w, b : Target(w, b)' = Target(w, b)
  BY <1>6, SameCall
<1>8. Written' = t + 1
  <2>1. Written' = a_i' * p + a_k'
    BY <1>1, <1>7 DEF Written
  <2> HIDE DEF p
  <2> QED BY <1>2, <1>4, <2>1
<1>9. Sorts' /\ Places'
  <2>1. Sorts'
    BY <1>1, <1>3 DEF Sorts
  <2>2. a_i' \in 0..cnt /\ a_k' \in 0..1 /\ (a_k' = 1 => size = 8 /\ a_i' < cnt)
    <3> HIDE DEF p
    <3> QED BY <1>1, <1>2, <1>4
  <2> QED BY <1>1, <1>4, <1>7, <2>1, <2>2 DEF Places
<1>10. CsrIs'
  <2>1. a_i \in 0..(cnt - 1) /\ buf[a_i] = [b \in 0..(size - 1) |-> <<"buf", a_i, b>>]
    BY <1>1, <1>3, <1>4 DEF BufIs
  <2> DEFINE s == 4 * (p - 1 - a_k)
             x == Arrays!Extend(buf[a_i])
  <2>2. \A b \in 0..3 : b + s \in 0..(size - 1) /\ b + s \in 0..7 /\ b \in 0..7 /\ ~(b + s > 7)
    <3> HIDE DEF p
    <3> QED BY <1>4
  <2>3. ASSUME NEW b \in 0..3 PROVE Arrays!Shr(x, s)[b] = Target(t, b)
    <3>1. Arrays!Shr(x, s)[b] = x[b + s]
      <4> HIDE DEF x, s
      <4> QED BY <2>2 DEF Arrays!Shr
    <3>2. x[b + s] = <<"buf", a_i, b + s>>
      <4> HIDE DEF s
      <4> QED BY <2>1, <2>2 DEF Arrays!Extend
    <3> DEFINE n == 4 * (Arrays!Needed - 1 - t) + b
    <3>3. n = size * (cnt - 1 - a_i) + (b + s)
      <4> HIDE DEF p
      <4> QED BY <1>4
    <3>4. n < Arrays!ByteCount /\ n \div size = cnt - 1 - a_i /\ n % size = b + s
      <4>1. Arrays!ByteCount = size * cnt
        BY DEF Arrays!ByteCount
      <4>2. PICK m \in 0..(size - 1) : m = b + s
        BY <2>2
      <4>3. PICK g \in 0..(cnt - 1) : g = cnt - 1 - a_i
        BY <1>1, <1>4
      <4>4. size \in {4, 8}
        BY <1>4
      <4>5. n = size * g + m
        BY <3>3, <4>2, <4>3
      <4>6. /\ size * g + m < size * cnt
            /\ (size * g + m) \div size = g /\ (size * g + m) % size = m
        <5>1. cnt \in Nat /\ size \in {1, 2, 4, 8}
          BY <1>4, <4>4
        <5> QED BY <5>1, Division
      <4> HIDE DEF n, s
      <4> QED BY <4>1, <4>2, <4>3, <4>5, <4>6
    <3>5. Target(t, b) = <<"buf", a_i, b + s>>
      <4>1. Target(t, b) = <<"buf", cnt - 1 - n \div size, n % size>>
        BY <3>4 DEF Target
      <4>2. cnt - 1 - (cnt - 1 - a_i) = a_i
        BY <1>4
      <4> QED BY <3>4, <4>1, <4>2
    <3> QED BY <3>1, <3>2, <3>5
  <2>4. Arrays!Low(Arrays!Shr(x, s), 4) = [b \in 0..3 |-> Target(t, b)]
    BY <2>3 DEF Arrays!Low
  <2> HIDE DEF t, s, x
  <2>5. \A w \in Arrays!AllWords : w < t + 1 <=> w < t \/ w = t
    BY <1>5 DEF Arrays!AllWords
  <2>6. csr' = [csr EXCEPT ![t] = [b \in 0..3 |-> Target(t, b)]]
    BY <1>1, <2>4 DEF s, x
  <2>7. csr = [w \in Arrays!AllWords |-> [b \in 0..3 |->
                 IF w < t THEN Target(w, b) ELSE <<"csr", w, b>>]]
    BY <1>1, <1>3, <1>4 DEF CsrIs
  <2>8. csr' = [w \in Arrays!AllWords |-> [b \in 0..3 |->
                  IF w < t + 1 THEN Target(w, b) ELSE <<"csr", w, b>>]]
    BY <1>5, <2>5, <2>6, <2>7
  <2>9. Arrays!AllWords' = Arrays!AllWords
    BY DEF Arrays!AllWords
  <2> QED BY <1>1, <1>7, <1>8, <2>8, <2>9 DEF CsrIs
<1>11. BufIs'
  BY <1>1, <1>3 DEF BufIs
<1>12. ValIs'
  BY <1>1, <1>3 DEF ValIs
<1> QED BY <1>9, <1>10, <1>11, <1>12 DEF ArraysInv

\* A word that several elements share is read.
LEMMA ReadSharedInv ==
    ASSUME Arrays!ArrayAssumption, ArraysInv, Arrays!ReadShared
    PROVE  ArraysInv'
<1> DEFINE d    == Arrays!nsubelems
           m    == Arrays!Needed
           E(j) == Arrays!Element(a_i, j)
           J    == 0..(d - 1)
<1>1. /\ op = "rd" /\ a_pc = "loop" /\ Arrays!Shared /\ a_i < Arrays!nsubregs /\ a_i' = a_i + 1
      /\ buf' = [e \in 0..(cnt - 1) |->
                   IF \E j \in J : E(j) = e
                   THEN LET j == CHOOSE x \in J : E(x) = e
                        IN  Arrays!Low(Arrays!Shr(Arrays!Extend(csr[a_i]), size * (d - 1 - j)), size)
                   ELSE buf[e]]
      /\ op' = op /\ size' = size /\ cnt' = cnt
      /\ csr' = csr /\ a_k' = a_k /\ a_v' = a_v /\ a_pc' = a_pc
  BY DEF Arrays!ReadShared
<1>2. Sorts /\ Places /\ CsrIs /\ BufIs /\ ValIs
  BY DEF ArraysInv
<1>3. /\ size \in {1, 2} /\ cnt \in Nat \ {0} /\ cnt <= MaxCount /\ MaxCount \in Nat /\ a_i \in Nat
      /\ Arrays!nsubregs = m /\ m \in Nat /\ m <= 2 * cnt /\ Last = m /\ a_k = 0
  BY <1>1, <1>2, Bounds, Sizes DEF Places, Last
<1>4. (size = 1 /\ d = 4) \/ (size = 2 /\ d = 2)
  BY <1>3, Sizes
<1>5. ReadSoFar = a_i * d - (m * d - cnt) /\ \A j \in Int : E(j) = ReadSoFar + j
  BY <1>1, <1>3, <1>4 DEF ReadSoFar, Arrays!Offset, Arrays!Element
<1>6. UNCHANGED <<op, size, cnt>>
  BY <1>1
<1>7. /\ Arrays!Shared' = Arrays!Shared /\ d' = d /\ Last' = Last
      /\ Arrays!Offset(Arrays!nsubregs)' = Arrays!Offset(Arrays!nsubregs)
      /\ \A e, b : Source(e, b)' = Source(e, b)
  BY <1>6, SameCall
<1>8. ReadSoFar' = ReadSoFar + d
  <2>1. ReadSoFar' = (a_i + 1) * d - (m * d - cnt)
    BY <1>1, <1>3, <1>7 DEF ReadSoFar, Arrays!Offset
  <2> HIDE DEF d, m
  <2> QED BY <1>3, <1>4, <1>5, <2>1
<1>9. Sorts' /\ Places'
  BY <1>1, <1>2, <1>3, <1>7 DEF Sorts, Places
<1>10. BufIs'
  <2>1. a_i \in Arrays!AllWords /\ csr[a_i] = [b \in 0..3 |-> <<"csr", a_i, b>>]
    BY <1>1, <1>2, <1>3 DEF CsrIs, Arrays!AllWords
  <2>2. ASSUME NEW e \in 0..(cnt - 1), NEW j \in J, E(j) = e
        PROVE  Arrays!Low(Arrays!Shr(Arrays!Extend(csr[a_i]), size * (d - 1 - j)), size)
                 = [b \in 0..(size - 1) |-> Source(e, b)]
    <3> DEFINE s == size * (d - 1 - j)
               x == Arrays!Extend(csr[a_i])
    <3>1. j \in 0..(d - 1) /\ e = ReadSoFar + j
      BY <1>4, <1>5, <2>2
    <3>2. ASSUME NEW b \in 0..(size - 1) PROVE Arrays!Shr(x, s)[b] = Source(e, b)
      <4>1. s \in 0..3 /\ b + s \in 0..3 /\ b \in 0..7 /\ ~(b + s > 7)
        <5> HIDE DEF d
        <5> QED BY <1>4, <3>1
      <4>2. Arrays!Shr(x, s)[b] = x[b + s]
        <5> HIDE DEF x, s
        <5> QED BY <4>1 DEF Arrays!Shr
      <4>3. x[b + s] = <<"csr", a_i, b + s>>
        <5> HIDE DEF s
        <5> QED BY <2>1, <4>1 DEF Arrays!Extend
      <4> DEFINE n == size * (cnt - 1 - e) + b
      <4>4. n = 4 * (m - 1 - a_i) + (b + s)
        <5> HIDE DEF d, m
        <5> QED BY <1>3, <1>4, <1>5, <3>1
      <4>5. n \div 4 = m - 1 - a_i /\ n % 4 = b + s
        <5>1. PICK c \in 0..3 : c = b + s
          BY <4>1
        <5>2. PICK g \in Nat : g = m - 1 - a_i
          BY <1>1, <1>3
        <5>3. n = 4 * g + c
          BY <4>4, <5>1, <5>2
        <5> HIDE DEF n, s, m
        <5> QED BY <5>1, <5>2, <5>3
      <4>6. Source(e, b) = <<"csr", m - 1 - n \div 4, n % 4>>
        BY DEF Source
      <4>7. m - 1 - (m - 1 - a_i) = a_i
        BY <1>3
      <4> HIDE DEF n, s, m, x
      <4> QED BY <4>2, <4>3, <4>5, <4>6, <4>7
    <3> QED BY <3>2 DEF Arrays!Low
  <2>3. ASSUME NEW e \in 0..(cnt - 1)
        PROVE  (\E j \in J : E(j) = e) <=> (e < ReadSoFar + d /\ ~(e < ReadSoFar))
    <3>1. ReadSoFar \in Int /\ d \in Nat /\ e \in Int
      BY <1>3, <1>4, <1>5
    <3>2. ASSUME e < ReadSoFar + d, ~(e < ReadSoFar) PROVE \E j \in J : E(j) = e
      <4>1. e - ReadSoFar \in J /\ e - ReadSoFar \in Int /\ ReadSoFar + (e - ReadSoFar) = e
        BY <3>1, <3>2
      <4>2. E(e - ReadSoFar) = e
        BY <1>5, <4>1
      <4> QED BY <4>1, <4>2
    <3>3. ASSUME NEW j \in J, E(j) = e PROVE e < ReadSoFar + d /\ ~(e < ReadSoFar)
      <4>1. j \in Int /\ j >= 0 /\ j < d
        BY <3>1
      <4>2. e = ReadSoFar + j
        BY <1>5, <3>3, <4>1
      <4> QED BY <3>1, <4>1, <4>2
    <3> QED BY <3>2, <3>3
  <2>4. ASSUME NEW e \in 0..(cnt - 1)
        PROVE  buf'[e] = [b \in 0..(size - 1) |->
                            IF e < ReadSoFar + d THEN Source(e, b) ELSE <<"buf", e, b>>]
    <3>1. buf[e] = [b \in 0..(size - 1) |->
                      IF e < ReadSoFar THEN Source(e, b) ELSE <<"buf", e, b>>]
      BY <1>1, <1>2 DEF BufIs
    <3>2. CASE \E j \in J : E(j) = e
      <4> DEFINE j == CHOOSE x \in J : E(x) = e
      <4>1. j \in J /\ E(j) = e
        BY <3>2, Zenon
      <4>2. buf'[e] = Arrays!Low(Arrays!Shr(Arrays!Extend(csr[a_i]), size * (d - 1 - j)), size)
        BY <1>1, <3>2
      <4> HIDE DEF j
      <4>3. buf'[e] = [b \in 0..(size - 1) |-> Source(e, b)]
        BY <2>2, <4>1, <4>2
      <4>4. e < ReadSoFar + d
        BY <2>3, <3>2
      <4> QED BY <4>3, <4>4
    <3>3. CASE ~\E j \in J : E(j) = e
      <4>1. buf'[e] = buf[e]
        BY <1>1, <3>3
      <4>2. e < ReadSoFar <=> e < ReadSoFar + d
        <5>1. ReadSoFar \in Int /\ d \in Nat /\ e \in Int
          BY <1>3, <1>4, <1>5
        <5>2. ~(e < ReadSoFar + d /\ ~(e < ReadSoFar))
          BY <2>3, <3>3
        <5> HIDE DEF d
        <5> QED BY <5>1, <5>2
      <4> QED BY <3>1, <4>1, <4>2
    <3> QED BY <3>2, <3>3
  <2>5. buf' = [e \in 0..(cnt - 1) |-> [b \in 0..(size - 1) |->
                  IF e < ReadSoFar + d THEN Source(e, b) ELSE <<"buf", e, b>>]]
    BY <1>1, <2>4
  <2> QED BY <1>1, <1>7, <1>8, <2>5 DEF BufIs
<1>11. CsrIs'
  BY <1>1, <1>2 DEF CsrIs, Arrays!AllWords
<1>12. ValIs'
  BY <1>1, <1>2, <1>3 DEF ValIs
<1> QED BY <1>9, <1>10, <1>11, <1>12 DEF ArraysInv

\* One of the words of an element is read.
LEMMA ReadElementInv ==
    ASSUME Arrays!ArrayAssumption, ArraysInv, Arrays!ReadElement
    PROVE  ArraysInv'
<1> DEFINE p == Arrays!WordsPerElement
           t == a_i * p + a_k
           r == Arrays!Or(IF a_k = 0 THEN Arrays!Zero ELSE Arrays!Shl(a_v, 4),
                          Arrays!Extend(csr[t]))
           m == Arrays!Needed
           Value(w, n) == [b \in 0..7 |-> IF b < n THEN <<"csr", w, b>> ELSE Arrays!NoByte]
<1>1. /\ op = "rd" /\ a_pc = "loop" /\ ~Arrays!Shared /\ a_i < cnt
      /\ op' = op /\ size' = size /\ cnt' = cnt /\ csr' = csr /\ a_pc' = a_pc
  BY DEF Arrays!ReadElement
<1>2. IF a_k + 1 < p THEN a_k' = a_k + 1 /\ a_i' = a_i /\ a_v' = r /\ buf' = buf
      ELSE /\ a_k' = 0 /\ a_i' = a_i + 1 /\ a_v' = Arrays!Zero
           /\ buf' = [buf EXCEPT ![a_i] = Arrays!Low(r, size)]
  BY Zenon DEF Arrays!ReadElement, Arrays!CSR_DW_BYTES
<1>3. Sorts /\ Places /\ CsrIs /\ BufIs /\ ValIs
  BY DEF ArraysInv
<1>4. /\ cnt \in Nat \ {0} /\ cnt <= MaxCount /\ MaxCount \in Nat /\ Last = cnt /\ ReadSoFar = a_i
      /\ (size = 4 /\ p = 1 /\ m = cnt) \/ (size = 8 /\ p = 2 /\ m = 2 * cnt)
      /\ a_i \in Nat /\ a_k \in 0..1 /\ (a_k = 1 => size = 8)
  BY <1>1, <1>3, Bounds, Sizes DEF Places, Last, ReadSoFar
<1>5. t \in Nat /\ t \in Arrays!AllWords /\ (a_k = 1 => t = 2 * a_i + 1) /\ (a_k = 0 /\ p = 2 => t = 2 * a_i)
      /\ (p = 1 => t = a_i)
  <2> HIDE DEF p, m
  <2> QED BY <1>1, <1>4 DEF Arrays!AllWords
<1>6. UNCHANGED <<op, size, cnt>>
  BY <1>1
<1>7. Arrays!Shared' = Arrays!Shared /\ Last' = Last /\ \A e, b : Source(e, b)' = Source(e, b)
  BY <1>6, SameCall
<1>8. ReadSoFar' = a_i'
  BY <1>1, <1>7 DEF ReadSoFar
<1>9. Sorts' /\ Places'
  <2>1. Sorts'
    BY <1>1, <1>3 DEF Sorts
  <2>2. a_i' \in 0..cnt /\ a_k' \in 0..1 /\ (a_k' = 1 => size = 8 /\ a_i' < cnt)
    <3> HIDE DEF p, m, r
    <3> QED BY <1>1, <1>2, <1>4
  <2> QED BY <1>1, <1>4, <1>7, <2>1, <2>2 DEF Places
<1>10. Arrays!Extend(csr[t]) = Value(t, 4)
  <2>1. csr[t] = [b \in 0..3 |-> <<"csr", t, b>>]
    <3> HIDE DEF t
    <3> QED BY <1>1, <1>3, <1>5 DEF CsrIs
  <2> HIDE DEF t
  <2> QED BY <2>1 DEF Arrays!Extend
\* What has been read of the element: its word, or the word before it too.
<1>11. a_k = 0 => r = Value(t, 4)
  <2> HIDE DEF t
  <2> QED BY <1>10 DEF Arrays!Or, Arrays!Zero
<1>12. a_k = 1 => \A b \in 0..7 : r[b] = <<"csr", 2 * a_i + 1 - b \div 4, b % 4>>
  <2>1. SUFFICES ASSUME a_k = 1, NEW b \in 0..7
                 PROVE  r[b] = <<"csr", 2 * a_i + 1 - b \div 4, b % 4>>
    BY Zenon
  <2>2. a_v = Value(2 * a_i, 4) /\ t = 2 * a_i + 1
    BY <1>1, <1>3, <1>5, <2>1 DEF ValIs
  <2>3. r = Arrays!Or(Arrays!Shl(a_v, 4), Value(t, 4))
    BY <1>10, <2>1
  <2>4. r[b] = IF Arrays!Shl(a_v, 4)[b] = Arrays!NoByte THEN Value(t, 4)[b] ELSE Arrays!Shl(a_v, 4)[b]
    <3> HIDE DEF t, Value, r
    <3> QED BY <2>3 DEF Arrays!Or
  <2>5. CASE b < 4
    <3>1. Arrays!Shl(a_v, 4)[b] = Arrays!NoByte /\ Value(t, 4)[b] = <<"csr", t, b>>
      BY <2>5 DEF Arrays!Shl
    <3>2. b \div 4 = 0 /\ b % 4 = b /\ 2 * a_i + 1 - 0 = 2 * a_i + 1
      BY <1>4, <2>5
    <3> HIDE DEF t, Value, r
    <3> QED BY <2>2, <2>4, <3>1, <3>2
  <2>6. CASE b >= 4
    <3>1. Arrays!Shl(a_v, 4)[b] = <<"csr", 2 * a_i, b - 4>>
      <4>1. b - 4 \in 0..7 /\ b - 4 < 4 /\ ~(b < 4)
        BY <2>6
      <4>2. Arrays!Shl(a_v, 4)[b] = a_v[b - 4]
        BY <4>1 DEF Arrays!Shl
      <4> QED BY <2>2, <4>1, <4>2
    <3>2. b \div 4 = 1 /\ b % 4 = b - 4 /\ 2 * a_i + 1 - 1 = 2 * a_i
      BY <1>4, <2>6
    <3> HIDE DEF t, Value, r
    <3> QED BY <2>4, <3>1, <3>2, ByteKinds
  <2> QED BY <2>5, <2>6
<1>13. CASE a_k + 1 < p
  <2>1. size = 8 /\ p = 2 /\ a_k = 0 /\ a_k' = 1 /\ a_i' = a_i /\ t = 2 * a_i
    <3> HIDE DEF t
    <3> QED BY <1>2, <1>4, <1>5, <1>13
  <2>2. a_v' = Value(2 * a_i, 4) /\ buf' = buf
    BY <1>2, <1>11, <1>13, <2>1
  <2>3. ValIs'
    BY <1>1, <2>1, <2>2 DEF ValIs
  <2>4. BufIs'
    BY <1>1, <1>3, <1>4, <1>7, <1>8, <2>1, <2>2 DEF BufIs
  <2>5. CsrIs'
    BY <1>1, <1>3 DEF CsrIs, Arrays!AllWords
  <2> QED BY <1>9, <2>3, <2>4, <2>5 DEF ArraysInv
<1>14. CASE ~(a_k + 1 < p)
  <2>1. a_k' = 0 /\ a_i' = a_i + 1 /\ a_v' = Arrays!Zero
        /\ buf' = [buf EXCEPT ![a_i] = Arrays!Low(r, size)]
    BY <1>2, <1>14
  <2>2. (size = 4 /\ a_k = 0 /\ t = a_i /\ m = cnt) \/ (size = 8 /\ a_k = 1 /\ m = 2 * cnt)
    <3> HIDE DEF t, m
    <3> QED BY <1>4, <1>5, <1>14
  <2>3. ASSUME NEW b \in 0..(size - 1) PROVE r[b] = Source(a_i, b)
    <3> DEFINE n == size * (cnt - 1 - a_i) + b
    <3>1. Source(a_i, b) = <<"csr", m - 1 - n \div 4, n % 4>>
      BY DEF Source
    <3>2. CASE size = 4
      <4>1. r = Value(a_i, 4) /\ b \in 0..7 /\ b < 4
        BY <1>11, <2>2, <3>2
      <4>2. r[b] = <<"csr", a_i, b>>
        <5> HIDE DEF r
        <5> QED BY <4>1
      <4>3. n \div 4 = cnt - 1 - a_i /\ n % 4 = b /\ m - 1 - (cnt - 1 - a_i) = a_i
        <5> HIDE DEF m, t
        <5> QED BY <1>1, <1>4, <2>2, <3>2
      <4> HIDE DEF n, m, r
      <4> QED BY <3>1, <4>2, <4>3
    <3>3. CASE size = 8
      <4>1. r[b] = <<"csr", 2 * a_i + 1 - b \div 4, b % 4>>
        BY <1>12, <2>2, <3>3
      <4>2. n \div 4 = 2 * (cnt - 1 - a_i) + b \div 4 /\ n % 4 = b % 4
        <5>1. PICK g \in Nat : g = cnt - 1 - a_i
          BY <1>1, <1>4
        <5>2. PICK h \in Nat : h = 2 * g
          BY <5>1
        <5>3. n = 4 * h + b /\ b \in 0..7
          BY <3>3, <5>1, <5>2
        <5>4. (4 * h + b) \div 4 = h + b \div 4 /\ (4 * h + b) % 4 = b % 4
          BY <5>3
        <5> HIDE DEF n
        <5> QED BY <5>1, <5>2, <5>3, <5>4
      <4>3. m - 1 - (2 * (cnt - 1 - a_i) + b \div 4) = 2 * a_i + 1 - b \div 4
        <5> HIDE DEF m, t
        <5> QED BY <1>4, <2>2, <3>3
      <4> HIDE DEF n, m, r
      <4> QED BY <3>1, <4>1, <4>2, <4>3
    <3> QED BY <2>2, <3>2, <3>3
  <2>4. Arrays!Low(r, size) = [b \in 0..(size - 1) |-> Source(a_i, b)]
    <3> HIDE DEF r
    <3> QED BY <2>3 DEF Arrays!Low
  <2>5. buf' = [e \in 0..(cnt - 1) |-> [b \in 0..(size - 1) |->
                  IF e < a_i + 1 THEN Source(e, b) ELSE <<"buf", e, b>>]]
    <3>1. buf = [e \in 0..(cnt - 1) |-> [b \in 0..(size - 1) |->
                   IF e < a_i THEN Source(e, b) ELSE <<"buf", e, b>>]]
      BY <1>1, <1>3, <1>4 DEF BufIs
    <3>2. buf' = [buf EXCEPT ![a_i] = [b \in 0..(size - 1) |-> Source(a_i, b)]]
      BY <2>1, <2>4, Zenon
    <3>3. \A e \in 0..(cnt - 1) : e < a_i + 1 <=> e < a_i \/ e = a_i
      BY <1>4
    <3>4. a_i \in 0..(cnt - 1)
      BY <1>1, <1>4
    <3> QED BY <3>1, <3>2, <3>3, <3>4
  <2>6. BufIs'
    BY <1>1, <1>7, <1>8, <2>1, <2>5 DEF BufIs
  <2>7. ValIs'
    BY <2>1 DEF ValIs, Arrays!Zero
  <2>8. CsrIs'
    BY <1>1, <1>3 DEF CsrIs, Arrays!AllWords
  <2> QED BY <1>9, <2>6, <2>7, <2>8 DEF ArraysInv
<1> QED BY <1>13, <1>14

\* The loops are over.
LEMMA ReturnInv ==
    ASSUME ArraysInv, Arrays!Return
    PROVE  ArraysInv'
<1>1. a_pc' = "done" /\ a_i = Last /\ UNCHANGED <<op, size, cnt, csr, buf, a_i, a_k, a_v>>
  BY DEF Arrays!Return, Last
<1>2. Sorts /\ Places /\ CsrIs /\ BufIs /\ ValIs
  BY DEF ArraysInv
<1>3. Written' = Written /\ ReadSoFar' = ReadSoFar /\ Last' = Last
      /\ (\A w, b : Target(w, b)' = Target(w, b)) /\ (\A e, b : Source(e, b)' = Source(e, b))
  BY <1>1, SameCall DEF Written, ReadSoFar
<1>4. Sorts' /\ Places'
  BY <1>1, <1>2, <1>3 DEF Sorts, Places
<1>5. CsrIs'
  BY <1>1, <1>2, <1>3 DEF CsrIs, Arrays!AllWords
<1>6. BufIs'
  BY <1>1, <1>2, <1>3 DEF BufIs
<1>7. ValIs'
  BY <1>1, <1>2 DEF ValIs
<1> QED BY <1>4, <1>5, <1>6, <1>7 DEF ArraysInv

\* Another part's step.
LEMMA ArraysRest ==
    ASSUME ArraysInv, UNCHANGED arrays
    PROVE  ArraysInv'
<1>1. UNCHANGED <<op, size, cnt, csr, buf, a_i, a_k, a_v, a_pc>>
  BY DEF arrays
<1>2. Sorts /\ Places /\ CsrIs /\ BufIs /\ ValIs
  BY DEF ArraysInv
<1>3. Written' = Written /\ ReadSoFar' = ReadSoFar /\ Last' = Last
      /\ (\A w, b : Target(w, b)' = Target(w, b)) /\ (\A e, b : Source(e, b)' = Source(e, b))
  BY <1>1, SameCall DEF Written, ReadSoFar
<1>4. Sorts' /\ Places'
  BY <1>1, <1>2, <1>3 DEF Sorts, Places
<1>5. CsrIs'
  BY <1>1, <1>2, <1>3 DEF CsrIs, Arrays!AllWords
<1>6. BufIs'
  BY <1>1, <1>2, <1>3 DEF BufIs
<1>7. ValIs'
  BY <1>1, <1>2 DEF ValIs
<1> QED BY <1>4, <1>5, <1>6, <1>7 DEF ArraysInv

-----------------------------------------------------------------------------
\* The invariant says of a completed transfer that the two sides hold the same number.
LEMMA InvariantCopies ==
    ASSUME Arrays!ArrayAssumption, ArraysInv
    PROVE  Arrays!TypeOK /\ Arrays!SameNumber /\ Arrays!StaysInside
<1> DEFINE m == Arrays!Needed
<1>1. Sorts /\ Places /\ CsrIs /\ BufIs /\ ValIs
  BY DEF ArraysInv
<1>2. /\ size \in {1, 2, 4, 8} /\ cnt \in Nat \ {0} /\ cnt <= MaxCount /\ MaxCount \in Nat
      /\ m \in Nat /\ m <= 2 * cnt /\ Last \in Nat /\ Written \in Nat /\ Written <= m
      /\ ReadSoFar \in Int /\ ReadSoFar <= cnt
      /\ (a_i = Last => Written = m /\ ReadSoFar = cnt)
  BY <1>1, Bounds
<1>3. /\ Arrays!ByteCount \in Nat /\ Arrays!ByteCount = size * cnt /\ 4 * m >= Arrays!ByteCount
      /\ Last <= 2 * cnt
  <2> HIDE DEF m
  <2>1. Arrays!ByteCount = size * cnt
    BY DEF Arrays!ByteCount
  <2>2. size * cnt \in Nat
    BY <1>2
  <2>3. 4 * m >= size * cnt
    <3>1. m = (size * cnt + 3) \div 4
      BY DEF m, Arrays!Needed, Arrays!ByteCount
    <3> QED BY <2>2, <3>1
  <2>4. Last <= 2 * cnt
    BY <1>2, Sizes DEF Last, m
  <2> QED BY <2>1, <2>2, <2>3, <2>4
<1>4. Arrays!TypeOK
  <2>1. DOMAIN csr = Arrays!AllWords /\ \A w \in Arrays!AllWords : DOMAIN csr[w] = 0..3
    BY <1>1 DEF CsrIs
  <2>2. DOMAIN buf = 0..(cnt - 1) /\ \A e \in DOMAIN buf : DOMAIN buf[e] = 0..(size - 1)
    BY <1>1 DEF BufIs
  <2>3. DOMAIN a_v = 0..7
    BY <1>1 DEF ValIs
  <2>4. a_i \in 0..(2 * MaxCount) /\ a_k \in 0..1
    <3> HIDE DEF m
    <3> QED BY <1>1, <1>2, <1>3 DEF Places
  <2> QED BY <1>1, <2>1, <2>2, <2>3, <2>4 DEF Sorts, Arrays!TypeOK
<1>5. Arrays!StaysInside
  <2>1. ASSUME NEW w \in Arrays!AllWords, w >= m PROVE csr[w] = Arrays!Filled[w]
    <3>1. ~(w < Written)
      <4> HIDE DEF m
      <4> QED BY <1>2, <2>1 DEF Arrays!AllWords
    <3>2. csr[w] = [b \in 0..3 |-> <<"csr", w, b>>]
      BY <1>1, <3>1 DEF CsrIs
    <3> QED BY <3>2 DEF Arrays!Filled
  <2>2. a_i * (IF Arrays!Shared THEN 1 ELSE Arrays!WordsPerElement) <= m
    <3> HIDE DEF m
    <3>1. CASE Arrays!Shared
      BY <1>1, <1>2, <3>1 DEF Written, Places
    <3>2. CASE ~Arrays!Shared
      <4>1. Arrays!WordsPerElement \in {1, 2}
        BY <1>2, <3>2, Sizes
      <4> QED BY <1>1, <1>2, <3>2, <4>1 DEF Written, Places
    <3> QED BY <3>1, <3>2
  <2> QED BY <2>1, <2>2 DEF Arrays!StaysInside
<1>6. ASSUME a_pc = "done", NEW n \in 0..(4 * m - 1)
      PROVE  IF n < Arrays!ByteCount THEN Arrays!CsrByte(n) = Arrays!BufByte(n)
             ELSE op = "wr" => Arrays!CsrByte(n) = Arrays!NoByte
  <2> DEFINE w == m - 1 - n \div 4
             b == n % 4
             e == cnt - 1 - n \div size
             c == n % size
  <2>1. Written = m /\ ReadSoFar = cnt
    BY <1>1, <1>2, <1>6 DEF Places
  <2>2. /\ w \in Arrays!AllWords /\ w < m /\ b \in 0..3 /\ 4 * (m - 1 - w) + b = n
    <3> HIDE DEF m
    <3> QED BY <1>2 DEF Arrays!AllWords
  <2>3. n < Arrays!ByteCount => /\ e \in 0..(cnt - 1) /\ c \in 0..(size - 1)
                                /\ size * (cnt - 1 - e) + c = n
    <3> HIDE DEF m
    <3>1. n \in Nat
      BY <1>2
    <3>2. CASE size = 1
      BY <1>2, <1>3, <3>1, <3>2
    <3>3. CASE size = 2
      BY <1>2, <1>3, <3>1, <3>3
    <3>4. CASE size = 4
      BY <1>2, <1>3, <3>1, <3>4
    <3>5. CASE size = 8
      BY <1>2, <1>3, <3>1, <3>5
    <3> QED BY <1>2, <3>2, <3>3, <3>4, <3>5
  <2>4. Arrays!CsrByte(n) = csr[w][b] /\ Arrays!BufByte(n) = buf[e][c]
    BY DEF Arrays!CsrByte, Arrays!BufByte
  <2>5. CASE op = "wr"
    <3>1. csr[w][b] = Target(w, b)
      <4> HIDE DEF w, b, m
      <4> QED BY <1>1, <2>1, <2>2, <2>5 DEF CsrIs
    <3>2. Target(w, b) = IF n < Arrays!ByteCount THEN <<"buf", e, c>> ELSE Arrays!NoByte
      <4> HIDE DEF w, b
      <4> QED BY <2>2, Zenon DEF Target
    <3>3. n < Arrays!ByteCount => buf[e][c] = <<"buf", e, c>>
      <4> HIDE DEF e, c, m
      <4> QED BY <1>1, <2>3, <2>5 DEF BufIs
    <3> HIDE DEF e, c, w, b, m
    <3> QED BY <2>4, <3>1, <3>2, <3>3
  <2>6. CASE op = "rd"
    <3>1. csr[w][b] = <<"csr", w, b>>
      <4> HIDE DEF w, b, m
      <4> QED BY <1>1, <2>2, <2>6 DEF CsrIs
    <3>2. n < Arrays!ByteCount => buf[e][c] = Source(e, c)
      <4>1. n < Arrays!ByteCount => e < ReadSoFar
        <5> HIDE DEF e, c, m
        <5> QED BY <1>2, <2>1, <2>3
      <4> HIDE DEF e, c, m
      <4> QED BY <1>1, <2>3, <2>6, <4>1 DEF BufIs
    <3>3. n < Arrays!ByteCount => Source(e, c) = <<"csr", w, b>>
      <4> HIDE DEF e, c
      <4> QED BY <2>3, Zenon DEF Source
    <3> HIDE DEF e, c, w, b, m
    <3> QED BY <2>4, <2>6, <3>1, <3>2, <3>3
  <2> QED BY <1>1, <2>5, <2>6 DEF Sorts
<1>7. Arrays!SameNumber
  <2>1. \A n \in 0..(Arrays!ByteCount - 1) : n \in 0..(4 * m - 1) /\ n < Arrays!ByteCount
    <3> HIDE DEF m
    <3> QED BY <1>2, <1>3
  <2>2. \A n \in Arrays!ByteCount..(4 * m - 1) : n \in 0..(4 * m - 1) /\ ~(n < Arrays!ByteCount)
    <3> HIDE DEF m
    <3> QED BY <1>2, <1>3
  <2> QED BY <1>6, <2>1, <2>2 DEF Arrays!SameNumber
<1> QED BY <1>4, <1>5, <1>7

\* hw/common.h: after _csr_wr_buf and _csr_rd_buf, and every accessor made of them, the
\* register and the array are the same number, and nothing behind the register is touched.
THEOREM ArraysCorrect == Spec => []ArraysAreCopied
<1>1. Arrays!ArrayAssumption
  BY PartsAssumption
<1>2. ASSUME Init PROVE ArraysInv
  <2>1. /\ op \in {"rd", "wr"} /\ size \in ElementSizes /\ cnt \in 1..MaxCount
        /\ csr = Arrays!Filled /\ buf = [e \in 0..(cnt - 1) |-> [b \in 0..(size - 1) |-> <<"buf", e, b>>]]
        /\ a_i = 0 /\ a_k = 0 /\ a_v = Arrays!Zero /\ a_pc = "loop"
    <3>1. Arrays!Init
      BY <1>2, Zenon DEF Init
    <3> QED BY <3>1 DEF Arrays!Init
  <2>2. Last \in Nat
    BY <1>1, <2>1, Sizes DEF Arrays!ArrayAssumption, Last
  <2>3. Sorts /\ Places
    BY <2>1, <2>2 DEF Sorts, Places
  <2>4. Written = 0 /\ ReadSoFar <= 0 /\ ReadSoFar \in Int
    BY <1>1, <2>1, <2>3, Bounds
  <2>5. CsrIs
    BY <2>1, <2>4 DEF CsrIs, Arrays!Filled, Arrays!AllWords
  <2>6. BufIs
    BY <2>1, <2>4 DEF BufIs
  <2>7. ValIs
    BY <2>1 DEF ValIs, Arrays!Zero
  <2> QED BY <2>3, <2>5, <2>6, <2>7 DEF ArraysInv
<1>3. ASSUME ArraysInv, [Next]_vars PROVE ArraysInv'
  <2>1. Arrays!Next \/ UNCHANGED arrays
    BY <1>3, Zenon DEF vars, Next, ArraysStep, CountersStep, ConsoleStep, StartUpStep, GoldenStep,
                       BusStep, Over
  <2> QED BY <1>1, <1>3, <2>1, WriteSharedInv, WriteElementInv, ReadSharedInv, ReadElementInv,
             ReturnInv, ArraysRest DEF Arrays!Next
<1>4. ArraysInv => ArraysAreCopied
  BY <1>1, InvariantCopies DEF ArraysAreCopied
<1> QED BY <1>2, <1>3, <1>4, PTL DEF Spec
=============================================================================
