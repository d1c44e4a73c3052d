------------------------------- MODULE CsrArray -------------------------------
(***************************************************************************)
(* hw/common.h: values and arrays that are wider than one register word,   *)
(* read and written word by word (_csr_rd, _csr_wr, _csr_rd_buf,           *)
(* _csr_wr_buf and the csr_rd_uint8 ... csr_wr_buf_uint64 made of them).   *)
(*                                                                         *)
(* A number is the function from the significance of a byte to the byte,   *)
(* and a byte is only known by where it comes from: <<"buf", element,      *)
(* byte>>, <<"csr", word, byte>>, or NoByte for a zero that was shifted in. *)
(* A single value, csr_rd_uint16 for one, is an array of one element.      *)
(***************************************************************************)
EXTENDS Integers

CONSTANTS
    MaxCount,      \* bound: elements of the array
    ElementSizes   \* bytes of an element: 1, 2, 4 and 8 in the code

ArrayAssumption == MaxCount \in Nat \ {0} /\ ElementSizes \subseteq {1, 2, 4, 8}

VARIABLES
    op,        \* "rd" or "wr"
    size, cnt, \* sizeof(buf[0]) and cnt
    csr,       \* the words from address a on
    buf,       \* the array
    i, k,      \* the loops' counters
    v,         \* r of _csr_rd
    pc

vars == <<op, size, cnt, csr, buf, i, k, v, pc>>

CSR_DW_BYTES == 4
NoByte       == <<"0", 0, 0>>
AllWords     == 0..(2 * MaxCount + 1)    \* one word and more behind every array

Shl(x, n) == [b \in 0..7 |-> IF b < n THEN NoByte ELSE x[b - n]]
Shr(x, n) == [b \in 0..7 |-> IF b + n > 7 THEN NoByte ELSE x[b + n]]
Or(x, y)  == [b \in 0..7 |-> IF x[b] = NoByte THEN y[b] ELSE x[b]]
Extend(x) == [b \in 0..7 |-> IF b \in DOMAIN x THEN x[b] ELSE NoByte]

Low(x, n) == [b \in 0..(n - 1) |-> x[b]]
Zero      == [b \in 0..7 |-> NoByte]

\* Faulty variant: a word too many when the last one is full.
num_subregs_full(csr_bytes) == csr_bytes \div CSR_DW_BYTES + 1

num_subregs(csr_bytes) == (csr_bytes - 1) \div CSR_DW_BYTES + 1

\* (C rounds -1 / 4 to 0, so that cnt = 0 would write one word; cnt is at least 1.)
\* One element fills one word or more, or several share a word.
WordsPerElement == num_subregs(size)
Shared          == size < CSR_DW_BYTES
nsubregs        == num_subregs(size * cnt)
nsubelems       == CSR_DW_BYTES \div size

\* How many elements of the first word are not the array's.
Offset(nsub) == nsub * nsubelems - cnt

\* Element j of word w of a shared array; negative before the array begins.
Element(w, j) == w * nsubelems + j - Offset(nsubregs)

-----------------------------------------------------------------------------
\* _csr_wr and _csr_rd deal with the most significant word first.
WordShift(n, w) == n - 1 - w

\* v of _csr_wr_buf: the elements of word w, shifted in from the first to the last.
Packed(w) ==
    LET upTo[j \in 0..nsubelems] ==
          IF j = 0 THEN Zero
          ELSE IF Element(w, j - 1) < 0 THEN upTo[j - 1]
          ELSE Or(Shl(upTo[j - 1], size), Extend(buf[Element(w, j - 1)]))
    IN  upTo[nsubelems]

\* csr_write_simple.
WriteWord(a, x) == csr' = [csr EXCEPT ![a] = Low(x, CSR_DW_BYTES)]

WriteShared ==
    /\ op = "wr" /\ pc = "loop" /\ Shared /\ i < nsubregs
    /\ WriteWord(i, Packed(i))
    /\ i' = i + 1
    /\ UNCHANGED <<op, size, cnt, buf, k, v, pc>>

WriteElement ==
    /\ op = "wr" /\ pc = "loop" /\ ~Shared /\ i < cnt
    /\ WriteWord(i * WordsPerElement + k,
                 Shr(Extend(buf[i]), CSR_DW_BYTES * WordShift(WordsPerElement, k)))
    /\ IF k + 1 < WordsPerElement THEN k' = k + 1 /\ i' = i ELSE k' = 0 /\ i' = i + 1
    /\ UNCHANGED <<op, size, cnt, buf, v, pc>>

\* One word of _csr_rd_buf: its elements leave it from the last to the first.
ReadShared ==
    /\ op = "rd" /\ pc = "loop" /\ Shared /\ i < nsubregs
    /\ buf' = [e \in 0..(cnt - 1) |->
                 IF \E j \in 0..(nsubelems - 1) : Element(i, j) = e
                 THEN LET j == CHOOSE x \in 0..(nsubelems - 1) : Element(i, x) = e
                      IN  Low(Shr(Extend(csr[i]), size * (nsubelems - 1 - j)), size)
                 ELSE buf[e]]
    /\ i' = i + 1
    /\ UNCHANGED <<op, size, cnt, csr, k, v, pc>>

\* One word of _csr_rd; the last one completes element i.
ReadElement ==
    /\ op = "rd" /\ pc = "loop" /\ ~Shared /\ i < cnt
    /\ LET r == Or(IF k = 0 THEN Zero ELSE Shl(v, CSR_DW_BYTES),
                   Extend(csr[i * WordsPerElement + k]))
       IN  IF k + 1 < WordsPerElement
           THEN k' = k + 1 /\ i' = i /\ v' = r /\ UNCHANGED buf
           ELSE k' = 0 /\ i' = i + 1 /\ v' = Zero /\ buf' = [buf EXCEPT ![i] = Low(r, size)]
    /\ UNCHANGED <<op, size, cnt, csr, pc>>

Return ==
    /\ pc = "loop" /\ i = (IF Shared THEN nsubregs ELSE cnt)
    /\ pc' = "done"
    /\ UNCHANGED <<op, size, cnt, csr, buf, i, k, v>>

-----------------------------------------------------------------------------
Filled == [w \in AllWords |-> [b \in 0..3 |-> <<"csr", w, b>>]]

Init ==
    /\ op \in {"rd", "wr"} /\ size \in ElementSizes /\ cnt \in 1..MaxCount
    /\ csr = Filled
    /\ buf = [e \in 0..(cnt - 1) |-> [b \in 0..(size - 1) |-> <<"buf", e, b>>]]
    /\ i = 0 /\ k = 0 /\ v = Zero /\ pc = "loop"

Next == WriteShared \/ WriteElement \/ ReadShared \/ ReadElement \/ Return

Spec == Init /\ [][Next]_vars
-----------------------------------------------------------------------------
(* Properties.                                                             *)

\* Bytes needed, and the words that hold them: the table in hw/common.h.
ByteCount == size * cnt
Needed    == (ByteCount + 3) \div 4

TypeOK ==
    /\ op \in {"rd", "wr"} /\ size \in ElementSizes /\ cnt \in 1..MaxCount
    /\ DOMAIN csr = AllWords /\ \A w \in AllWords : DOMAIN csr[w] = 0..3
    /\ DOMAIN buf = 0..(cnt - 1) /\ \A e \in DOMAIN buf : DOMAIN buf[e] = 0..(size - 1)
    /\ i \in 0..(2 * MaxCount) /\ k \in 0..1 /\ DOMAIN v = 0..7 /\ pc \in {"loop", "done"}

\* The array and the register as numbers: byte n counted from the least
\* significant one, which is in the array's last element and in the register's last
\* word.  So the register banks have it: the first word of la_out is its bits 127 to
\* 96 (mgmt_core.v:5399, 7393-7406).
BufByte(n) == buf[cnt - 1 - n \div size][n % size]
CsrByte(n) == csr[Needed - 1 - n \div 4][n % 4]

\* A completed transfer leaves the same number on both sides, for every size of
\* element, also where the elements do not fill the first word, and that word is
\* padded with zeros.
SameNumber ==
    pc = "done" =>
        /\ \A n \in 0..(ByteCount - 1) : CsrByte(n) = BufByte(n)
        /\ op = "wr" => \A n \in ByteCount..(4 * Needed - 1) : CsrByte(n) = NoByte

\* What the comment at hw/common.h:19 says of a register of several words: the least
\* significant slice is at the base address.  _csr_wr and _csr_rd (and the banks, see
\* above) have the most significant one there.
LeastSignificantFirst ==
    pc = "done" /\ cnt = 1 /\ ~Shared =>
        \A w \in 0..(WordsPerElement - 1), b \in 0..3 : csr[w][b] = BufByte(4 * w + b)

\* Only the words of the register are written, and a read loses no byte of it.
StaysInside ==
    /\ \A w \in AllWords : w >= Needed => csr[w] = Filled[w]
    /\ i * (IF Shared THEN 1 ELSE WordsPerElement) <= Needed
=============================================================================
