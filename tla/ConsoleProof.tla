----------------------------- MODULE ConsoleProof -----------------------------
(***************************************************************************)
(* Proof about the console: what arrives at the other end of the line is   *)
(* the text that print was given, for queues of any depth, characters of   *)
(* any width the serializer can count, and texts of any length.            *)
(*                                                                         *)
(* The argument follows a character.  What putchar has stored so far is    *)
(* what has arrived, then the character in the queue's output register,    *)
(* which the serializer may be sending, then the queue's memory from the   *)
(* place it is read at.                                                    *)
(***************************************************************************)
EXTENDS Parts, WellFoundedInduction, SequenceTheorems, TLAPS

Word == Console!Word

-----------------------------------------------------------------------------
(* The text on the line, piece by piece.                                   *)

\* What the characters of t look like on the line: character k, and the first k.
Piece(t, k) == IF t[k] = NL THEN <<CR, NL>> ELSE <<t[k]>>
Pieces(t, n, f) ==
    /\ f \in [0..n -> Seq(Word)] /\ f[0] = <<>>
    /\ \A k \in 1..n : f[k] = f[k - 1] \o Piece(t, k)
UpTo(t) == CHOOSE f : Pieces(t, Len(t), f)

\* A set of numbers that is not empty has a least one.
LEMMA Least ==
    ASSUME NEW T, T \subseteq Nat, T # {}
    PROVE  \E x \in T : \A y \in T : x <= y
<1>1. PICK x \in T : \A y \in T : <<y, x>> \notin OpToRel(<, Nat)
  BY NatLessThanWellFounded, WFMin, Zenon
<1>2. \A y \in T : ~(y < x)
  BY <1>1, Zenon DEF OpToRel
<1> QED BY <1>2

\* What a character looks like on the line consists of words.
LEMMA PieceIsText ==
    ASSUME Console!UartAssumption, NEW t \in Seq(Console!Char), NEW k \in 1..Len(t)
    PROVE  Piece(t, k) \in Seq(Word) /\ t[k] \in Word /\ CR \in Word /\ NL \in Word
<1>1. t[k] \in Word /\ CR \in Word /\ NL \in Word
  BY DEF Console!UartAssumption, Console!Char, Word
<1> QED BY <1>1 DEF Piece

\* There are such pieces: no least number of characters is without.
LEMMA PiecesExist ==
    ASSUME Console!UartAssumption, NEW t \in Seq(Console!Char)
    PROVE  Pieces(t, Len(t), UpTo(t))
<1> DEFINE L   == Len(t)
           Bad == {n \in 0..L : ~\E f : Pieces(t, n, f)}
<1>1. L \in Nat
  OBVIOUS
<1>2. SUFFICES ASSUME Bad # {} PROVE FALSE
  <2>1. L \in 0..L
    BY <1>1
  <2>2. \E f : Pieces(t, L, f)
    BY <1>2, <2>1, Zenon
  <2> QED BY <2>2, Zenon DEF UpTo
<1>3. PICK n \in Bad : \A y \in Bad : n <= y
  <2>1. Bad \subseteq Nat
    OBVIOUS
  <2> HIDE DEF Bad
  <2> QED BY <1>2, <2>1, Least
<1>4. n \in 0..L /\ ~\E f : Pieces(t, n, f)
  BY <1>3
<1>5. CASE n = 0
  <2> DEFINE f == [k \in 0..0 |-> <<>>]
  <2>1. f \in [0..0 -> Seq(Word)] /\ f[0] = <<>>
    OBVIOUS
  <2>2. \A k \in 1..0 : FALSE
    OBVIOUS
  <2> HIDE DEF f
  <2>3. Pieces(t, 0, f)
    BY <2>1, <2>2 DEF Pieces
  <2> QED BY <1>4, <1>5, <2>3
<1>6. CASE n # 0
  <2>1. n - 1 \in 0..L /\ ~(n <= n - 1) /\ n \in 1..L
    BY <1>1, <1>4, <1>6
  <2>2. PICK f : Pieces(t, n - 1, f)
    BY <1>3, <2>1
  <2> DEFINE g == [k \in 0..n |-> IF k = n THEN f[n - 1] \o Piece(t, n) ELSE f[k]]
  <2>3. f \in [0..(n - 1) -> Seq(Word)] /\ f[0] = <<>>
        /\ \A k \in 1..(n - 1) : f[k] = f[k - 1] \o Piece(t, k)
    BY <2>2, Zenon DEF Pieces
  <2>4. Piece(t, n) \in Seq(Word)
    BY <2>1, PieceIsText
  <2>5. f[n - 1] \o Piece(t, n) \in Seq(Word)
    <3>1. f[n - 1] \in Seq(Word)
      BY <2>1, <2>3
    <3> QED BY <2>4, <3>1
  <2>6. g \in [0..n -> Seq(Word)] /\ g[0] = <<>>
    BY <2>1, <2>3, <2>5
  <2>7. ASSUME NEW k \in 1..n PROVE g[k] = g[k - 1] \o Piece(t, k)
    <3>1. k - 1 \in 0..n /\ k - 1 # n /\ k \in 0..n
      BY <2>1
    <3>2. g[k - 1] = f[k - 1]
      BY <3>1
    <3>3. CASE k = n
      BY <3>1, <3>2, <3>3
    <3>4. CASE k # n
      <4>1. k \in 1..(n - 1) /\ g[k] = f[k]
        BY <2>1, <3>1, <3>4
      <4> HIDE DEF g
      <4> QED BY <2>3, <3>2, <4>1
    <3> QED BY <3>3, <3>4
  <2> HIDE DEF g
  <2>8. Pieces(t, n, g)
    BY <2>6, <2>7 DEF Pieces
  <2> QED BY <1>4, <2>8
<1> QED BY <1>5, <1>6

\* All the pieces together are the text as it should appear on the line.
LEMMA PiecesAreExpanded ==
    ASSUME Console!UartAssumption, text \in Seq(Console!Char)
    PROVE  Console!Expanded = UpTo(text)[Len(text)]
<1> DEFINE L == Len(text)
           u == UpTo(text)
           s == [k \in 1..L |-> IF text[k] = NL THEN <<CR, NL>> ELSE <<text[k]>>]
           Flat(f) == f = [k \in 1..L |-> IF k = 1 THEN s[k] ELSE f[k - 1] \o s[k]]
           g == [k \in 1..L |-> u[k]]
           c == CHOOSE f : Flat(f)
<1>1. /\ L \in Nat /\ u \in [0..L -> Seq(Word)] /\ u[0] = <<>>
      /\ \A k \in 1..L : u[k] = u[k - 1] \o Piece(text, k)
  <2>1. Pieces(text, L, u)
    BY PiecesExist
  <2>2. L \in Nat
    OBVIOUS
  <2> HIDE DEF L, u
  <2> QED BY <2>1, <2>2, Zenon DEF Pieces
<1> HIDE DEF u
<1>2. \A k \in 1..L : s[k] = Piece(text, k) /\ s[k] \in Seq(Word)
  BY PieceIsText DEF Piece
<1>3. s \in Seq(Seq(Word)) /\ Len(s) = L
  <2>1. s \in [1..L -> Seq(Word)]
    <3>1. \A k \in 1..L : s[k] \in Seq(Word)
      BY <1>2
    <3> QED BY <3>1
  <2> HIDE DEF s, L
  <2> QED BY <1>1, <2>1
<1>4. CASE L = 0
  <2>1. s = <<>>
    BY <1>4
  <2>2. Console!FlattenSeq(s) = s
    BY <1>3, <1>4 DEF Console!FlattenSeq
  <2>3. Console!Expanded = Console!FlattenSeq(s)
    BY Zenon DEF Console!Expanded
  <2> HIDE DEF s
  <2> QED BY <1>1, <1>4, <2>1, <2>2, <2>3 DEF u
<1>5. CASE L # 0
  <2>1. \A k \in 1..L : u[k] = IF k = 1 THEN s[k] ELSE u[k - 1] \o s[k]
    <3>1. ASSUME NEW k \in 1..L PROVE u[k] = IF k = 1 THEN s[k] ELSE u[k - 1] \o s[k]
      <4>1. u[k] = u[k - 1] \o s[k] /\ s[k] \in Seq(Word)
        BY <1>1, <1>2
      <4> HIDE DEF s
      <4>2. k = 1 => u[k - 1] = <<>>
        BY <1>1
      <4>3. <<>> \o s[k] = s[k]
        BY <4>1, ConcatEmptySeq
      <4> QED BY <4>1, <4>2, <4>3
    <3> QED BY <3>1
  <2>2. Flat(g)
    <3>1. ASSUME NEW k \in 1..L PROVE g[k] = IF k = 1 THEN s[k] ELSE g[k - 1] \o s[k]
      <4>1. k # 1 => k - 1 \in 1..L
        BY <1>1
      <4>2. g[k] = u[k] /\ (k # 1 => g[k - 1] = u[k - 1])
        BY <4>1
      <4> HIDE DEF s, g
      <4> QED BY <2>1, <4>2
    <3> HIDE DEF s
    <3> QED BY <3>1
  <2>3. Flat(c)
    <3> HIDE DEF g, Flat
    <3> QED BY <2>2, Zenon
  <2>4. \A k \in 1..L : c[k] = IF k = 1 THEN s[k] ELSE c[k - 1] \o s[k]
    <3> HIDE DEF c, s
    <3> QED BY <2>3, Zenon
  <2>5. c[L] = u[L]
    <3> DEFINE Bad == {k \in 1..L : c[k] # u[k]}
    <3>1. SUFFICES ASSUME Bad # {} PROVE FALSE
      <4> HIDE DEF c
      <4> QED BY <1>1, <1>5
    <3>2. PICK k \in Bad : \A y \in Bad : k <= y
      <4>1. Bad \subseteq Nat
        <5> HIDE DEF c
        <5> QED BY <1>1
      <4> HIDE DEF Bad
      <4> QED BY <3>1, <4>1, Least
    <3> HIDE DEF c, s
    <3>3. k \in 1..L /\ c[k] # u[k]
      BY <3>2
    <3>4. CASE k = 1
      BY <2>1, <2>4, <3>3, <3>4
    <3>5. CASE k # 1
      <4>1. k - 1 \in 1..L /\ ~(k <= k - 1)
        BY <1>1, <3>3, <3>5
      <4>2. c[k - 1] = u[k - 1]
        BY <3>2, <4>1
      <4> QED BY <2>1, <2>4, <3>3, <3>5, <4>2
    <3> QED BY <3>4, <3>5
  <2>6. Console!FlattenSeq(s) = c[L]
    <3>1. Console!FlattenSeq(s) = IF Len(s) = 0 THEN s ELSE
             LET flatten[k \in 1..Len(s)] == IF k = 1 THEN s[k] ELSE flatten[k - 1] \o s[k]
             IN  flatten[Len(s)]
      BY Zenon DEF Console!FlattenSeq
    <3> HIDE DEF s
    <3> QED BY <1>3, <1>5, <3>1, Zenon
  <2>7. Console!Expanded = Console!FlattenSeq(s)
    BY Zenon DEF Console!Expanded
  <2> QED BY <2>5, <2>6, <2>7 DEF u
<1> QED BY <1>4, <1>5

\* The first pieces are the beginning of all of them.
LEMMA PiecesAreBeginnings ==
    ASSUME Console!UartAssumption, NEW t \in Seq(Console!Char), NEW k \in 0..Len(t)
    PROVE  /\ UpTo(t)[k] \in Seq(Word) /\ UpTo(t)[Len(t)] \in Seq(Word)
           /\ Len(UpTo(t)[k]) <= Len(UpTo(t)[Len(t)])
           /\ \A n \in 1..Len(UpTo(t)[k]) : UpTo(t)[k][n] = UpTo(t)[Len(t)][n]
<1> DEFINE L == Len(t)
           u == UpTo(t)
           Good(m) == /\ Len(u[m]) <= Len(u[L])
                      /\ \A n \in 1..Len(u[m]) : u[m][n] = u[L][n]
           Bad == {d \in 0..L : ~Good(L - d)}
<1>1. /\ L \in Nat /\ u \in [0..L -> Seq(Word)]
      /\ \A m \in 1..L : u[m] = u[m - 1] \o Piece(t, m)
  <2>1. Pieces(t, L, u)
    BY PiecesExist
  <2>2. L \in Nat
    OBVIOUS
  <2> HIDE DEF L, u
  <2> QED BY <2>1, <2>2, Zenon DEF Pieces
<1> HIDE DEF u
<1>2. Bad = {}
  <2>1. SUFFICES ASSUME Bad # {} PROVE FALSE
    BY Zenon
  <2>2. PICK d \in Bad : \A y \in Bad : d <= y
    <3>1. Bad \subseteq Nat
      BY <1>1
    <3> HIDE DEF Bad
    <3> QED BY <2>1, <3>1, Least
  <2>3. d \in 0..L /\ ~Good(L - d)
    BY <2>2
  <2>4. CASE d = 0
    BY <1>1, <2>3, <2>4
  <2>5. CASE d # 0
    <3>1. d - 1 \in 0..L /\ ~(d <= d - 1) /\ L - (d - 1) = L - d + 1 /\ L - d \in 0..L
          /\ L - d + 1 \in 1..L /\ L - d + 1 - 1 = L - d
      BY <1>1, <2>3, <2>5
    <3>2. Good(L - d + 1)
      <4>1. Good(L - (d - 1))
        BY <2>2, <3>1
      <4> HIDE DEF Good
      <4> QED BY <3>1, <4>1
    <3> DEFINE a == u[L - d]
               b == Piece(t, L - d + 1)
               c == u[L - d + 1]
    <3>3. c = a \o b /\ a \in Seq(Word) /\ b \in Seq(Word)
      <4>1. b \in Seq(Word)
        BY <3>1, PieceIsText
      <4> HIDE DEF b
      <4>2. a \in Seq(Word)
        BY <1>1, <3>1
      <4> HIDE DEF L
      <4>3. PICK m \in 1..L : m = L - d + 1
        BY <3>1
      <4>4. u[m] = u[m - 1] \o Piece(t, m)
        BY <1>1
      <4>5. m - 1 = L - d
        BY <3>1, <4>3
      <4> QED BY <4>1, <4>2, <4>3, <4>4, <4>5 DEF b
    <3>4. /\ Len(c) = Len(a) + Len(b) /\ Len(a) \in Nat /\ Len(b) \in Nat
          /\ \A n \in 1..Len(a) : c[n] = a[n]
      <4> HIDE DEF a, b, c
      <4> QED BY <3>3, ConcatProperties
    <3>5. u[L] \in Seq(Word) /\ Len(u[L]) \in Nat
      BY <1>1
    <3>6. Good(L - d)
      <4>1. Len(c) <= Len(u[L]) /\ \A n \in 1..Len(c) : c[n] = u[L][n]
        BY <3>2
      <4> HIDE DEF a, b, c, L
      <4>2. Len(a) <= Len(u[L]) /\ \A n \in 1..Len(a) : a[n] = u[L][n]
        BY <3>4, <3>5, <4>1
      <4> QED BY <4>2 DEF a
    <3> QED BY <2>3, <3>6
  <2> QED BY <2>4, <2>5
<1>3. Good(k)
  <2>1. L - k \in 0..L /\ L - (L - k) = k
    BY <1>1
  <2> HIDE DEF Good, L
  <2> QED BY <1>2, <2>1
<1>4. u[k] \in Seq(Word) /\ u[L] \in Seq(Word)
  <2>1. k \in 0..L /\ L \in 0..L
    BY <1>1
  <2> HIDE DEF L
  <2> QED BY <1>1, <2>1
<1> QED BY <1>3, <1>4, Zenon DEF u

-----------------------------------------------------------------------------
\* What putchar has stored.
Sent == IF crDone THEN Append(UpTo(text)[u_p - 1], CR) ELSE UpTo(text)[u_p - 1]

\* putchar stands between '\r' and '\n' only at a '\n'; there is room for what it is about
\* to store, because it has polled and nobody else writes.
ProgramInv ==
    /\ text \in Texts /\ u_p \in 1..(Len(text) + 1) /\ crDone \in BOOLEAN
    /\ u_pc \in {"poll", "store"}
    /\ crDone => u_p <= Len(text) /\ text[u_p] = NL
    /\ u_pc = "store" => u_p <= Len(text) /\ level < Depth

\* What has been stored is the beginning of the text as it should appear.
LEMMA SentIsText ==
    ASSUME Console!UartAssumption, ProgramInv
    PROVE  /\ Sent \in Seq(Word) /\ Console!Expanded \in Seq(Word)
           /\ Len(Sent) <= Len(Console!Expanded)
           /\ \A n \in 1..Len(Sent) : Sent[n] = Console!Expanded[n]
<1> DEFINE L == Len(text)
           u == UpTo(text)
<1>1. /\ text \in Seq(Console!Char) /\ L \in Nat /\ u_p \in 1..(L + 1) /\ crDone \in BOOLEAN
      /\ u_p - 1 \in 0..L /\ (crDone => u_p \in 1..L /\ text[u_p] = NL)
  BY DEF Console!UartAssumption, ProgramInv
<1>2. Console!Expanded = u[L]
  BY <1>1, PiecesAreExpanded
<1>3. ASSUME NEW k \in 0..L
      PROVE  /\ u[k] \in Seq(Word) /\ u[L] \in Seq(Word) /\ Len(u[k]) <= Len(u[L])
             /\ \A n \in 1..Len(u[k]) : u[k][n] = u[L][n]
  BY <1>1, PiecesAreBeginnings
<1>4. CASE ~crDone
  <2>1. Sent = u[u_p - 1]
    BY <1>4 DEF Sent
  <2> HIDE DEF u, L
  <2> QED BY <1>1, <1>2, <1>3, <2>1
<1>5. CASE crDone
  <2> DEFINE a == u[u_p - 1]
             b == u[u_p]
  <2>1. Sent = Append(a, CR)
    BY <1>5 DEF Sent
  <2>2. b = a \o <<CR, NL>>
    <3>1. Pieces(text, L, u)
      BY <1>1, PiecesExist
    <3>2. Piece(text, u_p) = <<CR, NL>>
      BY <1>1, <1>5 DEF Piece
    <3> HIDE DEF u, L
    <3> QED BY <1>1, <1>5, <3>1, <3>2 DEF Pieces
  <2>3. CR \in Word /\ NL \in Word
    BY DEF Console!UartAssumption, Console!Char, Word
  <2>4. a \in Seq(Word) /\ b \in Seq(Word) /\ u[L] \in Seq(Word) /\ Len(b) <= Len(u[L])
        /\ \A n \in 1..Len(b) : b[n] = u[L][n]
    <3> HIDE DEF u, L
    <3> QED BY <1>1, <1>3, <1>5
  <2>5. /\ Len(b) = Len(a) + 2 /\ Len(a) \in Nat /\ b[Len(a) + 1] = CR
        /\ \A n \in 1..Len(a) : b[n] = a[n]
    <3> HIDE DEF a, b
    <3>1. <<CR, NL>> \in Seq(Word) /\ Len(<<CR, NL>>) = 2 /\ <<CR, NL>>[1] = CR
      BY <2>3
    <3>2. Len(a) \in Nat
      BY <2>4
    <3> QED BY <2>2, <2>4, <3>1, <3>2, ConcatProperties
  <2>6. /\ Sent \in Seq(Word) /\ Len(Sent) = Len(a) + 1 /\ Sent[Len(a) + 1] = CR
        /\ \A n \in 1..Len(a) : Sent[n] = a[n]
    <3> HIDE DEF a, b
    <3> QED BY <2>1, <2>3, <2>4, AppendProperties
  <2>7. ASSUME NEW n \in 1..Len(Sent) PROVE Sent[n] = b[n] /\ n \in 1..Len(b)
    <3> HIDE DEF a, b
    <3>1. n \in 1..Len(a) \/ n = Len(a) + 1
      BY <2>5, <2>6
    <3> QED BY <2>5, <2>6, <3>1
  <2> HIDE DEF a, b
  <2>8. Len(Sent) <= Len(u[L])
    <3>1. Len(u[L]) \in Nat /\ Len(b) \in Nat
      BY <2>4, LenProperties
    <3> HIDE DEF u, L
    <3> QED BY <2>4, <2>5, <2>6, <3>1
  <2> QED BY <1>2, <2>4, <2>6, <2>7, <2>8
<1> QED BY <1>1, <1>4, <1>5

\* Storing a character adds it to what has been sent.
LEMMA StoreSends ==
    ASSUME Console!UartAssumption, ProgramInv, Console!Store
    PROVE  Sent' = Append(Sent, Console!NextChar) /\ Console!NextChar \in Word
<1> DEFINE L == Len(text)
           u == UpTo(text)
           a == u[u_p - 1]
<1>1. /\ text \in Seq(Console!Char) /\ L \in Nat /\ u_p \in 1..L /\ crDone \in BOOLEAN
      /\ u_p - 1 \in 0..L /\ u_p \in 0..L /\ (crDone => text[u_p] = NL)
      /\ text' = text /\ (crDone' <=> (text[u_p] = NL /\ ~crDone))
      /\ u_p' = (IF text[u_p] = NL /\ ~crDone THEN u_p ELSE u_p + 1)
  <2>1. text' = text /\ crDone' = (text[u_p] = NL /\ ~crDone)
        /\ u_p' = (IF text[u_p] = NL /\ ~crDone THEN u_p ELSE u_p + 1) /\ u_pc = "store"
    BY Zenon DEF Console!Store
  <2>2. /\ text \in Seq(Console!Char) /\ L \in Nat /\ u_p \in 1..L /\ crDone \in BOOLEAN
        /\ (crDone => text[u_p] = NL)
    BY <2>1 DEF Console!UartAssumption, ProgramInv
  <2>3. u_p - 1 \in 0..L /\ u_p \in 0..L
    BY <2>2
  <2> QED BY <2>1, <2>2, <2>3, Zenon
<1>2. text[u_p] \in Word /\ CR \in Word /\ NL \in Word
  BY <1>1, PieceIsText
<1>3. a \in Seq(Word) /\ u[u_p] = a \o Piece(text, u_p)
  <2>1. Pieces(text, L, u)
    BY <1>1, PiecesExist
  <2> HIDE DEF u, L
  <2> QED BY <1>1, <2>1 DEF Pieces
<1>4. UpTo(text)' = u
  BY <1>1
<1>5. Sent' = IF crDone' THEN Append(u[u_p' - 1], CR) ELSE u[u_p' - 1]
  BY <1>4, Zenon DEF Sent
<1>6. Sent = IF crDone THEN Append(a, CR) ELSE a
  BY Zenon DEF Sent
<1> HIDE DEF u
<1>7. CASE text[u_p] = NL /\ ~crDone
  BY <1>1, <1>2, <1>5, <1>6, <1>7 DEF Console!NextChar
<1>8. CASE text[u_p] = NL /\ crDone
  <2>1. Sent' = a \o <<CR, NL>>
    <3>1. ~crDone' /\ u_p' - 1 = u_p
      BY <1>1, <1>8
    <3> QED BY <1>3, <1>5, <1>8, <3>1 DEF Piece
  <2>2. Sent = Append(a, CR) /\ Console!NextChar = NL
    BY <1>6, <1>8 DEF Console!NextChar
  <2>3. a \o <<CR, NL>> = Append(Append(a, CR), NL)
    <3> HIDE DEF a
    <3> QED BY <1>2, <1>3
  <2> QED BY <1>2, <2>1, <2>2, <2>3
<1>9. CASE text[u_p] # NL
  <2>1. Sent' = a \o <<text[u_p]>>
    <3>1. ~crDone' /\ u_p' - 1 = u_p
      BY <1>1, <1>9
    <3> QED BY <1>3, <1>5, <1>9, <3>1 DEF Piece
  <2>2. Sent = a /\ Console!NextChar = text[u_p]
    BY <1>1, <1>6, <1>9 DEF Console!NextChar
  <2>3. a \o <<text[u_p]>> = Append(a, text[u_p])
    <3> HIDE DEF a
    <3> QED BY <1>2, <1>3, AppendIsConcat
  <2> QED BY <1>2, <2>1, <2>2, <2>3
<1> QED BY <1>1, <1>7, <1>8, <1>9

-----------------------------------------------------------------------------
(* The queue.                                                              *)

\* The pointers are `level' words apart.
QueueInv ==
    /\ storage \in [Console!Place -> Word] /\ produce \in Console!Place /\ consume \in Console!Place
    /\ level \in 0..Depth /\ dout \in Word /\ readable \in BOOLEAN
    /\ produce = (consume + level) % Depth

\* Where the memory's part of what has been sent begins.
InMemory == Len(received) + (IF readable THEN 1 ELSE 0)

\* What has arrived, what is in the output register and what is in the memory.
StreamInv ==
    /\ received \in Seq(Word) /\ Sent \in Seq(Word)
    /\ Len(Sent) = InMemory + level
    /\ \A n \in 1..Len(received) : received[n] = Sent[n]
    /\ readable => dout = Sent[Len(received) + 1]
    /\ \A q \in 0..(level - 1) : storage[(consume + q) % Depth] = Sent[InMemory + q + 1]

\* The pointers wrap.
LEMMA Wraps ==
    ASSUME NEW d \in Nat \ {0}, NEW x \in 0..(d - 1), NEW y \in 0..d
    PROVE  /\ (x + y) % d = (IF x + y < d THEN x + y ELSE x + y - d)
           /\ (x + y) % d \in 0..(d - 1)
<1>1. CASE x + y < d
  <2>1. x + y \in 0..(d - 1)
    BY <1>1
  <2> QED BY <1>1, <2>1
<1>2. CASE x + y >= d
  <2>1. PICK z \in 0..(d - 1) : z = x + y - d
    BY <1>2
  <2>2. (d + z) % d = z /\ d + z = x + y
    BY <2>1
  <2> QED BY <1>2, <2>1, <2>2
<1> QED BY <1>1, <1>2

\* A clock of the queue: the character stored goes behind the others, the one that is
\* read moves to the output register, and the one that is taken has arrived.
LEMMA QueueStep ==
    ASSUME Console!UartAssumption, QueueInv, StreamInv, NEW tick \in BOOLEAN, NEW written,
           Console!Queue(written, tick), Sent' \in Seq(Word),
           \/ written = {} /\ Sent' = Sent
           \/ /\ level < Depth
              /\ \E x \in Word : written = {x} /\ Sent' = Append(Sent, x),
           Console!Taken(tick) => readable,
           received' = IF Console!Taken(tick) THEN Append(received, dout) ELSE received
    PROVE  /\ QueueInv' /\ StreamInv'
           /\ written = {} => level' <= level
           /\ readable /\ ~Console!Taken(tick) => readable' /\ dout' = dout
<1> DEFINE write == written # {} /\ level # Depth
           read  == Console!Read(tick)
           taken == Console!Taken(tick)
           w     == IF write THEN 1 ELSE 0
           g     == IF read THEN 1 ELSE 0
           At(q) == (consume + q) % Depth
           r     == Len(received)
           b     == InMemory
<1>1. /\ Depth \in Nat \ {0} /\ produce \in 0..(Depth - 1) /\ consume \in 0..(Depth - 1)
      /\ level \in 0..Depth /\ produce = At(level) /\ readable \in BOOLEAN
      /\ storage \in [0..(Depth - 1) -> Word] /\ dout \in Word
  BY DEF Console!UartAssumption, QueueInv, Console!Place
<1>2. PICK x : /\ write => x \in Word /\ written = {x} /\ Sent' = Append(Sent, x) /\ level < Depth
               /\ ~write => Sent' = Sent /\ written = {}
  <2>1. CASE written = {} /\ Sent' = Sent
    BY <2>1
  <2>2. CASE level < Depth /\ \E y \in Word : written = {y} /\ Sent' = Append(Sent, y)
    <3>1. PICK y \in Word : written = {y} /\ Sent' = Append(Sent, y)
      BY <2>2
    <3>2. level # Depth /\ written # {}
      BY <1>1, <2>2, <3>1
    <3> QED BY <2>2, <3>1, <3>2
  <2> QED BY <2>1, <2>2
<1>3. /\ storage' = (IF write THEN [storage EXCEPT ![produce] = x] ELSE storage)
      /\ produce' = (IF write THEN (produce + 1) % Depth ELSE produce)
      /\ consume' = (IF read THEN (consume + 1) % Depth ELSE consume)
      /\ level' = level + w - g
      /\ dout' = (IF read THEN storage[consume] ELSE dout)
      /\ readable' = (read \/ (readable /\ ~taken))
  <2>1. write => x = CHOOSE c \in written : TRUE
    BY <1>2
  <2> HIDE DEF read, taken
  <2> QED BY <2>1, Zenon DEF Console!Queue, read, taken
<1>4. read => level # 0 /\ (~readable \/ taken)
  BY DEF Console!Read
<1>5. taken => readable
  OBVIOUS
<1>6. /\ r \in Nat /\ received \in Seq(Word) /\ Sent \in Seq(Word) /\ Len(Sent) = b + level
      /\ b = r + (IF readable THEN 1 ELSE 0) /\ b \in Nat
      /\ \A n \in 1..r : received[n] = Sent[n]
      /\ readable => dout = Sent[r + 1]
      /\ \A q \in 0..(level - 1) : storage[At(q)] = Sent[b + q + 1]
  BY DEF StreamInv, InMemory
<1>7. \A q \in 0..Depth : At(q) = (IF consume + q < Depth THEN consume + q ELSE consume + q - Depth)
                          /\ At(q) \in 0..(Depth - 1)
  <2>1. SUFFICES ASSUME NEW q \in 0..Depth
                 PROVE  /\ At(q) = (IF consume + q < Depth THEN consume + q ELSE consume + q - Depth)
                        /\ At(q) \in 0..(Depth - 1)
    BY Zenon
  <2>2. Depth \in Nat \ {0} /\ consume \in 0..(Depth - 1)
    BY <1>1
  <2> QED BY <2>2, Wraps
<1>8. received' \in Seq(Word) /\ Len(received') = r + (IF taken THEN 1 ELSE 0)
      /\ (\A n \in 1..r : received'[n] = received[n]) /\ (taken => received'[r + 1] = dout)
  <2>1. taken => received' = Append(received, dout)
    OBVIOUS
  <2>2. ~taken => received' = received
    OBVIOUS
  <2> HIDE DEF taken
  <2>3. CASE taken
    BY <1>1, <1>6, <2>1, <2>3, AppendProperties
  <2>4. CASE ~taken
    BY <1>6, <2>2, <2>4
  <2> QED BY <2>3, <2>4
<1>9. /\ Len(Sent') = Len(Sent) + w /\ (\A n \in 1..Len(Sent) : Sent'[n] = Sent[n])
      /\ (write => Sent'[Len(Sent) + 1] = x)
  <2> HIDE DEF write
  <2>1. CASE write
    <3>1. x \in Word /\ Sent' = Append(Sent, x)
      BY <1>2, <2>1
    <3> QED BY <1>6, <2>1, <3>1, AppendProperties
  <2>2. CASE ~write
    BY <1>2, <1>6, <2>2
  <2> QED BY <2>1, <2>2
<1> DEFINE b2 == r + (IF taken THEN 1 ELSE 0) + (IF readable' THEN 1 ELSE 0)
<1>10. InMemory' = b2
  BY <1>8, Zenon DEF InMemory
<1> HIDE DEF read, taken, write, b, r
<1>11. b2 = b + g /\ Len(Sent) \in Nat /\ readable' \in BOOLEAN /\ w \in 0..1 /\ g \in 0..1
  <2>1. w \in 0..1 /\ g \in 0..1
    OBVIOUS
  <2>2. readable' \in BOOLEAN
    BY <1>1, <1>3
  <2>3. CASE read
    <3>1. readable'
      BY <1>3, <2>3
    <3>2. (IF taken THEN 1 ELSE 0) = (IF readable THEN 1 ELSE 0)
      BY <1>1, <1>4, <1>5, <2>3
    <3> QED BY <1>6, <2>1, <2>2, <2>3, <3>1, <3>2
  <2>4. CASE ~read
    <3>1. (IF taken THEN 1 ELSE 0) + (IF readable' THEN 1 ELSE 0) = (IF readable THEN 1 ELSE 0)
      <4>1. readable' <=> readable /\ ~taken
        BY <1>3, <2>4
      <4>2. CASE taken
        <5>1. ~readable' /\ readable
          BY <1>5, <4>1, <4>2
        <5> QED BY <4>2, <5>1
      <4>3. CASE ~taken
        BY <4>1, <4>3
      <4> QED BY <4>2, <4>3
    <3> QED BY <1>1, <1>6, <2>1, <2>2, <2>4, <3>1
  <2> QED BY <2>3, <2>4
<1>12. /\ level' = level + w - g /\ level' \in 0..Depth /\ level + w <= Depth /\ g <= level
  <2>1. (write => level < Depth) /\ (read => level # 0)
    BY <1>2, <1>4
  <2> QED BY <1>1, <1>3, <2>1
<1>13. consume' = At(g)
  <2>1. read => g = 1 /\ consume' = (consume + 1) % Depth
    BY <1>3
  <2>2. ~read => g = 0 /\ consume' = consume
    BY <1>3
  <2>3. At(0) = consume
    BY <1>1, <1>7
  <2> QED BY <2>1, <2>2, <2>3
<1>14. \A q \in 0..Depth : q + g <= Depth => (consume' + q) % Depth = At(q + g)
  <2>1. SUFFICES ASSUME NEW q \in 0..Depth, q + g <= Depth
                 PROVE  (consume' + q) % Depth = At(q + g)
    BY Zenon
  <2>2. PICK c \in 0..(Depth - 1) : c = consume' /\ c = At(g)
    BY <1>1, <1>7, <1>11, <1>13
  <2> HIDE DEF At, g
  <2>3. c = IF consume + g < Depth THEN consume + g ELSE consume + g - Depth
    <3>1. g \in 0..Depth
      BY <1>1, <1>11
    <3> QED BY <1>7, <2>2, <3>1, Zenon
  <2>4. q + g \in 0..Depth
    BY <1>1, <1>11, <2>1
  <2>5. At(q + g) = IF consume + (q + g) < Depth THEN consume + (q + g) ELSE consume + (q + g) - Depth
    BY <1>7, <2>4
  <2>6. (c + q) % Depth = IF c + q < Depth THEN c + q ELSE c + q - Depth
    <3>1. Depth \in Nat \ {0}
      BY <1>1
    <3> QED BY <3>1, Wraps
  <2> QED BY <1>1, <1>11, <2>1, <2>2, <2>3, <2>5, <2>6
<1>15. produce' = (consume' + level') % Depth /\ produce' \in 0..(Depth - 1)
  <2>1. level' \in 0..Depth /\ level' + g = level + w /\ level + w <= Depth
    <3> HIDE DEF w, g
    <3> QED BY <1>1, <1>11, <1>12
  <2>2. (consume' + level') % Depth = At(level + w)
    <3>1. PICK q \in 0..Depth : q = level'
      BY <2>1
    <3> HIDE DEF At, w, g
    <3>2. q + g = level + w /\ q + g <= Depth
      BY <2>1, <3>1
    <3>3. (consume' + q) % Depth = At(q + g)
      BY <1>14, <3>2
    <3> QED BY <3>1, <3>2, <3>3
  <2>3. CASE ~write
    BY <1>1, <1>3, <2>2, <2>3
  <2>4. CASE write
    <3>1. w = 1 /\ produce' = (produce + 1) % Depth /\ level < Depth
      BY <1>2, <1>3, <2>4
    <3>2. (produce + 1) % Depth = (IF produce + 1 < Depth THEN produce + 1 ELSE produce + 1 - Depth)
          /\ (produce + 1) % Depth \in 0..(Depth - 1)
      <4>1. Depth \in Nat \ {0} /\ produce \in 0..(Depth - 1) /\ 1 \in 0..Depth
        <5> HIDE DEF At
        <5> QED BY <1>1
      <4> QED BY <4>1, Wraps
    <3>3. /\ level \in 0..Depth /\ level + 1 \in 0..Depth
          /\ At(level) = (IF consume + level < Depth THEN consume + level ELSE consume + level - Depth)
          /\ At(level + 1) = (IF consume + (level + 1) < Depth THEN consume + (level + 1)
                                                             ELSE consume + (level + 1) - Depth)
      <4>1. level \in 0..Depth /\ level + 1 \in 0..Depth
        BY <1>1, <3>1
      <4> HIDE DEF At
      <4> QED BY <1>7, <4>1, Zenon
    <3> HIDE DEF At, w, g
    <3> QED BY <1>1, <2>2, <3>1, <3>2, <3>3
  <2> QED BY <2>3, <2>4
<1>16. QueueInv'
  <2>1. storage' \in [0..(Depth - 1) -> Word]
    BY <1>1, <1>2, <1>3
  <2>2. dout' \in Word
    BY <1>1, <1>3
  <2>3. consume' \in 0..(Depth - 1)
    BY <1>1, <1>7, <1>11, <1>13
  <2>4. /\ Console!Place = 0..(Depth - 1) /\ Console!Place' = Console!Place /\ Word' = Word
        /\ readable' \in BOOLEAN /\ level' \in 0..Depth
    BY <1>11, <1>12 DEF Console!Place, Word, Console!Word
  <2> QED BY <1>15, <2>1, <2>2, <2>3, <2>4 DEF QueueInv
<1>17. \A n \in 1..Len(received') : received'[n] = Sent'[n]
  <2>1. SUFFICES ASSUME NEW n \in 1..Len(received') PROVE received'[n] = Sent'[n]
    BY Zenon
  <2>2. CASE n \in 1..r
    <3>1. n \in 1..Len(Sent)
      BY <1>1, <1>6, <1>11, <2>2
    <3>2. received'[n] = received[n] /\ received[n] = Sent[n] /\ Sent'[n] = Sent[n]
      BY <1>6, <1>8, <1>9, <2>2, <3>1
    <3> QED BY <3>2
  <2>3. CASE n \notin 1..r
    <3>1. taken /\ n = r + 1 /\ readable
      BY <1>5, <1>6, <1>8, <2>1, <2>3
    <3>2. n \in 1..Len(Sent)
      BY <1>1, <1>6, <1>11, <3>1
    <3>3. received'[n] = dout /\ dout = Sent[n] /\ Sent'[n] = Sent[n]
      BY <1>6, <1>8, <1>9, <3>1, <3>2
    <3> QED BY <3>3
  <2> QED BY <2>2, <2>3
<1>18. readable' => dout' = Sent'[Len(received') + 1]
  <2>1. CASE read
    <3>1. level >= 1 /\ 0 \in 0..(level - 1) /\ g = 1 /\ Len(received') = b /\ b + 1 \in 1..Len(Sent)
      <4>1. (IF taken THEN 1 ELSE 0) = (IF readable THEN 1 ELSE 0)
        BY <1>1, <1>4, <1>5, <2>1
      <4>2. level >= 1
        BY <1>1, <1>4, <2>1
      <4>3. Len(received') = b /\ g = 1
        BY <1>6, <1>8, <2>1, <4>1
      <4> QED BY <1>1, <1>6, <4>2, <4>3
    <3>2. At(0) = consume /\ storage[At(0)] = Sent[b + 0 + 1]
      <4>1. At(0) = consume
        BY <1>1, <1>7
      <4> HIDE DEF At
      <4> QED BY <1>6, <3>1, <4>1
    <3>3. dout' = storage[consume] /\ Sent'[b + 1] = Sent[b + 1] /\ b + 0 + 1 = b + 1
      BY <1>3, <1>6, <1>9, <2>1, <3>1
    <3> HIDE DEF At
    <3> QED BY <3>1, <3>2, <3>3
  <2>2. CASE ~read /\ readable'
    <3>1. readable /\ ~taken /\ dout' = dout
      BY <1>3, <2>2
    <3>2. Len(received') = r /\ r + 1 \in 1..Len(Sent)
      BY <1>1, <1>6, <1>8, <3>1
    <3>3. Sent'[r + 1] = Sent[r + 1] /\ dout = Sent[r + 1]
      BY <1>6, <1>9, <3>1, <3>2
    <3> QED BY <3>1, <3>2, <3>3
  <2> QED BY <2>1, <2>2
<1>19. \A q \in 0..(level' - 1) : storage'[(consume' + q) % Depth] = Sent'[b2 + q + 1]
  <2>1. SUFFICES ASSUME NEW q \in 0..(level' - 1)
                 PROVE  storage'[(consume' + q) % Depth] = Sent'[b2 + q + 1]
    BY Zenon
  <2>2. q \in 0..Depth /\ q + g <= Depth /\ q + g \in 0..Depth /\ q + g < level + w /\ q + g \in Nat
    <3> HIDE DEF w, g
    <3> QED BY <1>1, <1>11, <1>12, <2>1
  <2>3. (consume' + q) % Depth = At(q + g)
    BY <1>14, <2>2
  <2>4. PICK k \in 0..Depth : k = q + g
    BY <2>2
  <2>5. b2 + q + 1 = b + k + 1
    <3> HIDE DEF w, g, b2
    <3> QED BY <1>6, <1>11, <2>2, <2>4
  <2> HIDE DEF At, w, g, b2
  <2>6. CASE k < level
    <3>1. storage[At(k)] = Sent[b + k + 1] /\ b + k + 1 \in 1..Len(Sent)
      <4>1. k \in 0..(level - 1) /\ level \in Nat /\ k \in Nat
        BY <1>1, <2>6
      <4>2. storage[At(k)] = Sent[b + k + 1]
        BY <1>6, <4>1
      <4>3. b + k + 1 \in 1..(b + level)
        BY <1>6, <2>6, <4>1
      <4> QED BY <1>6, <4>2, <4>3
    <3>2. Sent'[b + k + 1] = Sent[b + k + 1]
      BY <1>9, <3>1
    <3>3. storage'[At(k)] = storage[At(k)]
      <4>1. At(k) \in 0..(Depth - 1)
        BY <1>7
      <4>2. CASE ~write
        BY <1>3, <4>2
      <4>3. CASE write
        <5>1. level < Depth
          BY <1>2, <4>3
        <5>2. /\ At(k) = (IF consume + k < Depth THEN consume + k ELSE consume + k - Depth)
              /\ At(level) = (IF consume + level < Depth THEN consume + level ELSE consume + level - Depth)
          BY <1>1, <1>7
        <5>3. At(k) # At(level)
          BY <1>1, <2>6, <5>1, <5>2
        <5> QED BY <1>1, <1>3, <4>1, <4>3, <5>3
      <4> QED BY <4>2, <4>3
    <3> QED BY <2>3, <2>4, <2>5, <3>1, <3>2, <3>3
  <2>7. CASE ~(k < level)
    <3>1. write /\ k = level
      <4>1. k < level + w /\ (~write => w = 0) /\ (write => w = 1)
        BY <2>2, <2>4 DEF w
      <4> QED BY <1>1, <2>4, <2>7, <4>1
    <3>2. storage' = [storage EXCEPT ![produce] = x] /\ At(k) = produce /\ Sent'[Len(Sent) + 1] = x
      BY <1>1, <1>3, <1>9, <3>1
    <3>3. storage'[At(k)] = x
      BY <1>1, <3>2
    <3>4. b + k + 1 = Len(Sent) + 1
      BY <1>6, <3>1
    <3> QED BY <2>3, <2>4, <2>5, <3>2, <3>3, <3>4
  <2> QED BY <2>6, <2>7
<1>20. StreamInv'
  <2>1. Len(Sent') = b2 + level'
    <3> HIDE DEF b2, w, g
    <3> QED BY <1>1, <1>6, <1>9, <1>11, <1>12
  <2>2. received' \in Seq(Word) /\ Sent' \in Seq(Word) /\ Word' = Word
    BY <1>8 DEF Word, Console!Word
  <2> HIDE DEF b2
  <2> QED BY <1>10, <1>17, <1>18, <1>19, <2>1, <2>2 DEF StreamInv
<1>21. written = {} => level' <= level
  <2>1. written = {} => w = 0
    BY DEF write
  <2> HIDE DEF w, g
  <2> QED BY <1>1, <1>11, <1>12, <2>1
<1>22. readable /\ ~taken => readable' /\ dout' = dout
  BY <1>3, <1>4
<1> QED BY <1>16, <1>20, <1>21, <1>22 DEF taken

-----------------------------------------------------------------------------
(* The line.                                                               *)

\* A character on the line: start bit, its bits, stop bit.
Frame(c, k) == IF k = 0 THEN 0 ELSE IF k <= CharBits THEN c[k] ELSE 1

\* The serializer is at bit `count' of the output register's character, has the rest in
\* data, and the receiver has heard the bits before it.
LineInv ==
    /\ busy \in BOOLEAN /\ u_count \in 0..15 /\ u_data \in Word /\ line \in {0, 1}
    /\ bits \in Seq({0, 1})
    /\ busy => /\ readable /\ u_count <= CharBits + 1 /\ Len(bits) = u_count
               /\ line = Frame(dout, u_count)
               /\ \A k \in 1..u_count : bits[k] = Frame(dout, k - 1)
               /\ \A k \in 1..CharBits : u_data[k] = Frame(dout, k + u_count)
    /\ ~busy => bits = <<>>

\* The serializer's and the receiver's part of a clock.
LineStep(tick) ==
    IF tick THEN Console!Shift ELSE Console!Start \/ Console!Wait \/ Console!Between

\* What the receiver makes of a whole character is that character.
LEMMA LineTakes ==
    ASSUME Console!UartAssumption, QueueInv, LineInv, NEW tick \in BOOLEAN, LineStep(tick)
    PROVE  /\ Console!Taken(tick) => readable
           /\ received' = IF Console!Taken(tick) THEN Append(received, dout) ELSE received
<1>1. CharBits \in 1..14 /\ dout \in [1..CharBits -> {0, 1}]
  BY DEF Console!UartAssumption, QueueInv, Word, Console!Word
<1>2. CASE ~tick
  BY <1>2 DEF LineStep, Console!Start, Console!Wait, Console!Between, Console!Taken, Console!lineVars
<1>3. CASE tick /\ ~Console!LastBit
  BY <1>3 DEF LineStep, Console!Shift, Console!Listen, Console!Taken
<1>4. CASE tick /\ Console!LastBit
  <2>1. busy /\ Console!Listen
    BY <1>4 DEF LineStep, Console!Shift
  <2>2. /\ readable /\ u_count = CharBits + 1 /\ Len(bits) = u_count /\ line = Frame(dout, u_count)
        /\ (\A k \in 1..u_count : bits[k] = Frame(dout, k - 1)) /\ bits \in Seq({0, 1})
    BY <1>4, <2>1 DEF LineInv, Console!LastBit
  <2>3. line = 1
    BY <1>1, <2>2 DEF Frame
  <2>4. bits # <<>>
    BY <1>1, <2>2
  <2>5. Head(bits) = 0
    <3>1. Head(bits) = bits[1] /\ bits[1] = Frame(dout, 0)
      BY <1>1, <2>2, <2>4
    <3> QED BY <3>1 DEF Frame
  <2>6. Tail(bits) = dout
    <3>1. /\ Tail(bits) \in Seq({0, 1}) /\ Len(Tail(bits)) = CharBits
          /\ \A k \in 1..CharBits : Tail(bits)[k] = bits[k + 1]
      <4>1. /\ Tail(bits) \in Seq({0, 1}) /\ Len(Tail(bits)) = Len(bits) - 1
            /\ \A k \in 1..Len(Tail(bits)) : Tail(bits)[k] = bits[k + 1]
        BY <2>2, <2>4, HeadTailProperties
      <4>2. Len(bits) - 1 = CharBits
        BY <1>1, <2>2
      <4> QED BY <4>1, <4>2
    <3>2. ASSUME NEW k \in 1..CharBits PROVE Tail(bits)[k] = dout[k]
      <4>1. k + 1 \in 1..u_count /\ k + 1 - 1 = k /\ k # 0 /\ k <= CharBits
        BY <1>1, <2>2
      <4>2. bits[k + 1] = Frame(dout, k)
        BY <2>2, <4>1
      <4> QED BY <3>1, <4>1, <4>2 DEF Frame
    <3>3. Tail(bits) \in [1..CharBits -> {0, 1}]
      BY <3>1, LenProperties
    <3> QED BY <1>1, <3>2, <3>3
  <2>7. received' = Append(received, dout)
    BY <1>4, <2>1, <2>3, <2>5, <2>6, Zenon DEF Console!Listen
  <2> QED BY <1>4, <2>1, <2>2, <2>7 DEF Console!Taken
<1> QED BY <1>2, <1>3, <1>4

\* A clock of the serializer keeps its place in the character.
LEMMA LineStepInv ==
    ASSUME Console!UartAssumption, QueueInv, LineInv, NEW tick \in BOOLEAN, LineStep(tick),
           readable /\ ~Console!Taken(tick) => readable' /\ dout' = dout
    PROVE  LineInv'
<1>1. CharBits \in 1..14 /\ dout \in [1..CharBits -> {0, 1}] /\ Word = [1..CharBits -> {0, 1}]
      /\ Word' = Word
  BY DEF Console!UartAssumption, QueueInv, Word, Console!Word
<1>2. /\ busy \in BOOLEAN /\ u_count \in 0..15 /\ u_data \in [1..CharBits -> {0, 1}]
      /\ line \in {0, 1} /\ bits \in Seq({0, 1}) /\ (~busy => bits = <<>>)
  BY <1>1 DEF LineInv
<1>3. busy => /\ readable /\ u_count <= CharBits + 1 /\ Len(bits) = u_count
              /\ line = Frame(dout, u_count)
              /\ \A k \in 1..u_count : bits[k] = Frame(dout, k - 1)
              /\ \A k \in 1..CharBits : u_data[k] = Frame(dout, k + u_count)
  BY DEF LineInv
<1>4. CASE ~tick /\ Console!Start
  <2>1. /\ ~busy /\ readable /\ busy' = TRUE /\ u_count' = 0 /\ u_data' = dout /\ line' = 0
        /\ bits' = bits /\ bits = <<>>
    BY <1>2, <1>4 DEF Console!Start
  <2>2. readable' /\ dout' = dout
    BY <1>4, <2>1 DEF Console!Taken
  <2>3. \A k \in 1..CharBits : u_data'[k] = Frame(dout', k + u_count')
    BY <1>1, <2>1, <2>2 DEF Frame
  <2>4. line' = Frame(dout', u_count')
    BY <2>1 DEF Frame
  <2>5. Len(bits') = 0 /\ bits' \in Seq({0, 1}) /\ 0 <= CharBits + 1
    BY <1>1, <1>2, <2>1
  <2>6. u_data' \in Word' /\ \A k \in 1..u_count' : FALSE
    BY <1>1, <2>1
  <2> QED BY <2>1, <2>2, <2>3, <2>4, <2>5, <2>6 DEF LineInv
<1>5. CASE ~tick /\ Console!Wait
  <2>1. ~busy /\ UNCHANGED <<busy, u_data, received, bits>> /\ u_count' = 0 /\ line' = 1
    BY <1>5 DEF Console!Wait
  <2> QED BY <1>1, <1>2, <2>1 DEF LineInv
<1>6. CASE ~tick /\ Console!Between
  <2>1. busy /\ UNCHANGED <<busy, u_count, u_data, line, bits>>
    BY <1>6 DEF Console!Between, Console!lineVars
  <2>2. readable' /\ dout' = dout
    BY <1>3, <1>6, <2>1 DEF Console!Taken
  <2> QED BY <1>1, <1>2, <1>3, <2>1, <2>2 DEF LineInv
<1>7. CASE tick
  <2>1. /\ busy /\ u_count' = (u_count + 1) % 16 /\ line' = u_data[1]
        /\ u_data' = Console!ShiftRight(u_data) /\ (busy' <=> ~Console!LastBit)
        /\ busy' \in BOOLEAN /\ Console!Listen
    <3>1. /\ busy /\ u_count' = (u_count + 1) % 16 /\ line' = u_data[1]
          /\ u_data' = Console!ShiftRight(u_data) /\ busy' = ~Console!LastBit
          /\ Console!Listen
      BY <1>7, Zenon DEF LineStep, Console!Shift
    <3> QED BY <3>1
  <2>2. u_data' \in [1..CharBits -> {0, 1}]
    <3>1. \A k \in 1..CharBits : k < CharBits => k + 1 \in 1..CharBits
      BY <1>1
    <3> QED BY <1>1, <1>2, <2>1, <3>1 DEF Console!ShiftRight
  <2>3. u_count' \in 0..15 /\ line' \in {0, 1}
    BY <1>1, <1>2, <2>1
  <2>4. CASE Console!LastBit
    <3>1. ~busy' /\ bits' = <<>>
      BY <2>1, <2>4 DEF Console!Listen
    <3> QED BY <1>1, <2>1, <2>2, <2>3, <3>1 DEF LineInv
  <2>5. CASE ~Console!LastBit
    <3>1. busy' /\ bits' = Append(bits, line) /\ readable' /\ dout' = dout
      BY <1>3, <2>1, <2>5 DEF Console!Listen, Console!Taken
    <3>2. u_count' = u_count + 1 /\ u_count + 1 <= CharBits + 1
      <4>1. u_count # CharBits + 1
        BY <2>5 DEF Console!LastBit
      <4>2. u_count + 1 <= CharBits + 1
        BY <1>1, <1>2, <1>3, <2>1, <4>1
      <4> QED BY <1>1, <1>2, <2>1, <4>2
    <3>3. /\ bits' \in Seq({0, 1}) /\ Len(bits') = u_count + 1 /\ bits'[u_count + 1] = line
          /\ \A k \in 1..u_count : bits'[k] = bits[k]
      BY <1>2, <1>3, <2>1, <3>1, AppendProperties
    <3>4. line' = Frame(dout, u_count + 1)
      <4>1. 1 \in 1..CharBits /\ 1 + u_count = u_count + 1
        BY <1>1, <1>2
      <4>2. u_data[1] = Frame(dout, 1 + u_count)
        BY <1>3, <2>1, <4>1
      <4> QED BY <2>1, <4>1, <4>2
    <3>5. ASSUME NEW k \in 1..(u_count + 1) PROVE bits'[k] = Frame(dout, k - 1)
      <4>1. CASE k = u_count + 1
        <5>1. k - 1 = u_count
          BY <1>2, <4>1
        <5> QED BY <1>3, <2>1, <3>3, <4>1, <5>1
      <4>2. CASE k # u_count + 1
        <5>1. k \in 1..u_count
          BY <1>2, <4>2
        <5> QED BY <1>3, <2>1, <3>3, <5>1
      <4> QED BY <4>1, <4>2
    <3>6. ASSUME NEW k \in 1..CharBits PROVE u_data'[k] = Frame(dout, k + (u_count + 1))
      <4>1. u_data'[k] = IF k < CharBits THEN u_data[k + 1] ELSE 1
        BY <2>1 DEF Console!ShiftRight
      <4>2. CASE k < CharBits
        <5>1. k + 1 \in 1..CharBits /\ k + 1 + u_count = k + (u_count + 1)
          BY <1>1, <1>2, <4>2
        <5>2. u_data[k + 1] = Frame(dout, k + 1 + u_count)
          BY <1>3, <2>1, <5>1
        <5> QED BY <4>1, <4>2, <5>1, <5>2
      <4>3. CASE k = CharBits
        <5>1. k + (u_count + 1) # 0 /\ ~(k + (u_count + 1) <= CharBits) /\ ~(k < CharBits)
          BY <1>1, <1>2, <4>3
        <5> QED BY <4>1, <5>1 DEF Frame
      <4> QED BY <1>1, <4>2, <4>3
    <3>7. u_data' \in Word'
      BY <1>1, <2>2
    <3> QED BY <2>1, <2>3, <3>1, <3>2, <3>3, <3>4, <3>5, <3>6, <3>7 DEF LineInv
  <2> QED BY <2>4, <2>5
<1> QED BY <1>4, <1>5, <1>6, <1>7 DEF LineStep

-----------------------------------------------------------------------------
ConsoleInv == ProgramInv /\ QueueInv /\ StreamInv /\ LineInv

\* A clock in which the program stores a character, polls or does something else.
LEMMA ConsoleStepInv ==
    ASSUME Console!UartAssumption, ConsoleInv, NEW tick \in BOOLEAN, Console!Clock(tick)
    PROVE  ConsoleInv'
<1>1. ProgramInv /\ QueueInv /\ StreamInv /\ LineInv
  BY DEF ConsoleInv
<1>2. LineStep(tick)
  BY Zenon DEF Console!Clock, LineStep
<1>3. /\ Console!Taken(tick) => readable
      /\ received' = IF Console!Taken(tick) THEN Append(received, dout) ELSE received
  BY <1>1, <1>2, LineTakes
<1>4. Sent \in Seq(Word) /\ level \in 0..Depth /\ Depth \in Nat
  BY <1>1 DEF StreamInv, QueueInv, Console!UartAssumption
<1>5. CASE Console!Store /\ Console!Queue({Console!NextChar}, tick)
  <2>1. Sent' = Append(Sent, Console!NextChar) /\ Console!NextChar \in Word
    BY <1>1, <1>5, StoreSends
  <2>2. Sent' \in Seq(Word) /\ level < Depth
    <3>1. level < Depth
      BY <1>1, <1>5 DEF Console!Store, ProgramInv
    <3> QED BY <1>4, <2>1, <3>1, AppendProperties
  <2>3. /\ QueueInv' /\ StreamInv'
        /\ readable /\ ~Console!Taken(tick) => readable' /\ dout' = dout
    <3>1. /\ level < Depth
          /\ \E x \in Word : {Console!NextChar} = {x} /\ Sent' = Append(Sent, x)
      BY <2>1, <2>2
    <3> QED BY <1>1, <1>3, <1>5, <2>2, <3>1, QueueStep
  <2>4. ProgramInv'
    <3>1. /\ u_pc = "store" /\ u_pc' = "poll" /\ text' = text
          /\ crDone' = (text[u_p] = NL /\ ~crDone)
          /\ u_p' = IF text[u_p] = NL /\ ~crDone THEN u_p ELSE u_p + 1
      BY <1>5, Zenon DEF Console!Store
    <3>2. /\ text \in Texts /\ u_p \in 1..(Len(text) + 1) /\ crDone \in BOOLEAN
          /\ u_p <= Len(text) /\ Len(text) \in Nat
      <4>1. text \in Seq(Console!Char) /\ text \in Texts
        BY <1>1 DEF ProgramInv, Console!UartAssumption
      <4> QED BY <1>1, <3>1, <4>1 DEF ProgramInv
    <3>3. crDone' \in BOOLEAN
      BY <3>1
    <3>4. CASE text[u_p] = NL /\ ~crDone
      BY <3>1, <3>2, <3>3, <3>4 DEF ProgramInv
    <3>5. CASE ~(text[u_p] = NL /\ ~crDone)
      <4>1. u_p' = u_p + 1 /\ ~crDone' /\ u_p + 1 \in 1..(Len(text) + 1)
        <5>1. ~crDone'
          BY <3>1, <3>5, Zenon
        <5> QED BY <3>1, <3>2, <3>5, <5>1
      <4> QED BY <3>1, <3>2, <3>3, <4>1 DEF ProgramInv
    <3> QED BY <3>4, <3>5
  <2> QED BY <1>1, <1>2, <2>3, <2>4, LineStepInv DEF ConsoleInv
<1>6. CASE (Console!Poll \/ UNCHANGED Console!mainVars) /\ Console!Queue({}, tick)
  <2>1. UNCHANGED <<text, u_p, crDone>>
    BY <1>6 DEF Console!Poll, Console!mainVars
  <2>2. Sent' = Sent
    BY <2>1 DEF Sent
  <2>3. /\ QueueInv' /\ StreamInv' /\ level' <= level
        /\ readable /\ ~Console!Taken(tick) => readable' /\ dout' = dout
    BY <1>1, <1>3, <1>4, <1>6, <2>2, QueueStep
  <2>4. level' \in Nat /\ (level < Depth => level' < Depth)
    <3>1. level' \in Int
      BY <2>3 DEF QueueInv
    <3>2. level' \in Nat
      BY <1>4, <2>3 DEF QueueInv
    <3> QED BY <1>4, <2>3, <3>2
  <2>5. ProgramInv'
    <3>1. /\ text' \in Texts /\ u_p' \in 1..(Len(text') + 1) /\ crDone' \in BOOLEAN
          /\ (crDone' => u_p' <= Len(text') /\ text'[u_p'] = NL)
      BY <1>1, <2>1 DEF ProgramInv
    <3>2. CASE Console!Poll
      <4>1. u_p <= Len(text) /\ u_pc' \in {"poll", "store"} /\ (u_pc' = "store" => level # Depth)
        <5>1. ~Console!Printed /\ u_pc' = IF Console!TxFull THEN "poll" ELSE "store"
          BY <3>2, Zenon DEF Console!Poll
        <5>2. text \in Seq(Console!Char) /\ u_p \in 1..(Len(text) + 1)
          BY <1>1 DEF ProgramInv, Console!UartAssumption
        <5> QED BY <5>1, <5>2 DEF Console!Printed, Console!TxFull
      <4> QED BY <1>4, <2>1, <2>4, <3>1, <4>1 DEF ProgramInv
    <3>3. CASE UNCHANGED Console!mainVars
      <4>1. u_pc' = u_pc
        BY <3>3 DEF Console!mainVars
      <4> QED BY <1>1, <2>1, <2>4, <3>1, <4>1 DEF ProgramInv
    <3> QED BY <1>6, <3>2, <3>3
  <2> QED BY <1>1, <1>2, <2>3, <2>5, LineStepInv DEF ConsoleInv
<1> QED BY <1>5, <1>6, Zenon DEF Console!Clock

\* What has arrived is the beginning of the text, and the variables keep their ranges.
LEMMA ConsoleInvHolds ==
    ASSUME Console!UartAssumption, ConsoleInv
    PROVE  Console!TypeOK /\ Console!LineCarriesText
<1>1. ProgramInv /\ QueueInv /\ StreamInv /\ LineInv
  BY DEF ConsoleInv
<1>2. Console!TypeOK
  <2>1. /\ text \in Texts /\ u_p \in 1..(Len(text) + 1) /\ crDone \in BOOLEAN
        /\ u_pc \in {"poll", "store"}
    BY <1>1 DEF ProgramInv
  <2>2. /\ storage \in [Console!Place -> Console!Word] /\ produce \in Console!Place
        /\ consume \in Console!Place /\ level \in 0..Depth /\ dout \in Console!Word
        /\ readable \in BOOLEAN
    BY <1>1 DEF QueueInv, Word
  <2>3. busy \in BOOLEAN /\ u_count \in 0..15 /\ u_data \in Console!Word /\ line \in {0, 1}
    BY <1>1 DEF LineInv, Word
  <2>4. Len(bits) <= CharBits + 1
    <3>1. CharBits \in Nat
      BY DEF Console!UartAssumption
    <3>2. CASE busy
      BY <1>1, <3>2 DEF LineInv
    <3>3. CASE ~busy
      BY <1>1, <3>1, <3>3 DEF LineInv
    <3> QED BY <3>2, <3>3
  <2> QED BY <2>1, <2>2, <2>3, <2>4 DEF Console!TypeOK
<1>3. Console!LineCarriesText
  <2> DEFINE e == Console!Expanded
             n == Len(received)
  <2>1. /\ received \in Seq(Word) /\ Sent \in Seq(Word) /\ n \in Nat /\ n <= Len(Sent)
        /\ \A m \in 1..n : received[m] = Sent[m]
    <3>1. /\ received \in Seq(Word) /\ Sent \in Seq(Word) /\ Len(Sent) = InMemory + level
          /\ \A m \in 1..n : received[m] = Sent[m]
      BY <1>1 DEF StreamInv
    <3>2. InMemory >= n /\ level \in Nat /\ InMemory \in Nat
      BY <1>1, <3>1 DEF InMemory, QueueInv, Console!UartAssumption
    <3> QED BY <3>1, <3>2
  <2>2. e \in Seq(Word) /\ Len(Sent) <= Len(e) /\ \A m \in 1..Len(Sent) : Sent[m] = e[m]
    BY <1>1, SentIsText
  <2> HIDE DEF e
  <2>3. n <= Len(e) /\ Len(e) \in Nat /\ \A m \in 1..n : received[m] = e[m]
    <3>1. Len(Sent) \in Nat /\ Len(e) \in Nat
      BY <2>1, <2>2, LenProperties
    <3> HIDE DEF n
    <3> QED BY <2>1, <2>2, <3>1
  <2>4. SubSeq(received, 1, n) = SubSeq(e, 1, n)
    <3> DEFINE a == SubSeq(received, 1, n)
               b == SubSeq(e, 1, n)
    <3>1. a \in Seq(Word) /\ Len(a) = n /\ \A m \in 1..n : a[m] = received[m]
      BY <2>1
    <3>2. b \in Seq(Word) /\ Len(b) = n /\ \A m \in 1..n : b[m] = e[m]
      BY <2>1, <2>2, <2>3
    <3> HIDE DEF a, b
    <3>3. Len(a) = Len(b) /\ \A m \in 1..Len(a) : a[m] = b[m]
      BY <2>3, <3>1, <3>2
    <3>4. a = b
      BY <3>1, <3>2, <3>3, SeqEqual
    <3> QED BY <3>4 DEF a, b
  <2> QED BY <2>3, <2>4 DEF Console!LineCarriesText, Console!IsPrefix, e
<1> QED BY <1>2, <1>3

\* stub.c and the UART of mgmt_core.v: what the receiver has heard is the beginning of the
\* text, whatever the depth of the queue, the width of a character and the text.
THEOREM LineCorrect == Spec => []LineCarriesText
<1>1. Console!UartAssumption
  BY PartsAssumption
<1>2. ASSUME Init PROVE ConsoleInv
  <2>1. /\ text \in Texts /\ u_p = 1 /\ crDone = FALSE /\ u_pc = "poll"
        /\ storage = [a \in Console!Place |-> Console!NUL] /\ produce = 0 /\ consume = 0 /\ level = 0
        /\ dout = Console!NUL /\ readable = FALSE
        /\ busy = FALSE /\ u_count = 0 /\ u_data = Console!NUL /\ line = 1
        /\ received = <<>> /\ bits = <<>>
    <3>1. Console!Init
      BY <1>2, Zenon DEF Init
    <3> QED BY <3>1 DEF Console!Init
  <2>2. text \in Seq(Console!Char) /\ Depth \in Nat \ {0} /\ Console!NUL \in Word
    BY <1>1, <2>1 DEF Console!UartAssumption, Console!NUL, Word, Console!Word
  <2>3. ProgramInv
    <3>1. u_p \in 1..(Len(text) + 1) /\ u_pc \in {"poll", "store"} /\ u_pc # "store"
      BY <2>1, <2>2
    <3>2. ~crDone /\ crDone \in BOOLEAN
      BY <2>1, Zenon
    <3> QED BY <2>1, <3>1, <3>2, Zenon DEF ProgramInv
  <2>4. QueueInv
    BY <2>1, <2>2 DEF QueueInv, Console!Place
  <2>5. Sent = <<>>
    <3>1. Pieces(text, Len(text), UpTo(text))
      BY <1>1, <2>2, PiecesExist
    <3>2. UpTo(text)[0] = <<>>
      BY <3>1, Zenon DEF Pieces
    <3>3. u_p - 1 = 0
      BY <2>1
    <3> QED BY <2>1, <3>2, <3>3 DEF Sent
  <2>6. StreamInv
    BY <2>1, <2>5 DEF StreamInv, InMemory
  <2>7. LineInv
    <3>1. u_count \in 0..15 /\ line \in {0, 1} /\ bits \in Seq({0, 1}) /\ u_data \in Word
      BY <2>1, <2>2
    <3>2. ~busy /\ busy \in BOOLEAN
      BY <2>1, Zenon
    <3> QED BY <2>1, <3>1, <3>2, Zenon DEF LineInv
  <2> QED BY <2>3, <2>4, <2>6, <2>7 DEF ConsoleInv
<1>3. ASSUME ConsoleInv, [Next]_vars PROVE ConsoleInv'
  <2>1. Console!Next \/ UNCHANGED console
    BY <1>3, Zenon DEF vars, Next, ArraysStep, CountersStep, ConsoleStep, StartUpStep, GoldenStep,
                       BusStep, Over
  <2>2. CASE Console!Next
    BY <1>1, <1>3, <2>2, ConsoleStepInv DEF Console!Next
  <2>3. CASE UNCHANGED console
    <3>1. UNCHANGED <<text, u_p, crDone, u_pc, storage, produce, consume, level, dout, readable,
                      busy, u_count, u_data, line, received, bits>>
      BY <2>3 DEF console
    <3>2. Sent' = Sent
      BY <3>1 DEF Sent
    <3>3. ProgramInv'
      BY <1>3, <3>1 DEF ConsoleInv, ProgramInv
    <3>4. QueueInv'
      BY <1>3, <3>1 DEF ConsoleInv, QueueInv, Console!Place, Word, Console!Word
    <3>5. StreamInv'
      BY <1>3, <3>1, <3>2 DEF ConsoleInv, StreamInv, InMemory, Word, Console!Word
    <3>6. LineInv'
      BY <1>3, <3>1 DEF ConsoleInv, LineInv, Frame, Word, Console!Word
    <3> QED BY <3>3, <3>4, <3>5, <3>6 DEF ConsoleInv
  <2> QED BY <2>1, <2>2, <2>3
<1>4. ConsoleInv => LineCarriesText
  BY <1>1, ConsoleInvHolds DEF LineCarriesText
<1> QED BY <1>2, <1>3, <1>4, PTL DEF Spec
=============================================================================
