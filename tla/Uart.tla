--------------------------------- MODULE Uart ---------------------------------
(***************************************************************************)
(* Printing over the UART: putchar and print of stub.c, the transmit queue *)
(* of mgmt_core.v (a memory of Depth words and an output register behind   *)
(* it) and the serializer that sends a start bit, the bits of a character, *)
(* least significant first, and a stop bit.                                *)
(*                                                                         *)
(* One step is one clock, in which the program may make one access; the    *)
(* baud-rate generator ticks in some of the clocks in which the serializer *)
(* is at work.                                                             *)
(*                                                                         *)
(* A word is the sequence of its bits, least significant first.  received  *)
(* is what a receiver makes of the line: it is the environment's.          *)
(***************************************************************************)
EXTENDS Integers, Sequences, SequencesExt

CONSTANTS
    Depth,     \* words of the queue's memory: 16
    CharBits,  \* bits of a character: 8
    NL, CR,    \* '\n' and '\r'
    Texts      \* the strings print may be called with

Word  == [1..CharBits -> {0, 1}]
NUL   == [k \in 1..CharBits |-> 0]    \* the end of a string
Char  == Word \ {NUL}
Place == 0..(Depth - 1)

UartAssumption ==
    /\ Depth \in Nat \ {0}
    /\ CharBits \in 1..14    \* count has 4 bits
    /\ NL \in Char /\ CR \in Char /\ NL # CR
    /\ Texts \subseteq Seq(Char)

VARIABLES
    text, p, crDone, pc,                     \* print(text) at p; putchar
    storage, produce, consume, level,        \* the memory of the queue
    dout, readable,                          \* its output register
    busy, count, data, line,                 \* the serializer
    received, bits                           \* the receiver

mainVars  == <<text, p, crDone, pc>>
queueVars == <<storage, produce, consume, level, dout, readable>>
lineVars  == <<busy, count, data, line, received, bits>>
vars      == <<mainVars, queueVars, lineVars>>

Init ==
    /\ text \in Texts /\ p = 1 /\ crDone = FALSE /\ pc = "poll"
    /\ storage = [a \in Place |-> NUL] /\ produce = 0 /\ consume = 0 /\ level = 0
    /\ dout = NUL /\ readable = FALSE
    /\ busy = FALSE /\ count = 0 /\ data = NUL /\ line = 1
    /\ received = <<>> /\ bits = <<>>

-----------------------------------------------------------------------------
(* stub.c                                                                  *)

Printed == p > Len(text)

\* putchar('\n') calls putchar('\r') first.
NextChar == IF text[p] = NL /\ ~crDone THEN CR ELSE text[p]

\* Faulty variant: full one character too late.
FullLate == level > Depth

\* reg_uart_txfull
TxFull == level = Depth

\* while (reg_uart_txfull == 1);
Poll ==
    /\ pc = "poll" /\ ~Printed
    /\ pc' = IF TxFull THEN "poll" ELSE "store"
    /\ UNCHANGED <<text, p, crDone>>

\* reg_uart_data = c;
Store ==
    /\ pc = "store"
    /\ pc' = "poll"
    /\ crDone' = (text[p] = NL /\ ~crDone)
    /\ p' = IF text[p] = NL /\ ~crDone THEN p ELSE p + 1
    /\ UNCHANGED text

-----------------------------------------------------------------------------
(* The queue.                                                              *)

LastBit == count = CharBits + 1

\* The serializer takes the character away when its stop bit is over.
Taken(tick) == busy /\ tick /\ LastBit

\* Faulty variant: the output register is refilled whether or not it is free.
ReadAlways(tick) == level # 0

\* uart_tx_fifo_syncfifo_re
Read(tick) == level # 0 /\ (~readable \/ Taken(tick))

\* A clock of the queue in which `written' holds the character stored, if any.  A
\* character that meets a full memory is dropped.
Queue(written, tick) ==
    LET write == written # {} /\ level # Depth
        read  == Read(tick)
    IN  /\ storage' = IF write THEN [storage EXCEPT ![produce] = CHOOSE c \in written : TRUE]
                               ELSE storage
        /\ produce' = IF write THEN (produce + 1) % Depth ELSE produce
        /\ consume' = IF read THEN (consume + 1) % Depth ELSE consume
        /\ level' = level + (IF write THEN 1 ELSE 0) - (IF read THEN 1 ELSE 0)
        /\ dout' = IF read THEN storage[consume] ELSE dout
        /\ readable' = (read \/ (readable /\ ~Taken(tick)))

-----------------------------------------------------------------------------
(* The serializer and the receiver at the other end of the line.           *)

\* {1, data[CharBits-1:1]}
ShiftRight(v) == [k \in 1..CharBits |-> IF k < CharBits THEN v[k + 1] ELSE 1]

Start ==
    /\ ~busy /\ readable
    /\ busy' = TRUE /\ count' = 0 /\ data' = dout /\ line' = 0
    /\ UNCHANGED <<received, bits>>

Wait ==
    /\ ~busy /\ ~readable
    /\ count' = 0 /\ line' = 1
    /\ UNCHANGED <<busy, data, received, bits>>

\* The receiver reads the line at the end of every bit: the start bit, the character's
\* and the stop bit.
Listen ==
    IF LastBit
    THEN /\ received' = Append(received, IF line = 1 /\ Head(bits) = 0 THEN Tail(bits) ELSE NUL)
         /\ bits' = <<>>
    ELSE /\ bits' = Append(bits, line) /\ UNCHANGED received

Shift ==
    /\ busy
    /\ count' = (count + 1) % 16
    /\ line' = data[1]
    /\ data' = ShiftRight(data)
    /\ busy' = ~LastBit
    /\ Listen

Between == busy /\ UNCHANGED lineVars

-----------------------------------------------------------------------------
\* One clock, in which the program stores, polls or does something else.
Clock(tick) ==
    /\ \/ Store /\ Queue({NextChar}, tick)
       \/ Poll /\ Queue({}, tick)
       \/ UNCHANGED mainVars /\ Queue({}, tick)
    /\ IF tick THEN Shift ELSE Start \/ Wait \/ Between

Next == Clock(TRUE) \/ Clock(FALSE)

\* The clock runs, the baud-rate generator ticks while the serializer is at work, and
\* the program goes on.
MainStep == Next /\ (Store \/ Poll)
Ticking  == Clock(TRUE)

Spec == Init /\ [][Next]_vars /\ WF_vars(Next) /\ WF_vars(Ticking) /\ WF_vars(MainStep)

-----------------------------------------------------------------------------
(* Properties.                                                             *)

\* The text as it should appear on the line: '\r' before every '\n'.
Expanded == FlattenSeq([i \in 1..Len(text) |-> IF text[i] = NL THEN <<CR, NL>> ELSE <<text[i]>>])

\* Every variable keeps its range.
TypeOK ==
    /\ text \in Texts /\ p \in 1..(Len(text) + 1) /\ crDone \in BOOLEAN
    /\ pc \in {"poll", "store"}
    /\ storage \in [Place -> Word] /\ produce \in Place /\ consume \in Place
    /\ level \in 0..Depth /\ dout \in Word /\ readable \in BOOLEAN
    /\ busy \in BOOLEAN /\ count \in 0..15 /\ data \in Word /\ line \in {0, 1}
    /\ Len(bits) <= CharBits + 1

\* What arrives is the text, in its order, nothing lost, doubled or torn, however fast
\* the program writes and however slow the line is.
LineCarriesText == IsPrefix(received, Expanded)

\* print returns and the whole text arrives.
AllPrinted == <>(Printed /\ received = Expanded)
=============================================================================
