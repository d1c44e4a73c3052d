-------------------------------- MODULE CsrBus --------------------------------
(***************************************************************************)
(* The firmware's accesses to the control and status registers: the        *)
(* accessors of csr.h and the macros of defs.h on one side, the register   *)
(* banks of mgmt_core.v on the other.                                      *)
(*                                                                         *)
(* Both sides are generated, in different runs and from different tools, so *)
(* the banks are written down here a second time, from mgmt_core.v alone.  *)
(* A field is written by reading the word, changing it and writing it back: *)
(* between the two accesses the hardware sets status bits and raises events *)
(* and the interrupt handler, isr(), may run.                              *)
(*                                                                         *)
(* One call of main is followed at a time; the hardware is let loose on the *)
(* register it is about.  before, seen, raised and edge are history.       *)
(***************************************************************************)
EXTENDS CsrMap

CONSTANTS
    Values(_),  \* the words a caller may pass for a field, or for a register (NoField)
    Signals(_), \* the values a status register may take
    Fillings    \* what the registers may hold when the call begins

VARIABLES
    file,     \* the word each register holds
    clearing, \* the bits a write to a pending register clears at the next clock
    pc,       \* where main is in the call
    call,     \* the call: what it does, to which register and field, with which value
    old,      \* oldword, or what a read returns
    isrpc,    \* where the handler is
    before, seen, raised, edge

history == <<before, seen, raised, edge>>
vars    == <<file, clearing, pc, call, old, isrpc, history>>

Bits == 0..31

-----------------------------------------------------------------------------
(* The register banks: who the word belongs to, its lane in a wide         *)
(* register, its width and what writing does.                              *)

HwWord(name, lane, width, kind) == [name |-> name, lane |-> lane, width |-> width, kind |-> kind]
Sto(name, width) == HwWord(name, 0, width, "storage")
Sta(name, width) == HwWord(name, 0, width, "status")
Lanes(name, kind) == [i \in 1..4 |-> HwWord(name, 4 - i, 32, kind)]
Bank(of, words)   == [of |-> of, words |-> words]

EventBank(width) ==
    <<Sta("ev_status", width), HwWord("ev_pending", 0, width, "pending"), Sto("ev_enable", width)>>
GpioIn(of) == Bank(of, <<Sta("in", 1), Sto("mode", 1), Sto("edge", 1)>> \o EventBank(1))

Banks == [b \in 0..19 |->
    CASE b = 0 -> Bank("ctrl", <<Sto("reset", 2), Sto("scratch", 32), Sta("bus_errors", 32)>>)
      [] b = 1 -> Bank("debug_mode", <<Sto("out", 1)>>)
      [] b = 2 -> Bank("debug_oeb", <<Sto("out", 1)>>)
      [] b = 3 -> Bank("flash_core",
                       <<Sto("mmap_dummy_bits", 8), Sto("master_cs", 1), Sto("master_phyconfig", 24),
                         HwWord("master_rxtx", 0, 32, "port"), Sta("master_status", 2)>>)
      [] b = 4 -> Bank("flash_phy", <<Sto("clk_divisor", 8)>>)
      [] b = 5 -> Bank("gpio", <<Sto("mode1", 1), Sto("mode0", 1), Sto("ien", 1), Sto("oe", 1),
                                 Sta("in", 1), Sto("out", 1)>>)
      [] b = 6 -> Bank("la", Lanes("ien", "storage") \o Lanes("oe", "storage")
                             \o Lanes("in", "status") \o Lanes("out", "storage"))
      [] b = 7 -> Bank("mprj_wb_iena", <<Sto("out", 1)>>)
      [] b = 8 -> Bank("spi_enabled", <<Sto("out", 1)>>)
      [] b = 9 -> Bank("spi_master",
                       <<Sto("control", 16), Sta("status", 1), Sto("mosi", 8), Sta("miso", 8),
                         Sto("cs", 17), Sto("loopback", 1), Sto("clk_divider", 16)>>)
      [] b = 10 -> Bank("timer0", <<Sto("load", 32), Sto("reload", 32), Sto("en", 1),
                                    Sto("update_value", 1), Sta("value", 32)>> \o EventBank(1))
      [] b = 11 -> Bank("uart", <<HwWord("rxtx", 0, 8, "port"), Sta("txfull", 1), Sta("rxempty", 1)>>
                                \o EventBank(2) \o <<Sta("txempty", 1), Sta("rxfull", 1)>>)
      [] b = 12 -> Bank("uart_enabled", <<Sto("out", 1)>>)
      [] b = 13 -> GpioIn("user_irq_0")
      [] b = 14 -> GpioIn("user_irq_1")
      [] b = 15 -> GpioIn("user_irq_2")
      [] b = 16 -> GpioIn("user_irq_3")
      [] b = 17 -> GpioIn("user_irq_4")
      [] b = 18 -> GpioIn("user_irq_5")
      [] b = 19 -> Bank("user_irq_ena", <<Sto("out", 3)>>)]

\* A register of the hardware: its bank and its number there.
HwRegs == {k \in (0..19) \X (0..15) : k[2] < Len(Banks[k[1]].words)}
At(k)  == Banks[k[1]].words[k[2] + 1]
Width(k) == 0..(At(k).width - 1)
Pending(k) == At(k).kind = "pending"

\* The register that holds lane `lane' of peripheral p's register `name'.
HwNamed(p, name, lane) ==
    CHOOSE k \in HwRegs : Banks[k[1]].of = p /\ At(k).name = name /\ At(k).lane = lane

\* adr[13:9] selects the bank and adr[8:0] the word.
Decode(address) == <<(address \div 2048) % 32, (address \div 4) % 512>>

Stored(k, word) == word \cap Width(k)

\* A write access.  A pending register only remembers what to clear, and a status
\* register ignores the write.
Write(address, word) ==
    LET k == Decode(address)
    IN  /\ file' = IF At(k).kind = "storage" THEN [file EXCEPT ![k] = Stored(k, word)] ELSE file
        /\ clearing' = IF Pending(k) THEN word \cap Width(k) ELSE clearing

-----------------------------------------------------------------------------
(* The calls.                                                              *)

NoField == Field("-", 0, 32)

Readable == {w \in Words : RegisterOf(w).words = 1 /\ RegisterOf(w).name \notin {"rxtx", "master_rxtx"}}

Calls ==
    LET FieldsOf(w) == RegisterOf(w).fields
        Call(op, w, f, v) == [op |-> op, word |-> w, field |-> f, value |-> v,
                              target |-> HwNamed(w[1], RegisterOf(w).name, 0)]
        Writable == {w \in Readable : RegisterOf(w).writable}
    IN  {Call("read", w, NoField, {}) : w \in Readable}
        \cup (UNION {{Call("write", w, NoField, v) : v \in Values(NoField)} : w \in Writable})
        \cup (UNION {{Call("read", w, f, {}) : f \in FieldsOf(w)} : w \in Readable})
        \cup (UNION {UNION {{Call("field", w, f, v) : v \in Values(f)} : f \in FieldsOf(w)} :
                        w \in Writable})

\* What main of counter_la_fir.c does with the logic analyser: reg_la<n>_oenb and
\* reg_la<n>_iena, and reg_la1_data.
LaCalls ==
    {[op |-> "write", word |-> laAlias(r, n), field |-> NoField, value |-> v,
      target |-> HwNamed("la", r, n)] : r \in {"oe", "ien"}, n \in 0..3, v \in {{}, Bits}}
    \cup {[op |-> "write", word |-> laAlias("out", 1), field |-> NoField, value |-> {},
           target |-> HwNamed("la", "out", 1)]}

Begin ==
    /\ pc = "idle"
    /\ \E c \in Calls \cup LaCalls :
          /\ call' = c
          /\ pc' = IF c.op = "write" THEN "store" ELSE "load"
          /\ seen' = {file[c.target]}
    /\ before' = file
    /\ UNCHANGED <<file, clearing, old, isrpc, raised, edge>>

MainRuns == isrpc \in {"not yet", "returned"}

\* csr_read_simple; a _read function of a field extracts it, a _write function
\* goes on with the word it has read.
Load ==
    /\ MainRuns /\ pc = "load"
    /\ LET word == file[Decode(AddressOf(call.word))]
       IN  old' = IF call.op = "read" THEN Extract(word, call.field) ELSE word
    /\ pc' = IF call.op = "field" THEN "store" ELSE "done"
    /\ raised' = {}
    /\ UNCHANGED <<file, clearing, call, isrpc, before, seen, edge>>

\* csr_write_simple.
NewWord == IF call.op = "field" THEN Replace(old, call.field, call.value) ELSE call.value

Store ==
    /\ MainRuns /\ pc = "store"
    /\ Write(AddressOf(call.word), NewWord)
    /\ pc' = IF Pending(call.target) THEN "clear" ELSE "done"
    /\ UNCHANGED <<call, old, isrpc, history>>

\* Faulty variant: on the edge of the clear an event is cleared with the others.
ClearWins(pending, clear, events) == (pending \cup events) \ clear

Cleared(pending, clear, events) == (pending \ clear) \cup events

\* One clock after the write the event manager clears; an event of that edge wins.
Clear ==
    /\ pc = "clear"
    /\ \E events \in SUBSET Width(call.target) :
          /\ file' = [file EXCEPT ![call.target] = Cleared(@, clearing, events)]
          /\ edge' = events
    /\ clearing' = {}
    /\ pc' = "done"
    /\ UNCHANGED <<call, old, isrpc, before, seen, raised>>

-----------------------------------------------------------------------------
(* The hardware and the handler, during the call.                          *)

\* A status register follows its signal.
Follow ==
    /\ pc \in {"load", "store"} /\ At(call.target).kind = "status"
    /\ \E v \in Signals(call.target) : file' = [file EXCEPT ![call.target] = v]
    /\ seen' = seen \cup {file'[call.target]}
    /\ UNCHANGED <<clearing, pc, call, old, isrpc, before, raised, edge>>

\* An event: its trigger has risen.
Raise ==
    /\ pc \in {"load", "store"} /\ Pending(call.target)
    /\ \E b \in Width(call.target) :
          /\ file' = [file EXCEPT ![call.target] = @ \cup {b}]
          /\ raised' = raised \cup {b}
    /\ seen' = seen \cup {file'[call.target]}
    /\ UNCHANGED <<clearing, pc, call, old, isrpc, before, edge>>

\* isr(): reg_la1_data = 0xa and reg_la0_data = 0x20000.
Mark1 == {1, 3}
Mark0 == {17}

\* Faulty variant: the handler's macros number the words from the first one up.
IsrForward ==
    /\ pc \in {"load", "store", "clear"}
    /\ \/ /\ isrpc = "not yet"
          /\ isrpc' = "la0"
          /\ Write(AddressOf(Named("la", "out", 1)), Mark1)
       \/ /\ isrpc = "la0"
          /\ isrpc' = "returned"
          /\ Write(AddressOf(Named("la", "out", 0)), Mark0)
    /\ UNCHANGED <<pc, call, old, history>>

Isr ==
    /\ pc \in {"load", "store", "clear"}
    /\ \/ /\ isrpc = "not yet"
          /\ isrpc' = "la0"
          /\ Write(AddressOf(laAlias("out", 1)), Mark1)
       \/ /\ isrpc = "la0"
          /\ isrpc' = "returned"
          /\ Write(AddressOf(laAlias("out", 0)), Mark0)
    /\ UNCHANGED <<pc, call, old, history>>

-----------------------------------------------------------------------------
(* Assumptions.                                                            *)

\* The two words of the logic analyser that isr() writes.
Marked == {HwNamed("la", "out", 1), HwNamed("la", "out", 0)}

\* Words have any bits; signals and registers have no more than their width.
ASSUME CsrAssumption ==
    /\ Values(NoField) \subseteq SUBSET Nat
    /\ \A w \in Readable : \A f \in RegisterOf(w).fields : Values(f) \subseteq SUBSET Nat
    /\ \A k \in HwRegs : Signals(k) \subseteq SUBSET Width(k)
    /\ \A filling \in Fillings :
          filling \in [HwRegs -> SUBSET Bits] /\ \A k \in HwRegs : filling[k] \subseteq Width(k)

\* The two generated maps agree: a word of csr.h lies where the register of that
\* name is decoded, a writable one can be written, and the names of defs.h stand
\* for the lanes of the logic analyser.
ASSUME MapsAgree ==
    /\ \A w \in Readable :
          LET k == HwNamed(w[1], RegisterOf(w).name, 0)
          IN  /\ k \in HwRegs \ Marked /\ At(k).width \in 1..32
              /\ Decode(AddressOf(w)) = k
              /\ RegisterOf(w).writable => At(k).kind \in {"storage", "pending"}
              /\ \A f \in RegisterOf(w).fields : f.offset \in Nat /\ f.size \in Nat
    /\ \A register \in {"oe", "ien", "out"}, n \in 0..3 :
          LET k == HwNamed("la", register, n)
          IN  /\ k \in HwRegs /\ (k \in Marked <=> register = "out" /\ n \in {0, 1})
              /\ At(k) = HwWord(register, n, 32, "storage")
              /\ Decode(AddressOf(laAlias(register, n))) = k
-----------------------------------------------------------------------------
Init ==
    /\ file \in Fillings
    /\ clearing = {} /\ pc = "idle" /\ call = <<>> /\ old = {} /\ isrpc = "not yet"
    /\ before = file /\ seen = {} /\ raised = {} /\ edge = {}

Next == Begin \/ Load \/ Store \/ Clear \/ Follow \/ Raise \/ Isr

Spec == Init /\ [][Next]_vars
-----------------------------------------------------------------------------
(* Properties.                                                             *)

IsrMarks == [k \in Marked |-> IF At(k).lane = 1 THEN Mark1 ELSE Mark0]

\* An access of csr.h or defs.h reaches the register of that name, and lane, and
\* no other: besides it only the handler's two words change, as isr() says.
OnlyTheNamedRegister ==
    pc = "done" =>
        \A k \in HwRegs \ {call.target} :
            file[k] = IF k \in Marked /\ isrpc = "returned" THEN IsrMarks[k]
                      ELSE IF k \in Marked /\ isrpc = "la0" /\ At(k).lane = 1 THEN Mark1
                      ELSE before[k]

\* A write leaves the value in the register; writing a field changes the bits of
\* the field and no others, whatever the caller passes.
FieldsAreApart ==
    pc = "done" /\ call.op \in {"write", "field"} /\ At(call.target).kind = "storage"
    /\ call.target \notin Marked =>
        LET span == Span(call.field)
        IN  /\ file[call.target] \ span = before[call.target] \ span
            /\ file[call.target] \cap span =
                  {b + call.field.offset : b \in call.value} \cap span \cap Width(call.target)

\* What a read returns, the register or the field, is what the register held at
\* some moment of the call.
ReadsAreCurrent ==
    pc = "done" /\ call.op = "read" =>
        \E w \in seen :
            old = {b \in 0..(call.field.size - 1) : b + call.field.offset \in w}

\* Acknowledging one event of a manager loses no other event that comes after
\* the word was read, and none that comes with the clear itself.
LateEventsKept ==
    pc = "done" /\ call.op = "field" /\ Pending(call.target) =>
        (raised \ (Span(call.field) \cup old)) \cup edge \subseteq file[call.target]
=============================================================================
