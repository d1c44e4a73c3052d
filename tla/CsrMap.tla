-------------------------------- MODULE CsrMap --------------------------------
(***************************************************************************)
(* The control and status registers as the firmware sees them: csr.h, which *)
(* the SoC generator writes, and the names defs.h gives to its addresses.  *)
(*                                                                         *)
(* A word is the set of its one-bits.  csr.h gives every peripheral a block *)
(* of 0x800 bytes and its registers, in the order below, the words of the  *)
(* block one after the other; so a register needs no address of its own    *)
(* here.  A register that csr.h has no _write function for is read-only.   *)
(***************************************************************************)
EXTENDS Integers, Sequences

Field(name, offset, size) == [name |-> name, offset |-> offset, size |-> size]

Register(name, writable, words, fields) ==
    [name |-> name, writable |-> writable, words |-> words, fields |-> fields]
RW(name, fields)     == Register(name, TRUE, 1, fields)
RO(name, fields)     == Register(name, FALSE, 1, fields)
Wide(name, writable) == Register(name, writable, 4, {})

Peripheral(bank, registers) == [bank |-> bank, registers |-> registers]
-----------------------------------------------------------------------------
(* The peripherals.                                                        *)

ctrl == Peripheral(0, <<
    RW("reset", {Field("soc_rst", 0, 1), Field("cpu_rst", 1, 1)}),
    RW("scratch", {}), RO("bus_errors", {})>>)
debug_mode == Peripheral(1, <<RW("out", {})>>)
debug_oeb  == Peripheral(2, <<RW("out", {})>>)
flash_core == Peripheral(3, <<
    RW("mmap_dummy_bits", {}), RW("master_cs", {}),
    RW("master_phyconfig", {Field("len", 0, 8), Field("width", 8, 4), Field("mask", 16, 8)}),
    RW("master_rxtx", {}),
    RO("master_status", {Field("tx_ready", 0, 1), Field("rx_ready", 1, 1)})>>)
flash_phy == Peripheral(4, <<RW("clk_divisor", {})>>)
gpio == Peripheral(5, <<
    RW("mode1", {}), RW("mode0", {}), RW("ien", {}), RW("oe", {}), RO("in", {}), RW("out", {})>>)
la == Peripheral(6, <<Wide("ien", TRUE), Wide("oe", TRUE), Wide("in", FALSE), Wide("out", TRUE)>>)
mprj_wb_iena == Peripheral(7, <<RW("out", {})>>)
spi_enabled  == Peripheral(8, <<RW("out", {})>>)
spi_master == Peripheral(9, <<
    RW("control", {Field("start", 0, 1), Field("length", 8, 8)}), RO("status", {Field("done", 0, 1)}),
    RW("mosi", {}), RO("miso", {}), RW("cs", {Field("sel", 0, 1), Field("mode", 16, 1)}),
    RW("loopback", {Field("mode", 0, 1)}), RW("clk_divider", {})>>)

\* The three registers of an event manager.
Events(fields) == <<RO("ev_status", fields), RW("ev_pending", fields), RW("ev_enable", fields)>>

timer0 == Peripheral(10,
    <<RW("load", {}), RW("reload", {}), RW("en", {}), RW("update_value", {}), RO("value", {})>>
    \o Events({Field("zero", 0, 1)}))
uart == Peripheral(11,
    <<RW("rxtx", {}), RO("txfull", {}), RO("rxempty", {})>>
    \o Events({Field("tx", 0, 1), Field("rx", 1, 1)}) \o <<RO("txempty", {}), RO("rxfull", {})>>)
uart_enabled == Peripheral(12, <<RW("out", {})>>)

UserIrq(bank) == Peripheral(bank,
    <<RO("in", {}), RW("mode", {}), RW("edge", {})>> \o Events({Field("i0", 0, 1)}))
user_irq_0 == UserIrq(13)
user_irq_1 == UserIrq(14)
user_irq_2 == UserIrq(15)
user_irq_3 == UserIrq(16)
user_irq_4 == UserIrq(17)
user_irq_5 == UserIrq(18)
user_irq_ena == Peripheral(19, <<RW("out", {})>>)

Peripherals ==
    [ctrl |-> ctrl, debug_mode |-> debug_mode, debug_oeb |-> debug_oeb, flash_core |-> flash_core,
     flash_phy |-> flash_phy, gpio |-> gpio, la |-> la, mprj_wb_iena |-> mprj_wb_iena,
     spi_enabled |-> spi_enabled, spi_master |-> spi_master, timer0 |-> timer0, uart |-> uart,
     uart_enabled |-> uart_enabled, user_irq_0 |-> user_irq_0, user_irq_1 |-> user_irq_1,
     user_irq_2 |-> user_irq_2, user_irq_3 |-> user_irq_3, user_irq_4 |-> user_irq_4,
     user_irq_5 |-> user_irq_5, user_irq_ena |-> user_irq_ena]
-----------------------------------------------------------------------------
(* Addresses, relative to CSR_BASE.                                        *)

\* The words of the registers before the i-th.
WordsBefore(registers, i) ==
    LET upTo[k \in 0..(i - 1)] == IF k = 0 THEN 0 ELSE upTo[k - 1] + registers[k].words
    IN  upTo[i - 1]

\* The address of word k of register i of peripheral p.
Address(p, i, k) == 2048 * p.bank + 4 * (WordsBefore(p.registers, i) + k)

\* All words that csr.h gives an address: peripheral, register, word.
Words ==
    {w \in (DOMAIN Peripherals) \X (1..8) \X (0..3) :
        /\ w[2] \in DOMAIN Peripherals[w[1]].registers
        /\ w[3] < Peripherals[w[1]].registers[w[2]].words}
RegisterOf(w) == Peripherals[w[1]].registers[w[2]]
AddressOf(w)  == Address(Peripherals[w[1]], w[2], w[3])
-----------------------------------------------------------------------------
(* The functions csr.h defines for a field: _extract and _replace.         *)

Span(f)           == f.offset..(f.offset + f.size - 1)
Mask(f)           == 0..(f.size - 1)

\* Faulty variant of Extract: the mask is forgotten.
ExtractUnmasked(old, f) == {b - f.offset : b \in {c \in old : c >= f.offset}}

Extract(old, f) == {b - f.offset : b \in old \cap Span(f)}

\* Faulty variant of Replace: the value is not masked.
ReplaceUnmasked(old, f, plain) == (old \ Span(f)) \cup {b + f.offset : b \in plain}

Replace(old, f, plain) == (old \ Span(f)) \cup {b + f.offset : b \in plain \cap Mask(f)}
-----------------------------------------------------------------------------
(* defs.h: its macros for the logic analyser, whose registers have no      *)
(* accessors, number the words from the last one down.                     *)

Named(p, name, k) ==
    CHOOSE w \in Words : w[1] = p /\ w[3] = k /\ RegisterOf(w).name = name

\* reg_la<n>_data is the word at CSR_LA_OUT_ADDR + 4 * (3 - n), and so on.
laAlias(register, n) == Named("la", register, 3 - n)
=============================================================================
