# TLA+ development of the Caravel FIR accelerator

The repository extends the Caravel SoC with a hardware FIR filter: firmware
running on the management core writes coefficients and samples over Wishbone, a
bridge turns the writes into AXI-Lite and AXI-Stream transfers, and a FIR engine
with two small RAMs emits one sum per sample.  Around that path are the parts
every program of the chip leans on: start-up code, register accessors, timer
library, console, interrupt path, the bus, the housekeeping registers and the
serial loader of the pads.  This directory holds TLA+ models of both, the TLC
runs that check them and TLAPS proofs.
Paths below are relative to `src/lab-exmem_fir/` unless they start with `src/`.

Contents: [system](#the-system) - [modules](#modules) - [runs](#runs) -
[proofs](#proofs) - [divergences](#divergences-found) -
[not modelled](#what-is-not-modelled) - [plan](#plan).

## The system

| part | source | state | operations | interacts with |
|---|---|---|---|---|
| FIR engine | `rtl/user/fir.v` | five-state FSM (`ps`), two RAM ports, ring pointer `r_dataAddr_r`, counters `cnt_r`/`round_cnt_r`, multiplier and accumulator, stream output, `last_r` | load/read back coefficients, start, accept a sample, multiply, emit, finish, reset | ports driven by the bridge; the RAMs |
| coefficient / sample RAM | `rtl/user/lutram.v` | 11 words, output register | read-before-write port | engine |
| bridge | `rtl/user/wb2axi.v` | four-state FSM (`TAP`, `AP_START`, `DATA`, `DONE`), Wishbone response, AXI registers | acknowledge a write, forward a coefficient, start, stream a sample, poll the status | Wishbone, engine |
| user RAM | `rtl/user/user_proj_example.counter.v`, `rtl/user/bram.v` | wait-state counter, `ready`, 16 K words | delayed acknowledge of a read or write | Wishbone |
| wrapper | `rtl/user/user_project_wrapper.v` | none | wiring; acknowledge/data multiplexer by address | all of the above |
| firmware | `testbench/counter_la_fir/{fir.c,fir.h,counter_la_fir.c}` | program counter, arrays of the software filter | configure pads and logic analyser, `fir`, `fir_tap`, `fir_data` (4 rounds), report | Wishbone through VexRiscv and the bus fabric |
| start-up code | `firmware/crt0_vex.S`, `firmware/sections.lds` | loop pointers | copy code to the user RAM, initialise `.data` and `.bss` | memories |
| interrupt path | `firmware/{irq_vex.h,isr.c,crt0_vex.S}` | mask and enable bit, stack frame, `flag` | `irq_setie`, `irq_setmask`, trap entry, `isr`, `mret` | event managers, processor |
| register accessors | `firmware/csr.h`, `firmware/hw/common.h`, `firmware/defs.h` | none | read and write registers, fields, multi-word values and arrays | register banks of `mgmt_core.v` |
| timer and counter library | `firmware/simple_system_common.c` | `time_elapsed`, `time_increment` | `timer_read`, `timecmp_update`, `timer_enable`, handler, `pcount_reset` | a machine timer and the processor's counters |
| console | `firmware/stub.c`, the UART of `rtl/soc/mgmt_core.v` | transmit queue, serializer | `print`, `putchar` | the serial line |
| bus fabric | `rtl/soc/mgmt_core.v`, `firmware/mem.h` | grant, time-out counter, register banks | arbitrate, decode, time out, access a register | processor, all slaves |
| housekeeping back door | `rtl/soc/housekeeping.v`, `firmware/caravel.h` | four-state FSM with a byte lane, pad, transfer and output registers | take a bus access apart into bytes | bus, SPI front door, loader |
| GPIO loader and control blocks | `rtl/soc/{housekeeping,gpio_control_block,caravel}.v` | loader FSM, a shift register and a mode per pad | shift the modes out over two chains, load them | pads |
| golden data | `src/patternGenerate/PatternGenerater.c` | sample array | reference sums | testbench |
| processor | `rtl/soc/VexRiscv_MinDebugCache.v` | generated | traps and bus requests enter the models | bus |

What is hard about it:

* **No handshake anywhere on the sample path.** `fir.v` raises `ss_tready` only
  in `DONE` and samples `ss_tdata` twice, when it leaves `PEND` and again when it
  stores the sample in `DONE` (l.233); `wb2axi.v` never looks at `ss_tready`
  (l.159) and acknowledges every write to the processor (l.107).  The pace of the
  firmware's instructions is all that keeps samples from being lost.
* **Commands are data.** `0xF0000000` and `0xFF000000` on the data bus drive the
  bridge's FSM, whose state the firmware cannot read.
* **A deep pipeline around a ring.** RAM port register, RAM output register,
  multiplier register and accumulator are four stages; which product is valid on
  which edge is decided by one counter, while the ring's read and write pointers
  wrap independently.
* **State that survives**: the RAMs keep the words of the run before, and of the
  time before a reset; `last_r`, `round_cnt_r` and `r_dataAddr_r` separate runs.
* **Two slaves on one bus** with different latencies, and an acknowledgement
  selected by the address that is on the bus at the moment; in the fabric above
  them an acknowledgement is not compared with anything at all.
* **Wide things moved in narrow steps**: a 64-bit time and a 64-bit compare value
  through 32-bit accesses, counters cleared in halves, an output word stored in
  four bytes, a field changed by reading and writing its word, a pad's mode
  shifted bit by bit through the other pads - each with an interrupt handler, a
  running clock or an external master in between.
* **Two descriptions of one map**: the headers the programs are compiled with
  and the decoders of the hardware are separate files.
* **An interrupt nobody clears**: `isr` leaves the event pending, and only the
  mask keeps it from being taken again at once.

`PROJECT.json` lists these hazards at their lines with the properties that watch
them.  What makes each part correct: the engine emits one sum per sample, each
the convolution of the loaded coefficients with this run's samples, and marks
the last; the bridge delivers what the firmware wrote, in order, to the right
port, and is ready when the next round starts; the user RAM answers every
request with what was stored; `timer_read` returns a time of the call and no
interrupt comes before a time that was asked for; an accessor changes the field
it names and nothing else; `main` cannot tell that it was interrupted; every
access of the bus ends, by the answer that belongs to it; every pad takes its
own mode, and the pads never show a torn word; the line carries what was
printed; the report does not depend on what the memory held before.

## Modules

| module | models | variables / actions |
|---|---|---|
| `LutRam` | `lutram.v`, `bram.v` | operators `RamOut`, `RamStore`: one clock edge of a read-before-write RAM |
| `Fir` | `fir.v` and the two RAMs | the RTL's registers under their names; one action per branch of the FSM (`StartRun`, `ReadCoefficient`, `WriteCoefficient`, `StayIdle`, `AcceptSample`, `AwaitSample`, `Multiply`, `EndRound`, `EmitSum`, `AwaitStatusRead`, `ReportFinishing`, `ReportDone`), each a whole clock edge including both RAMs; `FirReset` |
| `FirStream` | the engine under the master it needs | `Master(in)`: the contract of the port driver; `Tick`, `Reset`; observers `xs` (samples accepted in this run), `ys` (sums emitted), `ended` |
| `FirInvariant` | - | the inductive invariant of `FirStream` |
| `FirSpec` | what the engine promises its user, without ports, clock, ring or pipeline | `running`, `coefs`, `samples`, `sums`, `ended`; `Load`, `Start`, `Accept`, `Deliver`, `Finish`, `Abandon` |
| `FirRefinement` | - | `FirStream` implements `FirSpec`: the refinement mapping (`coefs` is the coefficient RAM, a run lasts while `ps` is not `IDLE`) |
| `Wb2Axi` | `wb2axi.v` | one action per FSM state (two in `TAP`), `BridgeReset` |
| `UserBram` | `user_proj_example`, `bram.v` | `CountDelay`, `AckAccess`, `NoAccess`, `BramReset` |
| `Firmware` | the program as seen on Wishbone | `IssueWrite`, `WriteDone`, `FetchCode`, `Hold`, `Think` |
| `FirSoc` | the wrapper and everything in it | composes the four: each step is one clock edge of all parts, or a reset |
| `FirSocInvariant` | - | the inductive invariant of `FirSoc` |
| `SystemTimer` | the timer library of `simple_system_common.c` | one action per device access or half of a 64-bit variable, for `main` and for the handler (`ReadHigh(c)`, `ReadLow(c)`, `CheckHigh(c)`, `Increment(c)`, `WriteGuard(c)`, `WriteHigh(c)`, `WriteLow(c)`), the calls, `Interrupt`, `HandlerReturn`, the device's `Tick` |
| `PerfCounters` | `pcount_reset`, `pcount_enable` | one `Instruction` per `csrw`; the counters run |
| `CsrMap` | `csr.h` (all 20 peripherals with their fields), the aliases of `defs.h` | addresses, `Extract`, `Replace`, `laAlias` |
| `CsrBus` | an access of `csr.h` or `defs.h` against the register banks of `mgmt_core.v` | `Begin`, `Load`, `Store`, `Clear`, the hardware's `Follow` and `Raise`, the handler `Isr` |
| `CsrArray` | `hw/common.h` | `_csr_rd`, `_csr_wr` and their `_buf` forms, byte by byte |
| `GpioLoader` | the serial loader, the control blocks and their chains | `LoaderIdle`, `LoaderStart`, `LoaderByte`, `LoaderLoad`, each with the clock edges it sends (`ControlBlocks`) |
| `Housekeeping` | `GpioLoader` with the back door and the part of `main` that uses it | `DoorIdle`, `DoorSetup`, `DoorReadWrite`, `DoorDone` in one `Tick` with the loader; `ConfigurePad`, `Transfer`, `Poll`, `Test`, `Report`; the external SPI master's `FrontDoor` |
| `Uart` | `stub.c`, the transmit queue and serializer of `mgmt_core.v` | a `Clock` of queue and serializer, in which the program may `Poll` or `Store` |
| `StartUp` | `crt0_vex.S`, the software `fir()`, `main`'s report | `SramInit`, `DataInit`, `BssInit` (a word each), `Fir`, `FirReturns`, `Report`, `Reset` at any time |
| `GoldenData` | `hardwareFir` of the golden generator | `Turn` of the inner loop, `Line` |
| `Interrupts` | `irq_vex.h`, `trap_entry`, `isr`, event managers, the processor's trap logic | `Raise`, `LineClock`, `Trap`; `irq_setie`, `irq_setmask`, `EnableEvents`, `ClearEvents`, `Compute`; `Save`, `Call`, `MaskAll`, `Signal`, `Load`, `Unwind`, `Return` |
| `BusFabric` | the arbiter, decoder and time-out of `mgmt_core.v`; `mem.h` | one `FabricClock` of the masters, the arbiter, the counter and the slaves |
| `Parts` | - | six of the parts above that share no state - `CsrArray`, `PerfCounters`, `Uart`, `StartUp`, `GoldenData`, `BusFabric` - as one specification: the initial state chooses the part a behaviour is about, and the others rest |
| `CpuSide` | - | the processor's side of the bus, `CsrBus` and `Interrupts`, composed in the same way (the two share no state either: in `CsrBus` the handler is its two writes, in `Interrupts` the peripherals' registers are sets of events) |
| `MCParts`, `MCCpuSide` | - | constants for `Parts` and `CpuSide`; and of the states in which a part may rest, one |
| other `MC...` | - | constants for TLC |
| `FirProof`, `FirSocProof`, `SystemTimerProof`, `HousekeepingProof`, `InterruptsProof`, `CsrBusProof`, `PartsProof`, `ConsoleProof` | - | theorems and proofs |

The modules of the second half stand beside `FirSoc` and are not composed with
it: none of them shares a variable with the sample path while the filter runs.
`GpioLoader` is extended by `Housekeeping`, `CsrMap` by `CsrBus`.

Correspondence in `Fir`, `FirStream`, `Wb2Axi`, `UserBram` and `FirSoc`.  A step is
one positive clock edge.  Each `always @(*)` block of
the RTL computes `*_w` from registers and ports and each sequential block loads
`*_r`; the model primes the `*_r` registers and has no variable for the
combinational values.  `Clock(in)` takes the values of the input ports sampled by
the edge, so in `FirSoc` every part reads the others' registers as they were
before the edge, as the hardware does.

Abstractions, in the modules of the sample path:

* **Data is symbolic.**  A product is the pair of its factors and the accumulator
  the sequence of products added; the RTL multiplies and adds 32-bit words and
  keeps the low half.  Equal sequences are equal words; the converse is not
  needed, except in `MatchesGolden`, where zero factors are dropped.
* **Addresses and counters keep their width** (12 and 4 bits).  The ring size,
  the literal 10 on l.223, 255 and 339 of `fir.v`, is `TapNum - 1`.
* **The bus carries regions** (`FIR` for `0x3000_xxxx`, `MPRJRAM` for
  `0x380x_xxxx`) and offsets.  Word contents are distinct model numbers; four
  values matter to the code: `0`, `1` (ap_start), `2` and `4` (status).
* **Byte enables** are all-or-none: the firmware makes word accesses only.
* **The processor** is the sequence of writes the program makes, each issued
  after any number of idle cycles or up to `MaxFetches` instruction fetches, but
  not before a minimum distance (`Gap`).  After a write the bus is idle for a
  cycle and keeps its address, because VexRiscv's data bus drops its request on
  the acknowledgement (`VexRiscv_MinDebugCache.v:3953-3958`).

The engine's port contract `Master` has three clauses, each forced by a line of
`fir.v`: `HoldsSample` (l.233 and l.356 read `ss_tdata` in `DONE` and on the
first edge of `START`), `NoOverrun` (l.147: samples are taken in `PEND` only) and
`LastOnTime` (l.406: `ss_tlast` is remembered whenever it comes).  `FirStream`
assumes the contract; that the bridge and the firmware meet it is the invariant
`MasterObeyed` of `FirSoc`, checked and proved, and so what is proved of `FirStream`
carries over.

The minimum distances are the quantitative content of the composition.  With
`N` coefficients a sample may follow its predecessor after `N + 2` cycles and
`AP_START` may follow `FIR_DATA_DONE` after `N + 3`: the assumption `GapAssumption`.  Both are tight: with one
cycle less TLC finds a violation of `MasterObeyed`, or of `BridgeFollowsProgram`.
For the real `N = 11` the first is 13; the loop of `fir_data` executes nine
instructions with three loads and a second store per sample
(`testbench/counter_la_fir/counter_la_fir.out:749-757`), each load and store
taking several cycles on the bus, and the way from `FIR_DATA_DONE` to the next
`AP_START` leaves the user RAM for `main` in flash.

Abstractions in the other modules:

* **The timer is not part of the repository.**  `SystemTimer` takes it to count
  up, to carry from its low to its high word, and to request the interrupt while
  the time is at or past the compare value - what the library is written for.
  In the same way `PerfCounters` takes the counters from the processor's manual.
  `W`, the number of values of a word, is a parameter; `PerfCounters` asks
  that a counter cannot wrap a low word during `pcount_reset` (2^32 values
  against 62 instructions).
* **Words are sets of bits** in `CsrMap` and `CsrBus`, so that masks and shifts are
  what they are at full width.  `CsrBus` follows one call of `main` at a time and lets
  the hardware loose on the register the call is about.  What callers pass, what
  status signals show and what the registers hold at first are parameters: any words
  (`CsrAssumption`); `MCCpuSide` takes the words that tell the bits of a field from its
  neighbours', and registers that are all zeros or all ones.  The banks are written
  down a second time from `mgmt_core.v`; nothing of `csr.h` is used for them.
  `MapsAgree` says that both tables place every register alike.  It is about constants
  without parameters, so its evaluation by TLC is complete.
* **Bytes are known by where they come from** in `CsrArray` (an element of the
  buffer, a word of the register, or a zero shifted in), so one run covers
  every value.
* **`main` in `Housekeeping`** makes its stores in the order of the code - modes from
  the last pad down, then the request, the loop and the words - but the modes are
  any of `Modes`, and the marks in between, which go to the logic analyser, are
  left out.  A write to the output word by the SPI master itself is not modelled,
  only that it is selected and that it stalls the back door.
* **`Uart`**: the baud-rate generator ticks in any clock in which the serializer is at
  work; a character is the sequence of its bits, least significant first.
* **`StartUp`**: instructions have no encoding, a word of code is in place or is not;
  taps and inputs are numbers and the sums are taken without overflow, as the
  repository's values are (|sum| < 2^13).
* **`Interrupts`**: the trap is precise, and an instruction of `main` that is past
  the decoder when the interrupt arrives is still executed (`InFlight`).
* **`BusFabric`**: a master's accesses are of three kinds, told by the address: to a slave that
  answers in the next clock, to the back door, to nobody.  `Beats` accesses in a
  row are a line fill of the instruction cache.

Observers and reference operators (`xs`, `ys`, `ended`, `Delivered`, `Golden`,
`EngineRound`) are not hardware; nothing in the actions of `Fir`, `Wb2Axi`,
`UserBram` or `Firmware` reads them.  Definitions marked "faulty" next to a
definition are plausible bugs of that definition; each property has one that
breaks it (`mutants` in `PROJECT.json`).

## Runs

| run | question | bounds | result |
|---|---|---|---|
| `MCFirStream` | does any well-behaved master get correct sums, and see the filter of `FirSpec`? is the invariant of the proofs true? | 3 coefficients, runs of up to 4 samples of 2 values, any coefficient loading incl. one address too far, read-backs, polls, resets | 304 817 states up to symmetry, pass |
| `MCFirRefinement` | does the engine implement `FirSpec` with its fairness, answering every sample, and does every round end? | 2 coefficients, 4 samples of 2 values | 125 422 states, pass |
| `MCFirSoc` | do the parts fit together, and does the program end? | 4 coefficients, 7 samples, 3 rounds, 2 fetches between writes, one reset at any moment, 2 wait states | 24 644 states, pass |
| `MCFirSocRepo` | the repository's own test | 11 coefficients, 64 samples, 4 rounds, 10 wait states, the real coefficients | 75 773 states, pass |
| `MCFirSocGolden` | the same property with coefficients that are not 0 | 4 coefficients, 7 samples | violated |
| `MCSystemTimer` | are 64-bit times read and armed right in 32-bit accesses? | words of 3 values, 9 moments, 2 calls, handler at any moment | 2 522 281 states, pass |
| `MCSystemTimerElapsed` | is the elapsed count one it had? | words of 2 values, 22 moments | violated |
| `CsrArray` | is the least significant word of a wide register at its base address, as the comment of `hw/common.h:19` says? | elements of 1, 2, 4 and 8 bytes in arrays of 1 to 9 | violated |
| `MCCpuSide` | do accessors and register banks agree? does every interrupt leave `main` as it was, is none lost or repeated? | every register and field of `csr.h`, every alias `main` uses, handler and hardware between the accesses; 2 sources, 2 saved registers of 2 values, 1 instruction in flight | 55 507 states, pass |
| `MCHousekeeping` | do the pads get their modes and show whole words, and does the wait end? | 2 chains of 3 pads, modes of 3 bits, 3 stores, 1 output word, an SPI master that does what it likes | 141 438 states, pass |
| `MCHousekeepingPoll` | are the pads configured when the loop ends? | `main`'s output mode | violated |
| `MCParts` | one question of each part: do multi-word values come back? does a reset of running counters mean zero? does the line carry the text? are the reported sums right from any memory, with resets? are the golden lines sums of the filter? does every access of the bus end, by its own answer? | elements of 1, 2, 4 and 8 bytes in arrays of 1 to 9; 2 counters, words of 3 values; a queue of 2 words, texts of up to 4 characters of 2 bits; 3 taps, 2 words of code; the repository's 11 taps and 64 samples, 3 values beyond the arrays; 3 masters, 3 kinds of access, line fills of 2, 2 byte lanes, time-out after 7 | 43 550 states, pass |

Why the bounds are enough.  The engine treats a sample by its age only: fewer
than `TapNum`, exactly `TapNum`, more.  Runs of `TapNum + 1` or more samples fill
the ring, wrap both pointers, saturate `round_cnt_r` and overwrite slots; 7
samples with 4 coefficients wrap the ring in the composition, and 64 with 11
five times.  Two sample values tell any two slots apart (they are model values, and the
runs that check safety only take them as interchangeable: the engine never
compares a sample with anything); in `FirSoc` every word is
different.  A second round is what finds state left over from the first; a third
starts after a round that itself started from leftovers.  `MaxTapA = TapNum` lets
the master run over the end of the coefficient RAM, whose write is then lost.

For the other modules: words of 3 values let the time carry twice, with `W - 1`
neither 0 nor 1, and two calls of `main` are an update under way and one before it;
3-value words let either of two counters carry between its two halves.
`MCCpuSide` has all registers and fields, at full width; only the words passed are few.
Nine elements of each size are more than two words of the smallest and 18 of the
largest.  Three pads on a chain have a first, a middle and a last one, and the three
configured pads leave three with their defaults.  The texts printed are
longer than queue and output register together, and include `\n` first, last, alone and
twice.  Golden sums: the generator is deterministic but for the word beyond its
arrays.  Two sources tell "masked" from "another one"; two registers of two values
tell the slots of a frame and the order of saving from that of loading (the proofs of
`InterruptsProof` are for any number); two beats are a line fill that is not over after one
answer, and a time-out of 7 is one more than an access of the back door takes, as
`FabricAssumption` asks.

Properties of `FirStream`: `OutputsDelivered` (each sum is the convolution
`Delivered`), `OneOutputPerSample`, `LastMarksEnd`, `CoefficientsFrozen` (action
property), `Invariant` (types included), `ImplementsFilter` (refinement), `RoundsEnd`
and `ImplementsFairFilter` (liveness).  Of `FirSoc`: `MasterObeyed`, `WordsArrive` (types,
samples and coefficients), `RunComplete`, `BridgeFollowsProgram`, `FetchesReturnCode`,
`BridgeReleasedAfterRun` (action property), `AllRunsEnd` (liveness), `MatchesGolden`.
The types of `SystemTimer` are proved; each invariant of `Parts` contains those of its
part.  Of the others, by hazard:

* torn or stale wide values: `ReadsAreTimes`, `RetriesAreCarries` (the loop of
  `timer_read` goes round only for a carry), `CompareIsArmed`, `NoEarlyInterrupt` (action
  property), `ResetMeansZero`, `ArraysAreCopied`, `DataUpdatesTogether`;
* shared registers: `OnlyTheNamedRegister`, `FieldsAreApart`, `ReadsAreCurrent`,
  `LateEventsKept`;
* interrupts: `MainUndisturbed`, `HandledOnce`, `EventsReachHandler` and
  `MainResumes` (liveness);
* the serial chains: `PadsTakeTheirModes` (action property) and `PadsSettle` (liveness:
  the wait ends, and so does the shifting);
* queues and buses: `LineCarriesText`, `AllPrinted` (liveness), `AnswersBelong`,
  `AccessesEnd` (liveness);
* crash and restart: `ReportsAreGolden`, `AllReported` (liveness);
* the reference itself: `LinesAreSums`.

`ArraysAreCopied` takes a register of several words as the number its bank makes of them:
`mgmt_core.v:5399` and 7393-7406 decode the first word of `la_out` as its bits 127 to 96,
so the most significant word is at the base address.  `_csr_rd` and `_csr_wr` have the
same order.  The comment of `hw/common.h:19` has the reverse, which is the run
`CsrArray` (see the divergences below).

`AnswersBelong` has an exception that the code forces: when an SPI master has stalled
the back door past the time-out, the door goes on with an access that is over, and
its late acknowledgement ends whatever access is on the bus then.  `orphan` marks that
time and nothing else.  `CompareIsArmed` and `NoEarlyInterrupt` leave out an update
that the handler has interrupted between its stores (`mixed`), until the next: such an
update may leave `main`'s low word with the handler's high one, and no property here
watches over it.  `MapIsDecoded`, an assumption about constants that TLC
evaluates with `MCParts`, asks that a region of `mem.h` lies within what
its slave decodes: for the housekeeping registers the decoder takes 4 MB where
the header says 3.

Fairness.  `FairStreamSpec` and `FairSocSpec` assume weak fairness of a clock
step: the clock never stops.  `FairSocSpec` adds weak fairness of `SocIssue`, a
clock step in which the processor makes its next write: it executes a finite
program without waiting for anything but its acknowledgements, and
`MaxFetches` bounds the fetches between two writes.  Nothing is assumed fair
about resets; the bound `MaxResets` makes them finite.  `RoundsEnd` needs no
bound on resets, since a reset ends the round.

In the other modules, always weak: `Housekeeping` has a clock (`Tick`) and a
program that goes on (`Main`), and asks nothing of the SPI master, who may stall for
ever while he is selected - which, once `main` has made the pad an output, he is
not; `Uart` a clock, a baud rate that ticks while the serializer works, and a
program that goes on; `StartUp` a next instruction (resets are not fair, and
`AllReported` is about runs that are reset finitely often); `Interrupts` the sampling of the
lines, the trap and the handler's instructions, and nothing of the events or of
`main`; `BusFabric` its clock.  No module asks that the back door be let go:
`AccessesEnd` holds by the time-out.  `Parts` states the fairness of `Uart`, `StartUp`
and `BusFabric` once more, each for the behaviours of its part, and `CpuSide` that of
`Interrupts`, which asks nothing in a behaviour of the registers.

Deadlock is checked in every run of a circuit: it always has a next edge, and when the
program has finished the processor idles.  In `MCParts` it is checked too; there only
`Over` lets a behaviour rest, when the array has been copied or the generator has written
its file; and in `MCCpuSide`, where `Over` is the end of the one call of `CsrBus`.  It is
off where the model really stops: the bounded time of `SystemTimer`, and the one call of
`CsrArray` in the run of that name.

## Proofs

The theorems about the engine are in terms of `StreamSpec`, for **every** `TapNum` from 2 to 15 (the pointer
and the counters have 4 bits and 15 is the "no sample" mark), every set `Word`
that contains the four words the code compares with, every set of port values a
master may drive, and every bound on runs (`TapNumAssumption`,
`WordAssumption`, `InputsAssumption`, `BoundsAssumption`).

| theorem | statement |
|---|---|
| `FirProof!TypeCorrect` | `StreamSpec => []TypeOK` |
| `FirProof!InvariantCorrect` | `StreamSpec => []Invariant` |
| `FirProof!OutputsCorrect` | `StreamSpec => []OutputsDelivered` |
| `FirProof!OneOutputCorrect` | `StreamSpec => []OneOutputPerSample` |
| `FirProof!LastMarkCorrect` | `StreamSpec => []LastMarksEnd` |
| `FirProof!FreezeCorrect` | `StreamSpec => CoefficientsFrozen` |
| `FirProof!RefinementCorrect` | `StreamSpec => ImplementsFilter` |

Those of `FirSocProof` hold for every number of coefficients (2 to 15), samples, rounds,
words of code, wait states, fetches and resets, for every program none of whose words
is a command (`ProgramAssumption`) and every pace that keeps the two minimum distances
(`GapAssumption`); the RAMs' contents at power-on and after a reset are any words.

| theorem | statement |
|---|---|
| `FirSocProof!SocInvariantCorrect` | `SocSpec => []SocInvariant` |
| `FirSocProof!EngineInSystem` | every step of `SocSpec` is one of the engine under a master within its contract, or leaves the engine alone |
| `FirSocProof!MasterCorrect` | `SocSpec => []MasterObeyed` |
| `FirSocProof!WordsCorrect` | `SocSpec => []WordsArrive` |
| `FirSocProof!RunCorrect` | `SocSpec => []RunComplete` |
| `FirSocProof!BridgeCorrect` | `SocSpec => []BridgeFollowsProgram` |
| `FirSocProof!ReleaseCorrect` | `SocSpec => BridgeReleasedAfterRun` |
| `FirSocProof!FetchCorrect` | `SocSpec => []FetchesReturnCode` |
| `FirSocProof!GoldenCorrect` | `SocSpec => []MatchesGolden`, if the first and the last coefficient are 0 |

The others:

| theorem | statement |
|---|---|
| `SystemTimerProof!TimerTypeCorrect` | `Spec => []TypeOK`, for every word size, set of intervals and bound |
| `SystemTimerProof!TimerReadCorrect` | `Spec => []ReadsAreTimes`, likewise |
| `SystemTimerProof!TimerRetriesBounded` | `Spec => []RetriesAreCarries`, likewise |
| `SystemTimerProof!CompareCorrect` | `Spec => []CompareIsArmed`, likewise |
| `SystemTimerProof!InterruptsInTime` | `Spec => NoEarlyInterrupt`, likewise |
| `HousekeepingProof!WordsReachPadsWhole` | `OutputsOnly /\ Spec => []DataUpdatesTogether`, for every number of pads, width of a mode and set of bytes |
| `HousekeepingProof!PadsCorrect` | `Spec => PadsTakeTheirModes`, for every length of the chains, width of a mode and set of modes |
| `InterruptsProof!InterruptedMainUndisturbed` | `CpuSpec => []MainUndisturbed`, for every set of sources and number of saved registers |
| `InterruptsProof!CalledOnce` | `CpuSpec => []HandledOnce`, likewise |
| `CsrBusProof!NamedRegisterCorrect` | `Spec => []OnlyTheNamedRegister`, for all words passed, values of signals and contents of registers (`CsrAssumption`), over the two tables (`MapsAgree`) |
| `CsrBusProof!FieldsCorrect` | `Spec => []FieldsAreApart`, likewise |
| `CsrBusProof!ReadsCorrect` | `Spec => []ReadsAreCurrent`, likewise |
| `CsrBusProof!EventsCorrect` | `Spec => []LateEventsKept`, likewise |
| `PartsProof!AnswersCorrect` | `Spec => []AnswersBelong`, for every number of masters, addresses, length of a line fill, number of lanes and time-out longer than an access of the back door (`FabricAssumption`) |
| `PartsProof!ReportsCorrect` | `Spec => []ReportsAreGolden`, for every number of coefficients and words of code, and all values of arrays and memory (`StartUpAssumption`) |
| `PartsProof!LinesCorrect` | `Spec => []LinesAreSums`, for every number of coefficients and samples, and all values of coefficients and of what lies behind the arrays (`GoldenAssumption`) |
| `PartsProof!ResetCorrect` | `Spec => []ResetMeansZero`, for every number of counters, any earlier contents and any word that the calls do not let overflow (`CounterAssumption`) |
| `PartsProof!ArraysCorrect` | `Spec => []ArraysAreCopied`, for every length of an array and the four sizes of an element (`ArrayAssumption`) |
| `ConsoleProof!LineCorrect` | `Spec => []LineCarriesText`, for every depth of the queue, width of a character that `count` can count, and set of texts (`UartAssumption`) |

`Spec` of the last six is that of `Parts`, whose `PartsAssumption` gathers the
assumptions of the six parts; TLC evaluates it with `MCParts`.  `Init` of `Parts` lets
a part that rests be in any of its initial states; `MCInit` leaves one of them.

`Spec` of the rows of `CsrBusProof` is that of `CsrBus` alone.
`InterruptsProof!RegistersInSystem` proves `CpuSpec => Spec`, so that these results
hold of the registers beside the trap path as well, which is where `MCCpuSide` checks
them.

The engine.  `OutputsDelivered` is far from inductive: the sums already emitted
say nothing of the one being computed.  `FirInvariant` adds, for each FSM state,
what the registers hold in terms of `xs`:

* the ring: the sample `d` places before the newest is in slot
  `Back(r_dataAddr_r, d)`, counting a store that is still in the port's
  registers as done (`Settled`), because it is performed on the next edge;
* the pipeline, in a round with stored samples: with `c = cnt_r`, the port
  addresses the slot `c` places back, the RAM's output register holds sample
  `c` places before the newest, the multiplier register product `c - 1`, the
  accumulator the first `c - 1` products;
* the counters: `round_cnt_r` is the number of samples accepted, at most
  `TapNum - 1`, which is why a round reads only slots of this run;
* the boundary: `PEND`'s accumulator and counter are clear, `IDLE`'s ring is
  empty, so nothing of one run reaches the next.

Each action has a lemma that it preserves the invariant, split by the state it
leads to; `FreezeCorrect` follows because a run's states have `~tap_WE_r`.
`Master` is used where the second read of `ss_tdata` stores the sample
(`EmitSum`) and where the first product is formed (`AcceptSample`, `Multiply`).

`RefinementCorrect` has one lemma per group of actions that names the step of the
filter it makes: `StartRun` is `Start`, `AcceptSample` is `Accept`, `EmitSum` is
`Deliver` (the invariant says what the accumulator holds in `DONE`, and that is
`Sum` of the samples), `ReportDone` is `Finish`, an edge of `IDLE` is `Load` or nothing, every
other edge nothing, and a reset is `Abandon`.

The composition.  Nothing on the sample path waits for the engine, so what keeps the
parts in step is time, and `SocInvariant` says for each state of the bridge how far the
engine is, counted in the cycles since the program's last write (`since`).  A write is on
the bus for two cycles; the bridge acts in the first and acknowledges in the second.
`Phase` has five cases.  `Loading`: `Taken` words have reached the engine, one of them perhaps
still in its RAM port.  `Idling`: the run before is over, `AP_START` not yet seen.  `Launching`:
`ap_start` is on its way, no sample yet.  `Streaming`: as many samples are accepted as have been
written, and a round that has begun has used up `since - 3` or `since - 4` cycles - so
that after `TapNum + 2` the engine is in `PEND` again.  `Draining`: the last round, then the
answers 2 and 4 to the bridge's polls, all within `TapNum + 3` cycles, before which the next
`AP_START` cannot be on the bus.  The minimum distances enter nowhere else.  `Invariant`, of the engine,
is a conjunct: the edge of the system is an edge of the engine under a master
that obeys its contract (`EngineInSystem`), and so `FirProof` carries it over.

`GoldenCorrect`.  What the engine delivers differs from the golden sums in two products: the one
it skips in the first sum has coefficient 0, and the one it never reaches the last
(`RunSums`).  Both are 0 in a filter like the repository's, and then its test must pass, with
any samples and any other coefficients; `MCFirSocGolden` shows that it would not otherwise.

`TimerReadCorrect`.  The value returned is made of two accesses, so `ReadsAreTimes`
says nothing while a call is under way.  `ReadInv` carries along that the high word
read first lies between the high words of the call's start and of now, and that,
should the device still show it when the low word has been read, the pair lies
between the two times: the time only grows, so a high word seen twice was there all
the while.  It is kept per context, because the handler reads in the middle of `main`'s reading.

`TimerRetriesBounded` takes that invariant one step further: the retries made so far are at most
what the high word last read has grown since the call began.

`CompareCorrect`, `InterruptsInTime`.  An update stores the compare value in three pieces, and the
handler may make a whole update between two pieces of `main`'s.  `UpdateInv` says what
the compare value is then: at rest a time that was asked for; with the low word all ones
(the first store) not before one; between the second store and the third it has the new time's high word.
After an update that was interrupted (`mixed`) it need not be a time that was asked for, but it
is still not before one: `main`'s high word being stored, the interrupt has come only when the time
had reached it, and what the handler arms is later.  Without that part the invariant is
not inductive, because the next update starts from such a value.

`WordsReachPadsWhole`.  The pads show a torn word only if the bytes are not
collected, which is decided by `spi_is_active` byte by byte.  `CsbInv` follows the
one bit that matters - the input disable of the chip-select pad - from power-on, when it
is clear, through the store that sets it, to the first output word, for which
it is set; `MainInv` relates the statement, the stores left and the access on the bus,
and `WordInv` says which bytes wait at which lane.  `OutputsOnly` (every mode `main` stores
disables the input, and the chip-select pad is among those stored) is what `main` does.
It is needed: with a mode that leaves the inputs on, TLC finds a torn word.

`PadsCorrect`.  `taken`, the modes the registers held when they were sent, is a history
variable; the invariant says where each of their bits is.  When the modes of the pads `n` places from
the two ends are being sent and `k` bits of them have been, a register holds `k` bits
of the mode meant for the pad `n` places farther down its chain and the rest of the one meant
for the pad `n + 1` places farther (`Shifted`), and the staging registers what is
left (`Staged`).  At the load strobe `n` is 0.  It needs nothing of the program: whatever is
stored while the loader shifts, the modes that arrive are of one time for each pad.

`InterruptedMainUndisturbed`.  What `main` finds in its registers is decided a handler
earlier.  `Frame` says for every point of `trap_entry` where `main`'s values are:
registers not yet saved, slots already filled, registers already restored;
`Switch` says the same of the enable bit.  `CalledOnce` needs only that the mask is
empty from `isr`'s first statement to `main`'s next `irq_setmask`.

`AnswersCorrect`.  Nothing but an answer ends an access and the grant moves only when the
bus is free; so it is enough that no slave but its own answers an access.  The time-out counts from
its full value with every access (`CountInv`), and is longer than any slave takes that is not
stalled (`DoorInv`, `AckInv`); `orphan` excepts the stalled one.

`ReportsCorrect`.  One conjunct per loop says how much of the memory is in order: code below the
pointer, initial values below it, zeros below it; then the finished outputs, and in the one
under way the first `j` products.  A reset keeps none of the loops' conjuncts but
only the types, and that is enough, because `sram_loop` starts from nothing.

`LinesCorrect`.  In the middle of the shift the places above `j` hold the samples for this line
and those from `j` on the ones for the line before; `num` and the products still to come make the
whole sum.  In the turn behind the arrays the sample is 0, and the word behind the
coefficients, whatever it is, adds nothing.

`ResetCorrect`.  `pcount_reset` clears all low words before the first high word, and in between
the counters run.  `HalvesInv` bounds what each has counted since its low word was cleared by
the instructions since then, which are fewer than a word holds; so no carry has
reached a high word when it is cleared.  With the halves in the other order that bound is
lost, and TLC finds the old count's carry.

`ArraysCorrect`.  The code counts words and elements from the first, `SameNumber` counts bytes from
the last.  `Target` and `Source` name for each byte of one side the byte of the other that belongs
there, and the invariant says which are there already.  For elements smaller than a
word the one lemma that matters is `PackedIsTarget`: after `j` elements the lowest byte is that
of element `j - 1`, and nothing has been shifted in for those before the array.

The four theorems of `CsrBusProof` rest on one invariant, `CsrInvariant`.  None of the four
properties says anything before the call returns, so it says at each step what the rest of
the call relies on: no register but the target differs from what it held, but for what the
handler has written so far (`OthersKept`); the word read for a field is still the register's
(`TargetKept`) - true of a plain register that the handler leaves alone, and of no other; a
read finds a word the register has held (`HeldSeen`); the events that came after the word was
read are pending, and the clear will take the field and what was read (`EventsPending`).
Nothing about a particular register is needed but `MapsAgree` and, of the fields,
`ExtractIsField` and `ReplaceIsField`.

`LineCorrect`.  What putchar has stored (`Sent`) is what has arrived, then the character in the queue's
output register, if it holds one, then the memory's, from the place it is read at (`StreamInv`).
A clock moves the boundaries (`QueueStep`): a store, a read and the end of a stop bit may
fall together.  That the receiver hears the character in the output register follows from
`LineInv`: the register keeps it until the stop bit is over.  No store meets a full queue,
because the program has polled before and the queue only gets emptier until it stores.

Running sums, and the text piece by piece, are recursive functions.  That they satisfy their
equation needs an induction, and the induction theorems of the library cannot be
instantiated by the installed provers.  The proofs use its theorem about minimal elements
(`WFMin`) instead: a set of counterexamples would have a least one (`LeastNumber`, `Least`).

Only model-checked:

* liveness (outside the prover's reach): `ImplementsFairFilter`, `RoundsEnd`, `AllRunsEnd`, `PadsSettle`,
  `AllPrinted`, `AllReported`, `AccessesEnd`, `EventsReachHandler`, `MainResumes`;
* `MapsAgree`, the comparison of the two tables of registers, which TLC evaluates entry by entry.

## Divergences found

* **Last coefficient and first sample** (`MCFirSocGolden`).  `fir.v:383` adds
  nothing while no sample is stored, so the first sum of a run is 0, and
  `fir.v:339` stops the number of products at 10 of 11, so coefficient 10 is never
  used.  The golden generator sums all coefficients for every sample
  (`src/patternGenerate/PatternGenerater.c:32`).  The repository's coefficients
  are 0 at both ends, and its first sample is 0, so its test passes
  (`MCFirSocRepo`).
* **A count that never was** (`MCSystemTimerElapsed`).  `get_elapsed_time` loads the
  64-bit `time_elapsed` in two halves while the handler counts (l.190, l.196).
* **The wait for the transfer** (`MCHousekeepingPoll`).  The loop of
  `counter_la_fir.c:112` compares the whole control byte with 1, but bits 5 and 6
  read back the wires of the chains: while a 1 is shifted the loop ends and
  `main` goes on with the pads still in their old modes.  They do settle (`PadsSettle`).

* **The order of the words of a wide register** (`CsrArray`).  `_csr_wr` stores the most
  significant word at the base address (`firmware/hw/common.h:87`) and `_csr_rd` takes it
  from there, as the register banks have it; the comment of l.19-21 says that the least
  significant slice is there.  The code is right about this hardware, the comment is not:
  who follows it swaps the words of a register.

Observed on the way and not stated as properties of a run:

* `timecmp_update` does not lock out `simple_timer_handler`, which calls it too: an
  interrupt between `main`'s stores leaves the handler's high word with `main`'s low one
  (`firmware/simple_system_common.c:185`).  `CompareIsArmed` excepts such an update.
* While an SPI master holds the chip select low, a store of the program to the output
  word changes the pads byte by byte, against the comment of
  `rtl/soc/housekeeping.v:1455`.  `main` disables that pin first.
* At sample `N` the inner loop of the golden generator starts at `N`: `data[N]` is written
  and `taps[N]` read (`PatternGenerater.c:24`).  The golden file is right all the same,
  because the sample there is 0 (`LinesAreSums`).
* `src/Readme.md:26` says the hardware FIR runs three times; `main` runs it four times
  (`testbench/counter_la_fir/counter_la_fir.c:145-155`).
* Reading back a coefficient scales the address differently from writing one (`fir.v:174`
  against l.180: bytes against words); `IDLE` answers any read with `rvalid`, in the third
  cycle after the first; a second `fir_tap` without a reset would shift the
  coefficients; reads of `0x3000_xxxx` are never acknowledged.

## What is not modelled

* The logic analyser's override of the user RAM's clock and reset (the firmware
  leaves its probes as inputs), its byte enables and its unconnected `count`.
* VexRiscv itself, but for its traps and the way its buses raise and withdraw requests;
  the flash controller, the SPI master and the timer of the LiteX core (their
  registers are in `CsrBus`); the receive half of the UART, which no program uses.
* The SPI front door's own accesses to the housekeeping registers, bit-bang mode of the
  loader, PLL and IRQ registers, the reset of the loader while it shifts.
* `firmware/simple_system_common.c`'s output of hexadecimal numbers, `sim_halt` and the
  exception handler that prints and stops: output only.
* `firmware/crt0_ibex.S`, `firmware/start.S`: for other processors, not linked;
  `firmware/generated/csr.h` is `csr.h` a second time.
* The testbench (its comparisons are `MatchesGolden` and `ReportsAreGolden`) and the
  models of a flash memory and a terminal in `vip/`.
* Pads, power, chip-level wiring, the unused variants of the user project
  (`user_proj_example.gcd.v`, `bram11.v`, `bram12.v`), reports and synthesis
  results: no behaviour of their own.

## Plan

Done, in this order:

1. `Fir`, `FirStream` and runs: the engine, its contract and its sums.
2. `Wb2Axi`, `UserBram`, `Firmware`, `FirSoc`: the composition on one clock, its
   liveness, the repository's instance and the golden file.
3. `FirInvariant` and the theorems about the engine.
4. `FirSpec`: the filter as a user sees it, with `FirStream` shown to implement it, by
   TLC and by a theorem.
5. `SystemTimer`, `PerfCounters`, `CsrMap`, `CsrBus`, `CsrArray`: the firmware library.
6. `GpioLoader`, `Housekeeping`: pads, back door, and the first part of `main`.
7. `Uart`, `StartUp`, `GoldenData`: console, start-up and the reference.
8. `Interrupts`, `BusFabric`: traps, arbiter and time-out; `CpuSide`, which puts the first
   beside `CsrBus`.
9. The first theorems of `SystemTimerProof`, `HousekeepingProof`, `InterruptsProof`.
10. `FirSocInvariant` and `FirSocProof`: all safety properties of the composition.
11. The compare value of the timer, the chains of the loader, and all safety properties of
    `Parts`, proved.
12. `CsrBus` with the callers' words as parameters, and its safety properties, proved.

Left:

* the refinement of a queue of characters by `Uart`;
* a program that loads coefficients twice (`fir.v:180`), once the repository says what it
  should do;
* the SPI byte protocol of `housekeeping_spi.v` with its own reads and writes beside the back door's;
* `vip/spiflash.v` with the flash controller.
