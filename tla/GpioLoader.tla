------------------------------ MODULE GpioLoader ------------------------------
(***************************************************************************)
(* How the pads of the chip get their modes: the serial loader of          *)
(* housekeeping.v and the control block of every pad (gpio_control_block.v),*)
(* wired into two chains as in caravel.v.                                  *)
(*                                                                         *)
(* The loader takes the configuration of one pad of each chain at a time,  *)
(* farthest pad first, and shifts it out most significant bit first; after *)
(* the last pair one load strobe makes every block take over what its shift *)
(* register holds.  One step is one clock of the loader with the clock edges *)
(* it sends down the chains.                                               *)
(*                                                                         *)
(* taken is history: the configuration each pad was sent.                  *)
(***************************************************************************)
EXTENDS Integers

CONSTANTS
    PerChain,  \* MPRJ_IO_PADS_1 = MPRJ_IO_PADS_2: pads on each chain
    Width,     \* IO_CTRL_BITS: bits of a configuration
    Default    \* the mode of a pad after power-on

Pads  == 2 * PerChain    \* MPRJ_IO_PADS
Pad   == 0..(Pads - 1)
Bit   == 0..(Width - 1)
Chain == {1, 2}

ASSUME LoaderAssumption ==
    /\ PerChain \in Nat \ {0} /\ Width \in Nat \ {0}
    /\ Default \in [Bit -> {0, 1}]

VARIABLES
    gpio_configure,             \* the registers the program writes
    serial_xfer,                \* the program's request
    serial_busy, xfer_state, xfer_count, pad_count, serial_clock, serial_load, staging,
    shift_register, serial_data_out, mode,   \* the control block of each pad
    taken

registers  == <<gpio_configure, serial_xfer>>
loaderVars == <<serial_busy, xfer_state, xfer_count, pad_count, serial_clock, serial_load,
                staging, taken>>
padVars    == <<shift_register, serial_data_out, mode>>
vars       == <<registers, loaderVars, padVars>>

Zero == [b \in Bit |-> 0]

\* Chain 1 starts at its last pad, chain 2 at its first: both in the middle.
FirstPads == [c \in Chain |-> IF c = 1 THEN PerChain - 1 ELSE PerChain]

LoaderInit ==
    /\ gpio_configure = [p \in Pad |-> Default] /\ serial_xfer = 0
    /\ serial_busy = 0 /\ xfer_state = "IDLE" /\ xfer_count = 0
    /\ pad_count = FirstPads
    /\ serial_clock = 0 /\ serial_load = 0 /\ staging = [c \in Chain |-> Zero]
    /\ shift_register = [p \in Pad |-> Zero] /\ serial_data_out = [p \in Pad |-> 0]
    /\ mode = [p \in Pad |-> Default] /\ taken = [p \in Pad |-> Default]

-----------------------------------------------------------------------------
(* The chains: the loader feeds pad 0 and the last pad, and both chains    *)
(* run towards the middle.                                                 *)

\* Faulty variant: the shift register turns the other way.
ShiftDown(word, in) == [b \in Bit |-> IF b = Width - 1 THEN in ELSE word[b + 1]]

\* {word[Width-2:0], in}
ShiftIn(word, in) == [b \in Bit |-> IF b = 0 THEN in ELSE word[b - 1]]

\* serial_data_1 and serial_data_2
SerialData(c) == staging[c][Width - 1]

SerialIn(p) ==
    CASE p = 0                      -> SerialData(1)
      [] p = Pads - 1               -> SerialData(2)
      [] p > 0 /\ p < PerChain      -> serial_data_out[p - 1]
      [] p < Pads - 1 /\ p >= PerChain -> serial_data_out[p + 1]

\* The blocks take a bit in on the rising clock, pass theirs on on the falling
\* clock, and take their mode over on the rising load strobe.
ControlBlocks ==
    /\ shift_register' = IF serial_clock = 0 /\ serial_clock' = 1
                         THEN [p \in Pad |-> ShiftIn(shift_register[p], SerialIn(p))]
                         ELSE shift_register
    /\ serial_data_out' = IF serial_clock = 1 /\ serial_clock' = 0
                          THEN [p \in Pad |-> shift_register[p][Width - 1]]
                          ELSE serial_data_out
    /\ mode' = IF serial_load = 0 /\ serial_load' = 1 THEN shift_register ELSE mode

-----------------------------------------------------------------------------
(* The loader, one clock each.                                             *)

LoaderIdle ==
    /\ xfer_state = "IDLE"
    /\ pad_count' = FirstPads
    /\ serial_clock' = 0 /\ serial_load' = 0
    /\ serial_busy' = serial_xfer
    /\ xfer_state' = IF serial_xfer = 1 THEN "START" ELSE "IDLE"
    /\ UNCHANGED <<xfer_count, staging, taken>>

\* pad_count_1 goes down and pad_count_2 up.
LoaderStart ==
    /\ xfer_state = "START"
    /\ serial_clock' = 0 /\ serial_load' = 0
    /\ xfer_count' = 0
    /\ pad_count' = [pad_count EXCEPT ![1] = @ - 1, ![2] = @ + 1]
    /\ staging' = [c \in Chain |-> gpio_configure[pad_count[c]]]
    /\ taken' = [p \in Pad |-> IF \E c \in Chain : p = pad_count[c]
                               THEN gpio_configure[p] ELSE taken[p]]
    /\ xfer_state' = "XBYTE"
    /\ UNCHANGED serial_busy

LastBit(n) == n = Width - 1

AfterPad == IF pad_count[2] = Pads THEN "LOAD" ELSE "START"

LoaderByte ==
    /\ xfer_state = "XBYTE"
    /\ serial_clock' = 1 - serial_clock /\ serial_load' = 0
    /\ IF serial_clock = 0
       THEN /\ xfer_count' = IF LastBit(xfer_count) THEN 0 ELSE xfer_count + 1
            /\ xfer_state' = IF LastBit(xfer_count) THEN AfterPad ELSE "XBYTE"
            /\ UNCHANGED staging
       ELSE /\ staging' = [c \in Chain |-> ShiftIn(staging[c], 0)]
            /\ UNCHANGED <<xfer_count, xfer_state>>
    /\ UNCHANGED <<serial_busy, pad_count, taken>>

\* Faulty variant: the loader never leaves LOAD.
LoadForever ==
    /\ xfer_state = "LOAD"
    /\ serial_clock' = 0
    /\ xfer_count' = IF xfer_count = 2 THEN 0 ELSE xfer_count + 1
    /\ serial_load' = IF xfer_count = 1 THEN 1 ELSE 0
    /\ UNCHANGED <<serial_busy, xfer_state, staging, pad_count, taken>>

\* Pulse the load strobe, return to idle.
LoaderLoad ==
    /\ xfer_state = "LOAD"
    /\ serial_clock' = 0
    /\ xfer_count' = xfer_count + 1
    /\ serial_load' = IF xfer_count = 1 THEN 1 ELSE 0
    /\ serial_busy' = IF xfer_count = 2 THEN 0 ELSE serial_busy
    /\ xfer_state' = IF xfer_count = 2 THEN "IDLE" ELSE "LOAD"
    /\ UNCHANGED <<staging, pad_count, taken>>

LoaderTick ==
    /\ LoaderIdle \/ LoaderStart \/ LoaderByte \/ LoaderLoad
    /\ ControlBlocks
=============================================================================
