----------------------------- MODULE Housekeeping -----------------------------
(***************************************************************************)
(* main's accesses to the housekeeping registers (caravel.h): the stores of *)
(* the pad modes, the transfer request and the loop that waits for it, and  *)
(* the output words with which it reports to the test bench.               *)
(*                                                                         *)
(* The registers are bytes.  The back door of housekeeping.v takes an access *)
(* of the bus apart into four byte accesses, two clocks each, while the     *)
(* loader shifts modes out under the same clock.  An external master may    *)
(* hold the chip select of the SPI front door low, and stall the back door  *)
(* in the middle of a byte, as long as the pad of that pin is an input.     *)
(*                                                                         *)
(* whole is history: the last output word whose store has ended.           *)
(***************************************************************************)
EXTENDS GpioLoader

CONSTANTS
    Modes,       \* the modes main stores
    StoredPads,  \* the pads main stores a mode for, from the last to the first
    LowBits,     \* bits of a configuration in its low byte: 8
    CSB,         \* the pad of the SPI chip select: 3
    INP_DIS,     \* the bit of a configuration that disables the input
    Byte,        \* values of a byte of the output word
    DataStores   \* number of output words main stores

ASSUME HousekeepingAssumption ==
    /\ Modes \subseteq [Bit -> {0, 1}]
    /\ StoredPads \in Nat /\ StoredPads <= Pads
    /\ LowBits \in 0..Width /\ CSB \in Pad /\ INP_DIS \in Bit
    /\ 0 \in Byte /\ DataStores \in Nat

VARIABLES
    wbbd_state, lane,                    \* the back door and the byte it is at
    mgmt_gpio_data, mgmt_gpio_data_buf,  \* the output word and the bytes waiting for its last
    csb, stall,                          \* the front door: chip select; rdstb or wrstb
    access, value,                       \* the access on the bus and what a load returned
    pc, left,                            \* main: the statement, and the stores left in it
    whole

bankVars == <<mgmt_gpio_data, mgmt_gpio_data_buf>>
doorVars == <<wbbd_state, lane, access, value>>
mainVars == <<pc, left>>
allVars  == <<vars, bankVars, doorVars, csb, stall, mainVars, whole>>

Lane == 0..3
Word == [Lane -> Byte]
Word0 == [i \in Lane |-> 0]

None            == [kind |-> "none"]
StoreIo(p, m)   == [kind |-> "store", reg |-> "reg_mprj_io", pad |-> p, data |-> m]
StoreXfer       == [kind |-> "store", reg |-> "reg_mprj_xfer", data |-> 1]
LoadXfer        == [kind |-> "load", reg |-> "reg_mprj_xfer"]
StoreData(w)    == [kind |-> "store", reg |-> "reg_mprj_datal", data |-> w]
Storing(reg)    == access # None /\ access.kind = "store" /\ access.reg = reg

Accesses ==
    {None, StoreXfer, LoadXfer} \cup {StoreIo(p, m) : p \in 0..(StoredPads - 1), m \in Modes}
      \cup {StoreData(w) : w \in Word}

Init ==
    /\ LoaderInit
    /\ wbbd_state = "IDLE" /\ lane = 0
    /\ mgmt_gpio_data = Word0 /\ mgmt_gpio_data_buf = Word0
    /\ csb = 1 /\ stall = FALSE
    /\ access = None /\ value = 0
    /\ pc = IF StoredPads = 0 THEN "xfer" ELSE "io"
    /\ left = StoredPads
    /\ whole = Word0

-----------------------------------------------------------------------------
(* The front door.  Its own accesses to the registers are left out.        *)

spi_is_active == gpio_configure[CSB][INP_DIS] = 0 /\ csb = 0

\* The external master drives the pin and, selected, comes to and leaves the point
\* where a byte is about to be read or written.
FrontDoor ==
    /\ csb' \in {0, 1} /\ stall' \in BOOLEAN
    /\ <<csb', stall'>> # <<csb, stall>> /\ (stall' => csb' = 0)
    /\ UNCHANGED <<vars, bankVars, doorVars, mainVars, whole>>

-----------------------------------------------------------------------------
(* The registers, written a byte at a time.                                *)

\* The two bytes of a pad's configuration.
ConfigureByte(old, new) ==
    [b \in Bit |-> IF (b < LowBits /\ lane = 0) \/ (b >= LowBits /\ lane = 1)
                   THEN new[b] ELSE old[b]]

\* Faulty variant: every byte of the output word is written at once.
DataByteAtOnce ==
    /\ mgmt_gpio_data' = [mgmt_gpio_data EXCEPT ![lane] = access.data[lane]]
    /\ UNCHANGED mgmt_gpio_data_buf

\* The last byte brings the three that wait with it.
DataByte ==
    IF spi_is_active
    THEN /\ mgmt_gpio_data' = [mgmt_gpio_data EXCEPT ![lane] = access.data[lane]]
         /\ UNCHANGED mgmt_gpio_data_buf
    ELSE IF lane = 3
    THEN /\ mgmt_gpio_data' = [mgmt_gpio_data_buf EXCEPT ![3] = access.data[3]]
         /\ UNCHANGED mgmt_gpio_data_buf
    ELSE /\ mgmt_gpio_data_buf' = [mgmt_gpio_data_buf EXCEPT ![lane] = access.data[lane]]
         /\ UNCHANGED mgmt_gpio_data

\* A byte written to the control register sets the request, one that is only read
\* takes it back; the other bytes of the control word have no register.
XferByte ==
    IF Storing("reg_mprj_xfer") /\ lane = 0 THEN 1
    ELSE IF access.kind = "load" THEN 0 ELSE serial_xfer

WriteByte ==
    /\ gpio_configure' =
           IF Storing("reg_mprj_io")
           THEN [gpio_configure EXCEPT ![access.pad] = ConfigureByte(@, access.data)]
           ELSE gpio_configure
    /\ serial_xfer' = XferByte
    /\ IF Storing("reg_mprj_datal") THEN DataByte ELSE UNCHANGED bankVars

\* fdata(0x13): busy in bit 0, the data wires of the chains in bits 5 and 6.
ControlByte == serial_busy + 32 * SerialData(1) + 64 * SerialData(2)

-----------------------------------------------------------------------------
(* The back door, one clock each.                                          *)

DoorIdle ==
    /\ wbbd_state = "IDLE"
    /\ wbbd_state' = IF access = None THEN "IDLE" ELSE "SETUP"
    /\ lane' = 0
    /\ UNCHANGED <<access, value, registers, bankVars, whole>>

DoorSetup ==
    /\ wbbd_state = "SETUP"
    /\ wbbd_state' = IF spi_is_active /\ stall THEN "SETUP" ELSE "RW"
    /\ UNCHANGED <<lane, access, value, registers, bankVars, whole>>

\* Only the first byte of the control word reads as something other than 0.
DoorReadWrite ==
    /\ wbbd_state = "RW"
    /\ WriteByte
    /\ value' = IF access.kind = "load" /\ lane = 0 THEN ControlByte ELSE value
    /\ wbbd_state' = IF lane = 3 THEN "DONE" ELSE "SETUP"
    /\ lane' = (lane + 1) % 4
    /\ UNCHANGED <<access, whole>>

\* The master has seen the acknowledge and takes its access away.
DoorDone ==
    /\ wbbd_state = "DONE"
    /\ wbbd_state' = "IDLE" /\ access' = None
    /\ whole' = IF Storing("reg_mprj_datal") THEN access.data ELSE whole
    /\ UNCHANGED <<lane, value, registers, bankVars>>

\* One clock of the chip: the back door and the loader.
Tick ==
    /\ DoorIdle \/ DoorSetup \/ DoorReadWrite \/ DoorDone
    /\ LoaderTick
    /\ UNCHANGED <<csb, stall, mainVars>>

-----------------------------------------------------------------------------
(* main.  Any number of clocks passes before a statement starts.           *)

Issue(a, next, n) ==
    /\ access = None /\ wbbd_state = "IDLE"
    /\ access' = a /\ pc' = next /\ left' = n
    /\ UNCHANGED <<vars, bankVars, wbbd_state, lane, value, csb, stall, whole>>

ConfigurePad ==
    /\ pc = "io"
    /\ \E m \in Modes :
           Issue(StoreIo(left - 1, m), IF left = 1 THEN "xfer" ELSE "io", left - 1)

Transfer == pc = "xfer" /\ Issue(StoreXfer, "poll", 0)

\* while (reg_mprj_xfer == 1);
Poll  == pc = "poll" /\ Issue(LoadXfer, "test", 0)

Busy == value = 1

Test ==
    /\ pc = "test" /\ access = None
    /\ pc' = IF Busy THEN "poll" ELSE "data"
    /\ left' = IF Busy THEN 0 ELSE DataStores
    /\ UNCHANGED <<vars, bankVars, doorVars, csb, stall, whole>>

Report ==
    /\ pc = "data" /\ left > 0
    /\ \E w \in Word : Issue(StoreData(w), "data", left - 1)

Main == ConfigurePad \/ Transfer \/ Poll \/ Test \/ Report

Next == Tick \/ Main \/ FrontDoor

\* The clock runs, and so does main; nothing is asked of the external master.
Spec == Init /\ [][Next]_allVars /\ WF_allVars(Tick) /\ WF_allVars(Main)

-----------------------------------------------------------------------------
(* Properties.                                                             *)

\* housekeeping.v and gpio_control_block.v: when the load strobe comes, every pad of
\* both chains takes the mode its own register held when it was sent, and no pad that
\* of another or one that is a bit out of place.
PadsTakeTheirModes == [][mode' # mode => mode' = taken]_allVars

\* reg_mprj_datal: the pads never show a word made of bytes of two stores.  They show
\* the last one stored or the one being stored, and once a store has ended, that one.
DataUpdatesTogether ==
    mgmt_gpio_data = whole \/ (Storing("reg_mprj_datal") /\ mgmt_gpio_data = access.data)

\* counter_la_fir.c: once the loop that waits for the transfer is left, every pad has
\* the mode main stored for it.
ConfiguredAfterPoll == pc = "data" => mode = gpio_configure

\* The wait ends: the transfer does not start over for ever because the request is
\* still there when it is done.  And the loader comes to rest with all modes in
\* place, however the loop was left.
PadsSettle ==
    /\ (pc = "poll") ~> (pc = "data")
    /\ (pc = "data") ~> [](xfer_state = "IDLE" /\ mode = gpio_configure)
=============================================================================
