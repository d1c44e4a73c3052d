-------------------------- MODULE HousekeepingProof --------------------------
(***************************************************************************)
(* Proofs about the back door and the serial loader, for chains of any     *)
(* length and configurations of any width: the words main reports reach    *)
(* the pads whole, if the pad of the chip select is one main makes an      *)
(* output; every pad takes the mode its own register held when it was sent.*)
(*                                                                         *)
(* The argument for the words: they are torn only if the bytes are not     *)
(* collected, which the chip select's input decides, and main disables it  *)
(* before the first word.  The argument for the modes: ChainInv, below,    *)
(* says for every bit in the chains for which pad it is meant.             *)
(***************************************************************************)
EXTENDS Housekeeping, TLAPS

\* What main does in counter_la_fir.c: every mode it stores disables the input, and
\* the pad of the chip select gets one.
OutputsOnly == (\A m \in Modes : m[INP_DIS] = 1) /\ CSB < StoredPads

-----------------------------------------------------------------------------
(* The inductive invariant.                                                *)

DoorInv ==
    /\ wbbd_state \in {"IDLE", "SETUP", "RW", "DONE"} /\ lane \in Lane
    /\ wbbd_state \in {"IDLE", "DONE"} => lane = 0
    /\ access = None => wbbd_state = "IDLE"
    /\ access \in Accesses

\* Which store may be under way at which statement.
MainInv ==
    /\ pc \in {"io", "xfer", "poll", "test", "data"}
    /\ left \in Nat
    /\ pc = "io" => left \in 1..StoredPads
    /\ Storing("reg_mprj_io") => pc \in {"io", "xfer"}
    /\ Storing("reg_mprj_datal") => pc = "data"

\* The byte of a configuration that holds the input disable bit.
INP_LANE == IF INP_DIS < LowBits THEN 0 ELSE 1

\* The chip select is an input only until main's store to its pad has got there.
CsbInv ==
    /\ gpio_configure \in [Pad -> [Bit -> {0, 1}]]
    /\ \/ gpio_configure[CSB][INP_DIS] = 1
       \/ pc = "io" /\ left > CSB
       \/ /\ Storing("reg_mprj_io") /\ access.pad = CSB
          /\ lane <= INP_LANE /\ wbbd_state # "DONE"

\* The bytes of the word so far are waiting, and the pads show the word before; when
\* the last has been written they show the new one.
WordInv ==
    /\ mgmt_gpio_data \in Word /\ mgmt_gpio_data_buf \in Word /\ whole \in Word
    /\ ~Storing("reg_mprj_datal") => mgmt_gpio_data = whole
    /\ Storing("reg_mprj_datal") =>
         IF wbbd_state = "DONE" THEN mgmt_gpio_data = access.data
         ELSE /\ mgmt_gpio_data = whole
              /\ \A i \in Lane : i < lane => mgmt_gpio_data_buf[i] = access.data[i]

IInv == DoorInv /\ MainInv /\ CsbInv /\ WordInv

-----------------------------------------------------------------------------
(* The accesses.                                                           *)

NoStores == ~Storing("reg_mprj_io") /\ ~Storing("reg_mprj_datal")

\* A load and no access are no stores.
LEMMA NoStore ==
    /\ access = None => NoStores
    /\ access = LoadXfer => NoStores
BY DEF NoStores, Storing, None, LoadXfer

\* What each store of main looks like on the bus.
LEMMA Stores ==
    /\ access = StoreXfer => ~Storing("reg_mprj_io") /\ ~Storing("reg_mprj_datal")
    /\ \A p \in Pad, m \in Modes : access = StoreIo(p, m) =>
         Storing("reg_mprj_io") /\ ~Storing("reg_mprj_datal")
         /\ access.pad = p /\ access.data = m
    /\ \A w \in Word : access = StoreData(w) =>
         Storing("reg_mprj_datal") /\ ~Storing("reg_mprj_io") /\ access.data = w
BY DEF Storing, None, StoreXfer, StoreIo, StoreData

\* The store under way, from its register.
LEMMA StoreOf ==
    ASSUME access \in Accesses
    PROVE  /\ Storing("reg_mprj_io") => access.pad \in Pad /\ access.data \in Modes
           /\ Storing("reg_mprj_datal") => access.data \in Word
           /\ ~(Storing("reg_mprj_io") /\ Storing("reg_mprj_datal"))
<1> USE HousekeepingAssumption, LoaderAssumption DEF NoStores
<1>1. CASE access = None \/ access = LoadXfer
  BY <1>1, NoStore
<1>2. CASE access = StoreXfer
  BY <1>2, Stores
<1>3. CASE \E p \in 0..(StoredPads - 1), m \in Modes : access = StoreIo(p, m)
  <2>1. PICK p \in 0..(StoredPads - 1), m \in Modes : access = StoreIo(p, m)
    BY <1>3
  <2>2. p \in Pad
    BY DEF Pad, Pads
  <2> QED BY <2>1, <2>2, Stores
<1>4. CASE \E w \in Word : access = StoreData(w)
  BY <1>4, Stores
<1> QED BY <1>1, <1>2, <1>3, <1>4 DEF Accesses

-----------------------------------------------------------------------------
(* The steps.                                                              *)

LEMMA InitInv == ASSUME OutputsOnly, Init PROVE IInv
<1> USE HousekeepingAssumption, LoaderAssumption DEF NoStores
<1>1. NoStores
  BY NoStore DEF Init
<1>2. DoorInv
  BY DEF Init, DoorInv, Accesses, Lane
<1>3. MainInv
  BY <1>1 DEF Init, MainInv
<1>4. CsbInv
  <2>1. gpio_configure = [p \in Pad |-> Default]
    BY DEF Init, LoaderInit
  <2>2. StoredPads # 0 /\ CSB \in Nat
    BY DEF OutputsOnly, Pad
  <2>3. pc = "io" /\ left > CSB
    BY <2>2 DEF Init, OutputsOnly
  <2> QED BY <2>1, <2>3 DEF CsbInv
<1>5. WordInv
  BY <1>1 DEF Init, WordInv, Word, Word0
<1> QED BY <1>2, <1>3, <1>4, <1>5 DEF IInv

\* The access is what it was: so is the store.
LEMMA SameStore ==
    ASSUME access' = access
    PROVE  (Storing("reg_mprj_io")' <=> Storing("reg_mprj_io"))
         /\ (Storing("reg_mprj_datal")' <=> Storing("reg_mprj_datal"))
BY DEF Storing

\* A clock in which no byte is written.
LEMMA QuietDoor ==
    ASSUME IInv, OutputsOnly, DoorIdle \/ DoorSetup, UNCHANGED mainVars
    PROVE  IInv'
<1> USE SameStore DEF mainVars, registers, bankVars
<1>1. access' = access /\ lane' = lane
  BY DEF DoorIdle, DoorSetup, IInv, DoorInv
<1>2. wbbd_state # "DONE" /\ wbbd_state' # "DONE"
  BY DEF DoorIdle, DoorSetup
<1>3. DoorInv'
  BY <1>1 DEF DoorIdle, DoorSetup, IInv, DoorInv
<1>4. MainInv'
  BY <1>1 DEF DoorIdle, DoorSetup, IInv, MainInv
<1>5. CsbInv'
  BY <1>1, <1>2 DEF DoorIdle, DoorSetup, IInv, CsbInv
<1>6. WordInv'
  BY <1>1, <1>2 DEF DoorIdle, DoorSetup, IInv, WordInv
<1> QED BY <1>3, <1>4, <1>5, <1>6 DEF IInv

\* While main reports, the front door is closed.
LEMMA DoorClosed ==
    ASSUME IInv, Storing("reg_mprj_datal")
    PROVE  ~spi_is_active
<1>1. pc = "data" /\ ~Storing("reg_mprj_io")
  BY DEF IInv, MainInv
<1> QED BY <1>1 DEF IInv, CsbInv, spi_is_active

\* A byte of a configuration.
LEMMA ConfigureStep ==
    ASSUME IInv, OutputsOnly, wbbd_state = "RW", WriteByte,
           lane' = (lane + 1) % 4, wbbd_state' = IF lane = 3 THEN "DONE" ELSE "SETUP",
           access' = access, UNCHANGED mainVars
    PROVE  CsbInv'
<1> USE HousekeepingAssumption, LoaderAssumption
<1>1. (Storing("reg_mprj_io")' <=> Storing("reg_mprj_io"))
         /\ (Storing("reg_mprj_datal")' <=> Storing("reg_mprj_datal"))
  BY SameStore
<1>2. lane \in 0..3 /\ access \in Accesses
  BY DEF IInv, DoorInv, Lane
<1>3. gpio_configure \in [Pad -> [Bit -> {0, 1}]]
  BY DEF IInv, CsbInv
<1>4. CASE ~Storing("reg_mprj_io")
  BY <1>1, <1>4 DEF WriteByte, IInv, CsbInv, mainVars
<1>5. CASE Storing("reg_mprj_io")
  <2>1. access.pad \in Pad /\ access.data \in Modes
    BY <1>2, <1>5, StoreOf
  <2>2. access.data \in [Bit -> {0, 1}] /\ access.data[INP_DIS] = 1
    BY <2>1 DEF OutputsOnly
  <2>3. gpio_configure' = [gpio_configure EXCEPT ![access.pad] = ConfigureByte(@, access.data)]
    BY <1>5 DEF WriteByte
  <2>4. gpio_configure' \in [Pad -> [Bit -> {0, 1}]]
    BY <1>3, <2>1, <2>2, <2>3 DEF ConfigureByte
  <2>5. CASE access.pad # CSB
    <3>1. gpio_configure'[CSB] = gpio_configure[CSB]
      BY <1>3, <2>3, <2>5
    <3> QED BY <1>1, <2>4, <2>5, <3>1 DEF IInv, CsbInv, mainVars
  <2>6. CASE access.pad = CSB
    <3>1. gpio_configure'[CSB][INP_DIS] =
            IF lane = INP_LANE THEN 1 ELSE gpio_configure[CSB][INP_DIS]
      <4>1. gpio_configure'[CSB] = ConfigureByte(gpio_configure[CSB], access.data)
        BY <1>3, <2>1, <2>3, <2>6
      <4>2. INP_DIS \in Bit /\ INP_DIS \in Int /\ LowBits \in Int
        BY DEF Bit
      <4> QED BY <1>2, <2>2, <4>1, <4>2 DEF ConfigureByte, INP_LANE
    <3>2. CASE lane = INP_LANE \/ gpio_configure[CSB][INP_DIS] = 1
      BY <2>4, <3>1, <3>2 DEF CsbInv
    <3>3. CASE lane # INP_LANE /\ gpio_configure[CSB][INP_DIS] # 1 /\ pc = "io" /\ left > CSB
      BY <2>4, <3>3 DEF CsbInv, mainVars
    <3>4. CASE lane < INP_LANE
      <4>1. lane = 0 /\ INP_LANE = 1
        BY <1>2, <3>4 DEF INP_LANE
      <4>2. lane' = 1 /\ wbbd_state' # "DONE"
        BY <4>1
      <4> QED BY <1>1, <1>5, <2>4, <2>6, <4>1, <4>2 DEF CsbInv, INP_LANE
    <3>5. lane = INP_LANE \/ gpio_configure[CSB][INP_DIS] = 1
            \/ (pc = "io" /\ left > CSB) \/ lane < INP_LANE
      BY <1>2 DEF IInv, CsbInv, INP_LANE
    <3> QED BY <3>2, <3>3, <3>4, <3>5
  <2> QED BY <2>5, <2>6
<1> QED BY <1>4, <1>5

\* A byte of an output word.
LEMMA WordStep ==
    ASSUME IInv, wbbd_state = "RW", WriteByte,
           lane' = (lane + 1) % 4, wbbd_state' = IF lane = 3 THEN "DONE" ELSE "SETUP",
           access' = access, whole' = whole
    PROVE  WordInv'
<1>1. (Storing("reg_mprj_io")' <=> Storing("reg_mprj_io"))
         /\ (Storing("reg_mprj_datal")' <=> Storing("reg_mprj_datal"))
  BY SameStore
<1>2. lane \in 0..3 /\ access \in Accesses
  BY DEF IInv, DoorInv, Lane
<1>3. mgmt_gpio_data \in Word /\ mgmt_gpio_data_buf \in Word /\ whole \in Word
  BY DEF IInv, WordInv
<1>4. CASE ~Storing("reg_mprj_datal")
  <2>1. UNCHANGED bankVars
    BY <1>4 DEF WriteByte
  <2> QED BY <1>1, <1>3, <1>4, <2>1 DEF bankVars, IInv, WordInv
<1>5. CASE Storing("reg_mprj_datal")
  <2>1. ~spi_is_active
    BY <1>5, DoorClosed
  <2>2. access.data \in Word
    BY <1>2, <1>5, StoreOf
  <2>3. /\ mgmt_gpio_data = whole
        /\ \A i \in Lane : i < lane => mgmt_gpio_data_buf[i] = access.data[i]
    BY <1>5 DEF IInv, WordInv
  <2>4. DataByte
    BY <1>5 DEF WriteByte
  <2>5. CASE lane = 3
    <3>1. mgmt_gpio_data' = [mgmt_gpio_data_buf EXCEPT ![3] = access.data[3]]
          /\ mgmt_gpio_data_buf' = mgmt_gpio_data_buf
      BY <2>1, <2>4, <2>5 DEF DataByte
    <3>2. \A i \in Lane : mgmt_gpio_data'[i] = access.data[i]
      BY <1>3, <2>3, <2>5, <3>1 DEF Word, Lane
    <3>3. mgmt_gpio_data' \in Word
      BY <1>3, <2>2, <3>1 DEF Word, Lane
    <3>4. mgmt_gpio_data' = access.data
      BY <2>2, <3>2, <3>3 DEF Word
    <3> QED BY <1>1, <1>3, <1>5, <2>5, <3>1, <3>3, <3>4 DEF WordInv
  <2>6. CASE lane # 3
    <3>1. mgmt_gpio_data_buf' = [mgmt_gpio_data_buf EXCEPT ![lane] = access.data[lane]]
          /\ mgmt_gpio_data' = mgmt_gpio_data
      BY <2>1, <2>4, <2>6 DEF DataByte
    <3>2. mgmt_gpio_data_buf' \in Word
      BY <1>2, <1>3, <2>2, <3>1 DEF Word, Lane
    <3>3. lane' = lane + 1 /\ wbbd_state' # "DONE"
      BY <1>2, <2>6
    <3>4. \A i \in Lane : i < lane' => mgmt_gpio_data_buf'[i] = access.data[i]
      BY <1>2, <1>3, <2>3, <3>1, <3>3 DEF Word, Lane
    <3> QED BY <1>1, <1>3, <1>5, <2>3, <3>1, <3>2, <3>3, <3>4 DEF WordInv
  <2> QED BY <2>5, <2>6
<1> QED BY <1>4, <1>5

LEMMA ReadWriteStep ==
    ASSUME IInv, OutputsOnly, DoorReadWrite, UNCHANGED mainVars
    PROVE  IInv'
<1>1. /\ wbbd_state = "RW" /\ WriteByte /\ access' = access /\ whole' = whole
      /\ lane' = (lane + 1) % 4 /\ wbbd_state' = IF lane = 3 THEN "DONE" ELSE "SETUP"
  BY DEF DoorReadWrite
<1>2. DoorInv'
  BY <1>1 DEF IInv, DoorInv, Lane
<1>3. MainInv'
  BY <1>1, SameStore DEF IInv, MainInv, mainVars
<1>4. CsbInv' /\ WordInv'
  BY <1>1, ConfigureStep, WordStep
<1> QED BY <1>2, <1>3, <1>4 DEF IInv

LEMMA DoneStep ==
    ASSUME IInv, DoorDone, UNCHANGED mainVars
    PROVE  IInv'
<1> USE DEF NoStores
<1>1. NoStores'
  BY DEF DoorDone, Storing, None
<1>2. DoorInv'
  BY DEF DoorDone, IInv, DoorInv, Accesses
<1>3. MainInv'
  BY <1>1 DEF DoorDone, IInv, MainInv, mainVars
<1>4. CsbInv'
  BY DEF DoorDone, IInv, CsbInv, mainVars, registers
<1>5. WordInv'
  <2>1. Storing("reg_mprj_datal") => access.data \in Word
    BY StoreOf DEF IInv, DoorInv
  <2>2. mgmt_gpio_data' = whole'
    BY DEF DoorDone, IInv, WordInv, bankVars
  <2> QED BY <1>1, <2>1, <2>2 DEF DoorDone, IInv, WordInv, bankVars
<1> QED BY <1>2, <1>3, <1>4, <1>5 DEF IInv

\* A statement that puts an access on the bus.
LEMMA IssueStep ==
    ASSUME IInv, OutputsOnly, ConfigurePad \/ Transfer \/ Poll \/ Report
    PROVE  IInv'
<1> USE HousekeepingAssumption, LoaderAssumption DEF NoStores
<1>1. /\ access = None /\ wbbd_state = "IDLE" /\ lane = 0
      /\ UNCHANGED <<wbbd_state, lane, gpio_configure, mgmt_gpio_data, mgmt_gpio_data_buf, whole>>
  BY DEF ConfigurePad, Transfer, Poll, Report, Issue, IInv, DoorInv, vars, registers, bankVars
<1>2. NoStores
  BY <1>1, NoStore
<1>3. mgmt_gpio_data = whole
  BY <1>2 DEF IInv, WordInv
<1>4. WordInv'
  BY <1>1, <1>3 DEF IInv, WordInv, Lane
<1>5. ASSUME ConfigurePad PROVE IInv'
  <2>1. PICK m \in Modes : Issue(StoreIo(left - 1, m), IF left = 1 THEN "xfer" ELSE "io", left - 1)
    BY <1>5 DEF ConfigurePad
  <2>2. pc = "io" /\ left \in 1..StoredPads
    BY <1>5 DEF ConfigurePad, IInv, MainInv
  <2>3. left - 1 \in Pad
    BY <2>2 DEF Pad, Pads
  <2>4. access' = StoreIo(left - 1, m) /\ left' = left - 1 /\ pc' = IF left = 1 THEN "xfer" ELSE "io"
    BY <2>1 DEF Issue
  <2>5. Storing("reg_mprj_io")' /\ ~Storing("reg_mprj_datal")' /\ access'.pad = left - 1
    BY <2>4 DEF Storing, StoreIo, None
  <2>6. DoorInv'
    <3>1. left - 1 \in 0..(StoredPads - 1)
      BY <2>2
    <3>2. access' \in Accesses /\ access' # None
      BY <2>4, <2>5, <3>1 DEF Accesses, Storing
    <3> QED BY <1>1, <3>2 DEF IInv, DoorInv
  <2>7. MainInv'
    BY <2>2, <2>4, <2>5 DEF MainInv
  <2>8. CsbInv'
    <3>1. CASE left - 1 = CSB
      BY <1>1, <2>5, <3>1 DEF IInv, CsbInv, INP_LANE
    <3>2. CASE left - 1 # CSB
      BY <1>1, <1>2, <2>2, <2>4, <3>2 DEF IInv, CsbInv, Pad
    <3> QED BY <3>1, <3>2
  <2> QED BY <1>4, <2>6, <2>7, <2>8 DEF IInv
<1>6. ASSUME Transfer \/ Poll PROVE IInv'
  <2>1. access' \in {StoreXfer, LoadXfer} /\ pc # "io" /\ pc' \in {"poll", "test"} /\ left' = 0
    BY <1>6 DEF Transfer, Poll, Issue
  <2>2. access' # None /\ ~Storing("reg_mprj_io")' /\ ~Storing("reg_mprj_datal")'
    BY <2>1 DEF Storing, StoreXfer, LoadXfer, None
  <2>3. DoorInv'
    BY <1>1, <2>1, <2>2 DEF IInv, DoorInv, Accesses
  <2>4. MainInv'
    BY <2>1, <2>2 DEF MainInv
  <2>5. CsbInv'
    BY <1>1, <1>2, <2>1 DEF IInv, CsbInv
  <2> QED BY <1>4, <2>3, <2>4, <2>5 DEF IInv
<1>7. ASSUME Report PROVE IInv'
  <2>1. PICK w \in Word : Issue(StoreData(w), "data", left - 1)
    BY <1>7 DEF Report
  <2>2. pc = "data" /\ left \in Nat /\ left > 0
    BY <1>7 DEF Report, IInv, MainInv
  <2>3. access' = StoreData(w) /\ left' = left - 1 /\ pc' = "data"
    BY <2>1 DEF Issue
  <2>4. Storing("reg_mprj_datal")' /\ ~Storing("reg_mprj_io")'
    BY <2>3 DEF Storing, StoreData, None
  <2>5. DoorInv'
    BY <1>1, <2>3, <2>4 DEF IInv, DoorInv, Accesses, Storing
  <2>6. MainInv'
    BY <2>2, <2>3, <2>4 DEF MainInv
  <2>7. CsbInv'
    BY <1>1, <1>2, <2>2, <2>3 DEF IInv, CsbInv
  <2> QED BY <1>4, <2>5, <2>6, <2>7 DEF IInv
<1> QED BY <1>5, <1>6, <1>7

\* Steps that leave the registers and the bus alone.
LEMMA TestStep == ASSUME IInv, Test PROVE IInv'
<1> USE HousekeepingAssumption DEF NoStores
<1>1. /\ access = None /\ pc = "test" /\ pc' \in {"poll", "data"} /\ left' \in Nat
      /\ UNCHANGED <<access, wbbd_state, lane, gpio_configure, mgmt_gpio_data, mgmt_gpio_data_buf, whole>>
  BY DEF Test, doorVars, bankVars, vars, registers
<1>2. NoStores /\ NoStores'
  BY <1>1, NoStore, SameStore
<1>3. DoorInv' /\ MainInv' /\ CsbInv' /\ WordInv'
  BY <1>1, <1>2 DEF IInv, DoorInv, MainInv, CsbInv, WordInv
<1> QED BY <1>3 DEF IInv

LEMMA IdleStep ==
    ASSUME IInv, FrontDoor \/ UNCHANGED allVars
    PROVE  IInv'
<1>1. UNCHANGED <<access, wbbd_state, lane, pc, left, gpio_configure, mgmt_gpio_data,
                  mgmt_gpio_data_buf, whole>>
  BY DEF FrontDoor, allVars, vars, registers, bankVars, doorVars, mainVars
<1>2. (Storing("reg_mprj_io")' <=> Storing("reg_mprj_io"))
         /\ (Storing("reg_mprj_datal")' <=> Storing("reg_mprj_datal"))
  BY <1>1, SameStore
<1> QED BY <1>1, <1>2 DEF IInv, DoorInv, MainInv, CsbInv, WordInv

LEMMA NextInv == ASSUME IInv, OutputsOnly, [Next]_allVars PROVE IInv'
<1>1. CASE Tick
  <2>1. UNCHANGED mainVars
    BY <1>1 DEF Tick
  <2>2. CASE DoorIdle \/ DoorSetup
    BY <2>1, <2>2, QuietDoor
  <2>3. CASE DoorReadWrite
    BY <2>1, <2>3, ReadWriteStep
  <2>4. CASE DoorDone
    BY <2>1, <2>4, DoneStep
  <2> QED BY <1>1, <2>2, <2>3, <2>4 DEF Tick
<1>2. CASE Main
  BY <1>2, IssueStep, TestStep DEF Main
<1>3. CASE FrontDoor \/ UNCHANGED allVars
  BY <1>3, IdleStep
<1> QED BY <1>1, <1>2, <1>3 DEF Next

\* counter_la_fir.c and housekeeping.v together: whatever the external master does with
\* the chip select, the pads show only words main stored, whole.
THEOREM WordsReachPadsWhole ==
    ASSUME OutputsOnly
    PROVE  Spec => []DataUpdatesTogether
<1>1. Init => IInv
  BY InitInv
<1>2. IInv /\ [Next]_allVars => IInv'
  BY NextInv
<1>3. IInv => DataUpdatesTogether
  BY DEF IInv, WordInv, DataUpdatesTogether
<1> QED BY <1>1, <1>2, <1>3, PTL DEF Spec

-----------------------------------------------------------------------------
(* The loader and the chains.  While the configurations of the pads n places *)
(* from the two ends are shifted out, and k bits of them have been, every bit *)
(* sent so far is k bits farther on than the pad it is meant for is from the *)
(* end: the n + 1 places that are left are the clocks that are left.        *)

Bits == [Bit -> {0, 1}]

LoaderType ==
    /\ gpio_configure \in [Pad -> Bits] /\ taken \in [Pad -> Bits]
    /\ shift_register \in [Pad -> Bits] /\ serial_data_out \in [Pad -> {0, 1}]
    /\ staging \in [Chain -> Bits] /\ pad_count \in [Chain -> Int]
    /\ serial_clock \in {0, 1} /\ xfer_state \in {"IDLE", "START", "XBYTE", "LOAD"}

\* The pad n places farther down p's chain, and whether the chain goes that far.
Away(p, n)    == IF p < PerChain THEN p + n ELSE p - n
Reaches(p, n) == IF p < PerChain THEN p + n < PerChain ELSE p - n >= PerChain

\* The pad the loader feeds directly.
Feed(c) == IF c = 1 THEN 0 ELSE Pads - 1

\* Every register holds what is meant for the pad n places farther.
Before(n) == \A p \in Pad : Reaches(p, n) => shift_register[p] = taken[Away(p, n)]

\* The same k bits later: a register holds the end of one configuration and the
\* beginning of the next.
Shifted(n, k) ==
    \A p \in Pad, b \in Bit :
        /\ b >= k /\ Reaches(p, n + 1) => shift_register[p][b] = taken[Away(p, n + 1)][b - k]
        /\ b < k /\ Reaches(p, n) => shift_register[p][b] = taken[Away(p, n)][Width - k + b]

\* The staging registers have lost their first s bits.
Staged(n, s) == \A c \in Chain, b \in Bit : b >= s => staging[c][b] = taken[Away(Feed(c), n)][b - s]

\* The number of pads of each chain not yet sent.
Unsent == pad_count[1] + 1

ChainInv ==
    /\ pad_count[1] + pad_count[2] = Pads - 1
    /\ serial_clock = 0 => \A p \in Pad : serial_data_out[p] = shift_register[p][Width - 1]
    /\ xfer_state = "START" => Unsent \in 1..PerChain /\ Before(Unsent)
    /\ xfer_state = "XBYTE" =>
         /\ Unsent \in 0..(PerChain - 1) /\ xfer_count \in 0..(Width - 1)
         /\ serial_clock = 1 => xfer_count > 0
         /\ Shifted(Unsent, xfer_count)
         /\ Staged(Unsent, xfer_count - serial_clock)
    /\ xfer_state = "LOAD" => Unsent = 0 /\ Before(0)

\* What the program may have on the bus: the pads it names are pads.
AskInv ==
    /\ access \in Accesses /\ left \in Nat
    /\ pc = "io" => left \in 1..StoredPads

-----------------------------------------------------------------------------
(* The chains.                                                             *)

\* Chain 1 runs up from pad 0, chain 2 down from the last pad.
LEMMA WhereInputsComeFrom ==
    ASSUME NEW p \in Pad
    PROVE  /\ p = 0 => SerialIn(p) = SerialData(1)
           /\ p = Pads - 1 => SerialIn(p) = SerialData(2)
           /\ p > 0 /\ p < PerChain =>
                p - 1 \in Pad /\ p - 1 < PerChain /\ SerialIn(p) = serial_data_out[p - 1]
           /\ p < Pads - 1 /\ p >= PerChain =>
                p + 1 \in Pad /\ p + 1 >= PerChain /\ SerialIn(p) = serial_data_out[p + 1]
           /\ \/ p = 0 \/ p = Pads - 1
              \/ p > 0 /\ p < PerChain
              \/ p < Pads - 1 /\ p >= PerChain
<1> DEFINE first == p = 0
           last == p = Pads - 1
           up == p > 0 /\ p < PerChain
           down == p < Pads - 1 /\ p >= PerChain
<1>1. /\ first => ~last /\ ~up /\ ~down
      /\ last => ~first /\ ~up /\ ~down
      /\ up => ~first /\ ~last /\ ~down
      /\ down => ~first /\ ~last /\ ~up
      /\ first \/ last \/ up \/ down
      /\ up => p - 1 \in Pad /\ p - 1 < PerChain
      /\ down => p + 1 \in Pad /\ p + 1 >= PerChain
  BY LoaderAssumption DEF Pad, Pads
<1>2. SerialIn(p) = CASE first -> SerialData(1) [] last -> SerialData(2)
                      [] up -> serial_data_out[p - 1] [] down -> serial_data_out[p + 1]
  BY DEF SerialIn
<1> HIDE DEF first, last, up, down
<1>3. /\ first => SerialIn(p) = SerialData(1)
      /\ last => SerialIn(p) = SerialData(2)
      /\ up => SerialIn(p) = serial_data_out[p - 1]
      /\ down => SerialIn(p) = serial_data_out[p + 1]
  BY <1>1, <1>2, Zenon
<1> QED BY <1>1, <1>3 DEF first, last, up, down

\* The distance to a pad, seen from its neighbour towards the loader.
LEMMA Neighbour ==
    ASSUME NEW p \in Pad, NEW n \in Nat
    PROVE  /\ p > 0 /\ p < PerChain =>
                (Reaches(p - 1, n + 1) <=> Reaches(p, n)) /\ Away(p - 1, n + 1) = Away(p, n)
           /\ p < Pads - 1 /\ p >= PerChain =>
                (Reaches(p + 1, n + 1) <=> Reaches(p, n)) /\ Away(p + 1, n + 1) = Away(p, n)
           /\ Reaches(p, n) => Away(p, n) \in Pad
BY LoaderAssumption DEF Pad, Pads, Reaches, Away

\* A rising clock takes one bit more into every register.
LEMMA ShiftStep ==
    ASSUME LoaderType, NEW n \in 0..(PerChain - 1), NEW k \in 0..(Width - 1),
           Shifted(n, k), Staged(n, k), taken' = taken,
           \A p \in Pad : serial_data_out[p] = shift_register[p][Width - 1],
           shift_register' = [p \in Pad |-> ShiftIn(shift_register[p], SerialIn(p))]
    PROVE  Shifted(n, k + 1)'
<1>1. PerChain \in Nat /\ PerChain > 0 /\ Width \in Nat /\ Width > 0 /\ Width - 1 \in Bit
  BY LoaderAssumption DEF Bit
<1>2. SUFFICES ASSUME NEW p \in Pad, NEW b \in Bit
      PROVE  /\ b >= k + 1 /\ Reaches(p, n + 1) =>
                  shift_register'[p][b] = taken[Away(p, n + 1)][b - (k + 1)]
             /\ b < k + 1 /\ Reaches(p, n) =>
                  shift_register'[p][b] = taken[Away(p, n)][Width - (k + 1) + b]
  BY DEF Shifted, Reaches, Away
<1>3. shift_register'[p][b] = IF b = 0 THEN SerialIn(p) ELSE shift_register[p][b - 1]
  BY DEF ShiftIn
<1>4. b \in 0..(Width - 1) /\ n \in Nat /\ k \in Nat
  BY <1>1 DEF Bit
<1>5. CASE b # 0
  <2>1. b - 1 \in Bit /\ b - (k + 1) = (b - 1) - k /\ Width - (k + 1) + b = Width - k + (b - 1)
        /\ (b >= k + 1 <=> b - 1 >= k) /\ (b < k + 1 <=> b - 1 < k)
    BY <1>1, <1>4, <1>5 DEF Bit
  <2>2. shift_register'[p][b] = shift_register[p][b - 1]
    BY <1>3, <1>5
  <2>3. /\ b - 1 >= k /\ Reaches(p, n + 1) =>
             shift_register[p][b - 1] = taken[Away(p, n + 1)][(b - 1) - k]
        /\ b - 1 < k /\ Reaches(p, n) =>
             shift_register[p][b - 1] = taken[Away(p, n)][Width - k + (b - 1)]
    BY <2>1 DEF Shifted
  <2> QED BY <2>1, <2>2, <2>3
<1>6. CASE b = 0
  <2>1. ~(b >= k + 1) /\ Width - (k + 1) + b = Width - 1 - k /\ Width - 1 >= k
    BY <1>1, <1>4, <1>6
  <2>2. SUFFICES ASSUME Reaches(p, n) PROVE SerialIn(p) = taken[Away(p, n)][Width - 1 - k]
    BY <1>3, <1>6, <2>1
  <2>3. CASE p = 0
    <3>1. SerialIn(p) = staging[1][Width - 1] /\ Feed(1) = p /\ 1 \in Chain
      BY <2>3, WhereInputsComeFrom DEF SerialData, Feed, Chain
    <3> QED BY <1>1, <2>1, <3>1 DEF Staged
  <2>4. CASE p = Pads - 1
    <3>1. SerialIn(p) = staging[2][Width - 1] /\ Feed(2) = p /\ 2 \in Chain
      BY <2>4, WhereInputsComeFrom DEF SerialData, Feed, Chain
    <3> QED BY <1>1, <2>1, <3>1 DEF Staged
  <2>5. CASE p > 0 /\ p < PerChain
    <3>1. p - 1 \in Pad /\ SerialIn(p) = shift_register[p - 1][Width - 1]
      BY <2>5, WhereInputsComeFrom
    <3>2. Reaches(p - 1, n + 1) /\ Away(p - 1, n + 1) = Away(p, n)
      BY <1>4, <2>2, <2>5, Neighbour
    <3>3. shift_register[p - 1][Width - 1] = taken[Away(p - 1, n + 1)][Width - 1 - k]
      BY <1>1, <2>1, <3>1, <3>2 DEF Shifted
    <3> QED BY <3>1, <3>2, <3>3
  <2>6. CASE p < Pads - 1 /\ p >= PerChain
    <3>1. p + 1 \in Pad /\ SerialIn(p) = shift_register[p + 1][Width - 1]
      BY <2>6, WhereInputsComeFrom
    <3>2. Reaches(p + 1, n + 1) /\ Away(p + 1, n + 1) = Away(p, n)
      BY <1>4, <2>2, <2>6, Neighbour
    <3>3. shift_register[p + 1][Width - 1] = taken[Away(p + 1, n + 1)][Width - 1 - k]
      BY <1>1, <2>1, <3>1, <3>2 DEF Shifted
    <3> QED BY <3>1, <3>2, <3>3
  <2> QED BY <2>3, <2>4, <2>5, <2>6, WhereInputsComeFrom
<1> QED BY <1>5, <1>6

\* After the last bit, what a register holds is whole again.
LEMMA WholeAgain ==
    ASSUME LoaderType', NEW n \in 0..PerChain, Shifted(n, Width)'
    PROVE  Before(n)'
<1>1. PerChain \in Nat /\ Width \in Nat /\ Width > 0 /\ n \in Nat
  BY LoaderAssumption
<1> SUFFICES ASSUME NEW p \in Pad, Reaches(p, n)
             PROVE  shift_register'[p] = taken'[Away(p, n)]
  BY DEF Before, Reaches, Away
<1>2. shift_register'[p] \in Bits /\ taken'[Away(p, n)] \in Bits
  BY <1>1, Neighbour DEF LoaderType
<1>3. \A b \in Bit : b < Width /\ Width - Width + b = b
  BY <1>1 DEF Bit
<1>4. \A b \in Bit : shift_register'[p][b] = taken'[Away(p, n)][b]
  BY <1>3 DEF Shifted, Reaches, Away
<1> QED BY <1>2, <1>4 DEF Bits

-----------------------------------------------------------------------------
(* The clocks of the loader.                                               *)

\* Every bit that goes into a register is one.
LEMMA SerialInType ==
    ASSUME LoaderType, NEW p \in Pad
    PROVE  SerialIn(p) \in {0, 1}
<1>1. Width - 1 \in Bit /\ 1 \in Chain /\ 2 \in Chain
  BY LoaderAssumption DEF Bit, Chain
<1>2. SerialData(1) \in {0, 1} /\ SerialData(2) \in {0, 1}
  BY <1>1 DEF SerialData, LoaderType, Bits
<1>3. \A q \in Pad : serial_data_out[q] \in {0, 1}
  BY DEF LoaderType
<1> QED BY <1>2, <1>3, WhereInputsComeFrom

LEMMA BlocksType ==
    ASSUME LoaderType, ControlBlocks
    PROVE  shift_register' \in [Pad -> Bits] /\ serial_data_out' \in [Pad -> {0, 1}]
<1>1. Width - 1 \in Bit
  BY LoaderAssumption DEF Bit
<1>2. \A p \in Pad : ShiftIn(shift_register[p], SerialIn(p)) \in Bits
  <2> SUFFICES ASSUME NEW p \in Pad, NEW b \in Bit
               PROVE  ShiftIn(shift_register[p], SerialIn(p))[b] \in {0, 1}
    BY DEF ShiftIn, Bits
  <2>1. b # 0 => b - 1 \in Bit
    BY LoaderAssumption DEF Bit
  <2>2. b # 0 => shift_register[p][b - 1] \in {0, 1}
    BY <2>1 DEF LoaderType, Bits
  <2> QED BY <2>2, SerialInType DEF ShiftIn
<1>3. shift_register' \in [Pad -> Bits]
  <2>1. CASE serial_clock = 0 /\ serial_clock' = 1
    BY <1>2, <2>1 DEF ControlBlocks
  <2>2. CASE ~(serial_clock = 0 /\ serial_clock' = 1)
    BY <2>2 DEF ControlBlocks, LoaderType
  <2> QED BY <2>1, <2>2
<1>4. serial_data_out' \in [Pad -> {0, 1}]
  BY <1>1 DEF ControlBlocks, LoaderType, Bits
<1> QED BY <1>3, <1>4

\* A step of the loader keeps the types; the registers are written beside it.
LEMMA LoaderTypeStep ==
    ASSUME LoaderType, ChainInv, LoaderTick, gpio_configure' \in [Pad -> Bits]
    PROVE  LoaderType'
<1> USE LoaderAssumption
<1>1. shift_register' \in [Pad -> Bits] /\ serial_data_out' \in [Pad -> {0, 1}]
  BY BlocksType DEF LoaderTick
<1>2. CASE LoaderIdle
  <2>1. FirstPads \in [Chain -> Int]
    BY DEF FirstPads
  <2> QED BY <1>1, <1>2, <2>1 DEF LoaderIdle, LoaderType
<1>3. CASE LoaderStart
  <2>1. \A c \in Chain : pad_count[c] \in Pad
    BY <1>3 DEF LoaderStart, ChainInv, LoaderType, Unsent, Chain, Pad, Pads
  <2>2. \A c \in Chain : gpio_configure[pad_count[c]] \in Bits
    BY <2>1 DEF LoaderType
  <2>3. staging' \in [Chain -> Bits] /\ taken' \in [Pad -> Bits]
    BY <1>3, <2>2 DEF LoaderStart, LoaderType
  <2>4. pad_count' \in [Chain -> Int]
    BY <1>3 DEF LoaderStart, LoaderType, Chain
  <2> QED BY <1>1, <1>3, <2>3, <2>4 DEF LoaderStart, LoaderType
<1>4. CASE LoaderByte
  <2>1. \A c \in Chain : ShiftIn(staging[c], 0) \in Bits
    <3> SUFFICES ASSUME NEW c \in Chain, NEW b \in Bit
                 PROVE  ShiftIn(staging[c], 0)[b] \in {0, 1}
      BY DEF ShiftIn, Bits
    <3>1. b # 0 => b - 1 \in Bit
      BY DEF Bit
    <3> QED BY <3>1 DEF ShiftIn, LoaderType, Bits
  <2>2. staging' \in [Chain -> Bits]
    BY <1>4, <2>1 DEF LoaderByte, LoaderType
  <2>3. serial_clock' \in {0, 1} /\ xfer_state' \in {"IDLE", "START", "XBYTE", "LOAD"}
    BY <1>4 DEF LoaderByte, LoaderType, AfterPad
  <2> QED BY <1>1, <1>4, <2>2, <2>3 DEF LoaderByte, LoaderType
<1>5. CASE LoaderLoad
  BY <1>1, <1>5 DEF LoaderLoad, LoaderType
<1> QED BY <1>2, <1>3, <1>4, <1>5 DEF LoaderTick

\* The outputs of the blocks follow the falling clock, and nothing else moves while
\* the clock does not rise.
LEMMA BlocksStep ==
    ASSUME LoaderType, ControlBlocks, serial_clock' \in {0, 1},
           serial_clock = 0 => \A p \in Pad : serial_data_out[p] = shift_register[p][Width - 1],
           ~(serial_clock = 0 /\ serial_clock' = 1)
    PROVE  /\ shift_register' = shift_register
           /\ serial_clock' = 0 =>
                \A p \in Pad : serial_data_out'[p] = shift_register'[p][Width - 1]
BY DEF ControlBlocks, LoaderType

\* One clock of the loader and of the blocks of both chains.
LEMMA ChainStep ==
    ASSUME LoaderType, LoaderType', ChainInv, LoaderTick
    PROVE  ChainInv'
<1>0. /\ PerChain \in Nat /\ PerChain > 0 /\ Width \in Nat /\ Width > 0 /\ Pads = 2 * PerChain
      /\ pad_count[1] \in Int /\ pad_count[2] \in Int
      /\ pad_count[1] + pad_count[2] = Pads - 1
      /\ serial_clock \in {0, 1} /\ ControlBlocks
      /\ serial_clock = 0 => \A p \in Pad : serial_data_out[p] = shift_register[p][Width - 1]
  BY LoaderAssumption DEF LoaderType, ChainInv, Chain, Pads, LoaderTick
<1>1. CASE LoaderIdle
  <2>1. pad_count' = FirstPads /\ serial_clock' = 0 /\ xfer_state' \in {"IDLE", "START"}
    BY <1>1 DEF LoaderIdle
  <2>2. pad_count'[1] = PerChain - 1 /\ pad_count'[2] = PerChain
    BY <2>1 DEF FirstPads, Chain
  <2>3. serial_clock' = 0 => \A p \in Pad : serial_data_out'[p] = shift_register'[p][Width - 1]
    BY <1>0, <2>1, BlocksStep
  <2>4. Unsent' = PerChain
    BY <1>0, <2>2 DEF Unsent
  <2>5. \A p \in Pad : ~Reaches(p, PerChain)
    BY <1>0 DEF Reaches, Pad
  <2>6. Before(Unsent)'
    BY <2>4, <2>5 DEF Before, Reaches
  <2> QED BY <1>0, <2>1, <2>2, <2>3, <2>4, <2>6 DEF ChainInv
<1>2. CASE LoaderStart
  <2>1. /\ serial_clock' = 0 /\ xfer_count' = 0 /\ xfer_state' = "XBYTE"
        /\ pad_count'[1] = pad_count[1] - 1 /\ pad_count'[2] = pad_count[2] + 1
        /\ Unsent \in 1..PerChain /\ Before(Unsent)
    BY <1>2 DEF LoaderStart, ChainInv, LoaderType, Chain
  <2>2. /\ shift_register' = shift_register
        /\ serial_clock' = 0 => \A p \in Pad : serial_data_out'[p] = shift_register'[p][Width - 1]
    BY <1>0, <2>1, BlocksStep
  <2>3. Unsent' = Unsent - 1 /\ Unsent' \in 0..(PerChain - 1) /\ Unsent' + 1 = Unsent
        /\ Unsent' = pad_count[1]
    BY <1>0, <2>1 DEF Unsent
  <2>4. \A c \in Chain : Away(Feed(c), Unsent') = pad_count[c] /\ pad_count[c] \in Pad
    <3>1. Away(Feed(1), Unsent') = pad_count[1] /\ pad_count[1] \in Pad
      BY <1>0, <2>3 DEF Away, Feed, Pad
    <3>2. Away(Feed(2), Unsent') = pad_count[2] /\ pad_count[2] \in Pad
      BY <1>0, <2>3 DEF Away, Feed, Pad
    <3> QED BY <3>1, <3>2 DEF Chain
  <2>5. Staged(Unsent, 0)'
    <3>1. \A c \in Chain : staging'[c] = gpio_configure[pad_count[c]]
                            /\ taken'[pad_count[c]] = gpio_configure[pad_count[c]]
      BY <1>2, <2>4 DEF LoaderStart
    <3>2. \A b \in Bit : b - 0 = b
      BY DEF Bit
    <3> QED BY <2>4, <3>1, <3>2 DEF Staged, Away, Feed
  <2>6. Shifted(Unsent, 0)'
    <3>1. \A p \in Pad : Reaches(p, Unsent) => taken'[Away(p, Unsent)] = taken[Away(p, Unsent)]
      <4> SUFFICES ASSUME NEW p \in Pad, Reaches(p, Unsent)
                   PROVE  taken'[Away(p, Unsent)] = taken[Away(p, Unsent)]
        OBVIOUS
      <4>1. Away(p, Unsent) \in Pad
        BY <2>1, Neighbour
      <4>2. \A c \in Chain : Away(p, Unsent) # pad_count[c]
        <5>1. Away(p, Unsent) # pad_count[1] /\ Away(p, Unsent) # pad_count[2]
          BY <1>0, <2>1, <2>3 DEF Away, Reaches, Pad
        <5> QED BY <5>1 DEF Chain
      <4> QED BY <1>2, <4>1, <4>2 DEF LoaderStart
    <3>2. \A b \in Bit : ~(b < 0) /\ b - 0 = b
      BY DEF Bit
    <3>3. ASSUME NEW p \in Pad, NEW b \in Bit, Reaches(p, Unsent)
          PROVE  shift_register'[p][b] = taken'[Away(p, Unsent)][b]
      BY <2>1, <2>2, <3>1, <3>3 DEF Before
    <3> QED BY <2>3, <3>2, <3>3 DEF Shifted, Reaches, Away
  <2> QED BY <1>0, <2>1, <2>2, <2>3, <2>5, <2>6 DEF ChainInv
<1>3. CASE LoaderByte /\ serial_clock = 0
  <2>1. PICK n \in 0..(PerChain - 1), k \in 0..(Width - 1) :
          /\ n = Unsent /\ k = xfer_count /\ Shifted(n, k) /\ Staged(n, k)
    BY <1>3 DEF LoaderByte, ChainInv
  <2>2. /\ serial_clock' = 1 /\ pad_count' = pad_count /\ staging' = staging /\ taken' = taken
        /\ xfer_count' = IF k = Width - 1 THEN 0 ELSE k + 1
        /\ xfer_state' = IF k = Width - 1 THEN AfterPad ELSE "XBYTE"
    BY <1>3, <2>1 DEF LoaderByte, LastBit
  <2>3. shift_register' = [p \in Pad |-> ShiftIn(shift_register[p], SerialIn(p))]
    BY <1>0, <1>3, <2>2 DEF ControlBlocks
  <2>4. Shifted(n, k + 1)' /\ Unsent' = n
    BY <1>0, <1>3, <2>1, <2>2, <2>3, ShiftStep DEF Unsent
  <2>5. CASE k # Width - 1
    <3>1. /\ xfer_state' = "XBYTE" /\ xfer_count' = k + 1
          /\ xfer_count' \in 0..(Width - 1) /\ xfer_count' > 0 /\ xfer_count' - serial_clock' = k
      BY <1>0, <2>1, <2>2, <2>5
    <3>2. Staged(n, k)'
      BY <2>1, <2>2 DEF Staged, Away, Feed
    <3> QED BY <1>0, <2>2, <2>4, <3>1, <3>2 DEF ChainInv
  <2>6. CASE k = Width - 1
    <3>1. Before(n)'
      <4>1. Shifted(n, Width)' /\ n \in 0..PerChain
        BY <1>0, <2>4, <2>6
      <4> QED BY <4>1, WholeAgain
    <3>2. xfer_state' = IF n = 0 THEN "LOAD" ELSE "START"
      BY <1>0, <2>1, <2>2, <2>6 DEF AfterPad, Unsent
    <3>3. xfer_state' = "START" => Unsent' \in 1..PerChain
      BY <1>0, <2>1, <2>4, <3>2
    <3> QED BY <1>0, <2>2, <2>4, <3>1, <3>2, <3>3 DEF ChainInv
  <2> QED BY <2>5, <2>6
<1>4. CASE LoaderByte /\ serial_clock = 1
  <2>1. PICK n \in 0..(PerChain - 1), k \in 0..(Width - 1) :
          /\ n = Unsent /\ k = xfer_count /\ k > 0 /\ Shifted(n, k) /\ Staged(n, k - 1)
    BY <1>4 DEF LoaderByte, ChainInv
  <2>2. /\ serial_clock' = 0 /\ pad_count' = pad_count /\ taken' = taken
        /\ staging' = [c \in Chain |-> ShiftIn(staging[c], 0)]
        /\ xfer_count' = k /\ xfer_state' = "XBYTE" /\ Unsent' = n
    BY <1>4, <2>1 DEF LoaderByte, Unsent
  <2>3. /\ shift_register' = shift_register
        /\ serial_clock' = 0 => \A p \in Pad : serial_data_out'[p] = shift_register'[p][Width - 1]
    BY <1>0, <2>2, BlocksStep
  <2>4. Shifted(n, k)'
    BY <2>1, <2>2, <2>3 DEF Shifted, Reaches, Away
  <2>5. Staged(n, k)'
    <3> SUFFICES ASSUME NEW c \in Chain, NEW b \in Bit, b >= k
                 PROVE  staging'[c][b] = taken[Away(Feed(c), n)][b - k]
      BY <2>2 DEF Staged, Away, Feed
    <3>1. b # 0 /\ b - 1 \in Bit /\ b - 1 >= k - 1 /\ (b - 1) - (k - 1) = b - k
      BY <1>0, <2>1 DEF Bit
    <3>2. staging'[c][b] = staging[c][b - 1]
      BY <2>2, <3>1 DEF ShiftIn
    <3> QED BY <2>1, <3>1, <3>2 DEF Staged
  <2> QED BY <1>0, <2>1, <2>2, <2>3, <2>4, <2>5 DEF ChainInv
<1>5. CASE LoaderLoad
  <2>1. /\ serial_clock' = 0 /\ xfer_state = "LOAD" /\ xfer_state' \in {"IDLE", "LOAD"}
        /\ pad_count' = pad_count /\ taken' = taken /\ Unsent = 0 /\ Before(0)
    BY <1>5 DEF LoaderLoad, ChainInv
  <2>2. /\ shift_register' = shift_register
        /\ serial_clock' = 0 => \A p \in Pad : serial_data_out'[p] = shift_register'[p][Width - 1]
    BY <1>0, <2>1, BlocksStep
  <2>3. Before(0)' /\ Unsent' = 0
    BY <2>1, <2>2 DEF Before, Unsent, Reaches, Away
  <2> QED BY <1>0, <2>1, <2>2, <2>3 DEF ChainInv
<1> QED BY <1>0, <1>1, <1>2, <1>3, <1>4, <1>5 DEF LoaderTick

-----------------------------------------------------------------------------
(* The program beside the loader.                                          *)

\* What the program stores to a pad's register is a mode.
LEMMA AskStep ==
    ASSUME AskInv, gpio_configure \in [Pad -> Bits], [Next]_allVars
    PROVE  AskInv' /\ gpio_configure' \in [Pad -> Bits]
<1> USE HousekeepingAssumption, LoaderAssumption
<1>1. CASE Tick
  <2>1. access' \in Accesses /\ UNCHANGED mainVars
    BY <1>1 DEF Tick, DoorIdle, DoorSetup, DoorReadWrite, DoorDone, AskInv, Accesses
  <2>2. AskInv'
    BY <2>1 DEF AskInv, mainVars
  <2>3. gpio_configure' = gpio_configure \/ DoorReadWrite
    BY <1>1 DEF Tick, DoorIdle, DoorSetup, DoorDone, registers
  <2>4. ASSUME DoorReadWrite PROVE gpio_configure' \in [Pad -> Bits]
    <3>1. CASE ~Storing("reg_mprj_io")
      BY <2>4, <3>1 DEF DoorReadWrite, WriteByte
    <3>2. CASE Storing("reg_mprj_io")
      <4>1. access.pad \in Pad /\ access.data \in [Bit -> {0, 1}]
        BY <3>2, StoreOf DEF AskInv
      <4>2. gpio_configure' =
              [gpio_configure EXCEPT ![access.pad] = ConfigureByte(@, access.data)]
        BY <2>4, <3>2 DEF DoorReadWrite, WriteByte
      <4> QED BY <4>1, <4>2 DEF ConfigureByte, Bits
    <3> QED BY <3>1, <3>2
  <2> QED BY <2>2, <2>3, <2>4
<1>2. CASE Main
  <2>1. gpio_configure' = gpio_configure
    BY <1>2 DEF Main, ConfigurePad, Transfer, Poll, Test, Report, Issue, vars, registers
  <2>2. ASSUME ConfigurePad PROVE AskInv'
    <3>1. PICK m \in Modes :
            Issue(StoreIo(left - 1, m), IF left = 1 THEN "xfer" ELSE "io", left - 1)
      BY <2>2 DEF ConfigurePad
    <3>2. left \in 1..StoredPads
      BY <2>2 DEF ConfigurePad, AskInv
    <3>3. access' = StoreIo(left - 1, m) /\ left' = left - 1
          /\ pc' = IF left = 1 THEN "xfer" ELSE "io"
      BY <3>1 DEF Issue
    <3>4. left - 1 \in 0..(StoredPads - 1)
      BY <3>2
    <3>5. access' \in Accesses
      BY <3>3, <3>4 DEF Accesses
    <3> QED BY <3>2, <3>3, <3>5 DEF AskInv
  <2>3. ASSUME Transfer \/ Poll PROVE AskInv'
    BY <2>3 DEF Transfer, Poll, Issue, AskInv, Accesses
  <2>4. ASSUME Report PROVE AskInv'
    <3>1. PICK w \in Word : Issue(StoreData(w), "data", left - 1)
      BY <2>4 DEF Report
    <3>2. access' = StoreData(w) /\ left' = left - 1 /\ pc' = "data" /\ left > 0
      BY <2>4, <3>1 DEF Report, Issue
    <3> QED BY <3>2 DEF AskInv, Accesses
  <2>5. ASSUME Test PROVE AskInv'
    BY <2>5 DEF Test, AskInv, doorVars
  <2> QED BY <1>2, <2>1, <2>2, <2>3, <2>4, <2>5 DEF Main
<1>3. CASE FrontDoor \/ UNCHANGED allVars
  BY <1>3 DEF FrontDoor, allVars, vars, registers, doorVars, mainVars, AskInv
<1> QED BY <1>1, <1>2, <1>3 DEF Next

PadsInv == AskInv /\ LoaderType /\ ChainInv

LEMMA PadsInit == Init => PadsInv
<1> SUFFICES ASSUME Init PROVE PadsInv
  OBVIOUS
<1> USE HousekeepingAssumption, LoaderAssumption
<1>1. AskInv
  BY DEF Init, AskInv, Accesses
<1>2. Zero \in Bits /\ Width - 1 \in Bit /\ Default \in Bits
  BY DEF Zero, Bits, Bit
<1>3. FirstPads \in [Chain -> Int] /\ FirstPads[1] + FirstPads[2] = Pads - 1
  BY DEF FirstPads, Chain, Pads
<1>4. LoaderType
  BY <1>2, <1>3 DEF Init, LoaderInit, LoaderType
<1>5. ChainInv
  BY <1>2, <1>3 DEF Init, LoaderInit, ChainInv, Zero
<1> QED BY <1>1, <1>4, <1>5 DEF PadsInv

LEMMA PadsNext == PadsInv /\ [Next]_allVars => PadsInv'
<1> SUFFICES ASSUME PadsInv, [Next]_allVars PROVE PadsInv'
  OBVIOUS
<1>1. AskInv' /\ gpio_configure' \in [Pad -> Bits]
  BY AskStep DEF PadsInv, LoaderType
<1>2. CASE LoaderTick
  BY <1>1, <1>2, LoaderTypeStep, ChainStep DEF PadsInv
<1>3. CASE UNCHANGED <<loaderVars, padVars>>
  BY <1>1, <1>3 DEF PadsInv, LoaderType, ChainInv, loaderVars, padVars,
                    Unsent, Before, Shifted, Staged, Reaches, Away, Feed
<1>4. LoaderTick \/ UNCHANGED <<loaderVars, padVars>>
  BY DEF Next, Tick, Main, FrontDoor, ConfigurePad, Transfer, Poll, Test, Report, Issue,
         allVars, vars
<1> QED BY <1>2, <1>3, <1>4

\* housekeeping.v, gpio_control_block.v and caravel.v's two chains, of any length and
\* with configurations of any width: when the load strobe comes, every pad takes the
\* mode its own register held when it was sent.
THEOREM PadsCorrect == Spec => PadsTakeTheirModes
<1>1. PadsInv /\ [Next]_allVars => [mode' # mode => mode' = taken]_allVars
  <2> SUFFICES ASSUME PadsInv, [Next]_allVars, mode' # mode PROVE mode' = taken
    OBVIOUS
  <2>1. LoaderTick
    BY DEF Next, Tick, Main, FrontDoor, ConfigurePad, Transfer, Poll, Test, Report, Issue,
           allVars, vars, padVars
  <2>2. serial_load' = 1 /\ mode' = shift_register
    BY <2>1 DEF LoaderTick, ControlBlocks
  <2>3. LoaderLoad
    BY <2>1, <2>2 DEF LoaderTick, LoaderIdle, LoaderStart, LoaderByte
  <2>4. Before(0) /\ LoaderType
    BY <2>3 DEF LoaderLoad, PadsInv, ChainInv
  <2>5. \A p \in Pad : Reaches(p, 0) /\ Away(p, 0) = p
    BY LoaderAssumption DEF Reaches, Away, Pad, Pads
  <2>6. shift_register = taken
    BY <2>4, <2>5 DEF Before, LoaderType
  <2> QED BY <2>2, <2>6
<1> QED BY PadsInit, PadsNext, <1>1, PTL DEF Spec, PadsTakeTheirModes
==============================================================================
