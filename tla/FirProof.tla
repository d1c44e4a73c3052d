------------------------------- MODULE FirProof -------------------------------
(***************************************************************************)
(* Theorems about FirStream, for every number of coefficients, every set   *)
(* of data words, every master within its contract and every length of a   *)
(* run: its types, the invariant of FirInvariant and the properties that   *)
(* follow from it, and that the clocked engine implements FirSpec.  One    *)
(* lemma per action of the engine in each part.                            *)
(***************************************************************************)
EXTENDS FirRefinement, FirInvariant, SequenceTheorems, TLAPS

-----------------------------------------------------------------------------
(* The type invariant: every set of words, every master.                   *)

\* The input ports carry words, addresses and bits.
LEMMA PortTypes ==
  ASSUME NEW in \in Ports
  PROVE  /\ in.wdata \in Word /\ in.ss_tdata \in Word /\ in.ss_tlast \in BOOLEAN
         /\ in.awaddr \in Addr /\ in.araddr \in Addr
BY Zenon DEF Ports

\* The address arithmetic of the engine stays within 12 bits.
LEMMA AddrWraps ==
  \A a \in Addr : /\ (a + 1) % AddrSpace \in Addr
                  /\ (a - 1) % AddrSpace \in Addr
                  /\ (a - 32) % AddrSpace \in Addr
<1>1. \A a \in Addr : (a + 1) % AddrSpace \in Addr
  BY SMT DEF Addr, AddrSpace
<1>2. \A a \in Addr : (a - 1) % AddrSpace \in Addr
  BY SMT DEF Addr, AddrSpace
<1>3. \A a \in Addr : (a - 32) % AddrSpace \in Addr
  BY SMT DEF Addr, AddrSpace
<1> QED
  BY <1>1, <1>2, <1>3

\* The constants the engine loads into an address register are addresses.
LEMMA AddrConstants ==
  /\ 0 \in Addr /\ AddrSpace - 1 \in Addr /\ Slot \cup {NoSlot} \subseteq Addr
  /\ LastSlot \in Addr
BY TapNumAssumption, SMT DEF Addr, AddrSpace, Slot, NoSlot, LastSlot

\* The counters stay within 4 bits, the ring pointer within the ring, and the
\* limit of the products below the number of coefficients.
LEMMA CounterWraps ==
  /\ \A c \in 0..15 : (c + 1) % 16 \in 0..15 /\ (c + 1) % 4 \in 0..15
  /\ \A r \in Slot \cup {NoSlot} :
       (IF r = LastSlot THEN 0 ELSE (r + 1) % 16) \in Slot
  /\ \A c \in 1..LastSlot : (IF c = LastSlot THEN c ELSE (c + 1) % 16) \in 1..LastSlot
BY TapNumAssumption, SMT DEF Slot, NoSlot, LastSlot

\* The words the engine produces itself are words.
LEMMA WordTypes ==
  /\ {0, 1, 2, 4} \subseteq FirWord /\ Word \subseteq FirWord /\ X \in FirWord
  /\ 0 \in Word
BY WordAssumption, Zenon DEF FirWord

-----------------------------------------------------------------------------
\* What every edge loads: the RAMs, their output registers, the multiplier.
LEMMA EdgeTypes ==
  ASSUME TypeOK, NEW in \in Ports, EveryEdge(in)
  PROVE  /\ tapRAM' \in [Slot -> FirWord] /\ dataRAM' \in [Slot -> FirWord]
         /\ tap_Do' \in FirWord /\ data_Do' \in FirWord
         /\ temp_r' \in Product /\ wready_r' \in BOOLEAN /\ last_r' \in BOOLEAN
<1>1. tapRAM' \in [Slot -> FirWord] /\ dataRAM' \in [Slot -> FirWord]
  BY WordTypes DEF EveryEdge, TypeOK, RamStore
<1>2. tap_Do' \in FirWord /\ data_Do' \in FirWord
  BY WordTypes DEF EveryEdge, TypeOK, RamOut
<1>3. temp_r' \in Product
  BY PortTypes, WordTypes DEF EveryEdge, TypeOK, Product
<1>4. wready_r' \in BOOLEAN /\ last_r' \in BOOLEAN
  BY PortTypes DEF EveryEdge, TypeOK, NextLast
<1> QED
  BY <1>1, <1>2, <1>3, <1>4

\* The observers stay sequences.
LEMMA ObserverTypes ==
  ASSUME TypeOK, NEW in \in Ports, Observe(in), sm_tdata_r' \in Seq(Product)
  PROVE  xs' \in Seq(Word) /\ ys' \in Seq(Seq(Product)) /\ ended' \in BOOLEAN
<1>1. xs \in Seq(Word) /\ ys \in Seq(Seq(Product)) /\ ended \in BOOLEAN
  BY DEF TypeOK
<1>2. xs' = <<>> \/ xs' = xs \/ xs' = Append(xs, in.ss_tdata)
  BY DEF Observe
<1>3. ys' = <<>> \/ ys' = ys \/ ys' = Append(ys, sm_tdata_r')
  BY DEF Observe
<1>4. xs' \in Seq(Word)
  <2>1. in.ss_tdata \in Word
    BY PortTypes
  <2>2. Append(xs, in.ss_tdata) \in Seq(Word) /\ <<>> \in Seq(Word)
    BY <1>1, <2>1
  <2> QED
    BY <1>1, <1>2, <2>2, Zenon
<1>5. ys' \in Seq(Seq(Product))
  <2>1. Append(ys, sm_tdata_r') \in Seq(Seq(Product)) /\ <<>> \in Seq(Seq(Product))
    BY <1>1
  <2> QED
    BY <1>1, <1>3, <2>1, Zenon
<1>6. ended' \in BOOLEAN
  BY <1>1, PortTypes DEF Observe
<1> QED
  BY <1>4, <1>5, <1>6

\* The registers no edge loads in the same way in every state.
RegisterTypes ==
    /\ ps \in {"IDLE", "START", "DONE", "PEND", "FINISH"}
    /\ tap_WE_r \in BOOLEAN /\ tap_EN_r \in BOOLEAN
    /\ tap_Di_r \in Word /\ tap_A_r \in Addr
    /\ data_WE_r \in BOOLEAN /\ data_EN_r \in BOOLEAN
    /\ data_Di_r \in Word /\ data_A_r \in Addr
    /\ r_dataAddr_r \in Slot \cup {NoSlot}
    /\ rvalid_r \in BOOLEAN /\ rdata_r \in FirWord
    /\ cnt_r \in 0..15 /\ round_cnt_r \in 1..LastSlot
    /\ accumulater_r \in Seq(Product) /\ sm_tdata_r \in Seq(Product)
    /\ sm_tvalid_r \in BOOLEAN /\ sm_tlast_r \in BOOLEAN

\* The steps of IDLE keep the types of the registers.
LEMMA IdleTypes ==
  ASSUME TypeOK, NEW in \in Ports, InIdle(in),
         StartRun(in) \/ ReadCoefficient(in) \/ WriteCoefficient(in) \/ StayIdle(in)
  PROVE  RegisterTypes'
<1>1. tap_WE_r' \in BOOLEAN /\ tap_EN_r' \in BOOLEAN
  BY Zenon DEF StartRun, ReadCoefficient, WriteCoefficient, StayIdle, RewindTapPort, TapPort
<1>2. tap_Di_r' \in Word
  BY PortTypes, Zenon
     DEF StartRun, ReadCoefficient, WriteCoefficient, StayIdle, RewindTapPort, TapPort, TypeOK
<1>3. tap_A_r' \in Addr
  <2>1. CASE StartRun(in)
    BY <2>1, AddrConstants, Zenon DEF StartRun, RewindTapPort, TapPort
  <2>2. CASE ReadCoefficient(in)
    BY <2>2, PortTypes, AddrWraps, Zenon DEF ReadCoefficient, TapPort
  <2>3. CASE WriteCoefficient(in)
    BY <2>3, AddrWraps, Zenon DEF WriteCoefficient, TapPort, TypeOK
  <2>4. CASE StayIdle(in)
    BY <2>4, Zenon DEF StayIdle, TapPort, TypeOK
  <2> QED
    BY <2>1, <2>2, <2>3, <2>4
<1>4. ps' = "IDLE" \/ ps' = "PEND"
  BY DEF StartRun, ReadCoefficient, WriteCoefficient, StayIdle
<1>5. rvalid_r' \in BOOLEAN /\ rdata_r' \in FirWord
  BY WordTypes, Zenon DEF InIdle, Respond, NoResponse, TypeOK
<1>6. cnt_r' \in 0..15
  BY DEF InIdle, TypeOK
<1>7. UNCHANGED <<dataPort, r_dataAddr_r, round_cnt_r, accumulater_r>> /\ NoOutput
  BY DEF InIdle
<1> QED
  BY <1>1, <1>2, <1>3, <1>4, <1>5, <1>6, <1>7, Zenon
     DEF NoOutput, dataPort, TypeOK, RegisterTypes

\* The steps of PEND keep the types of the registers.
LEMMA PendTypes ==
  ASSUME TypeOK, NEW in \in Ports, InPend(in), AcceptSample(in) \/ AwaitSample(in)
  PROVE  RegisterTypes'
<1>1. tap_A_r' \in Addr
  BY AddrWraps, Zenon DEF AcceptSample, AwaitSample, TypeOK
<1>2. ps' = "START" \/ ps' = "PEND"
  BY DEF AcceptSample, AwaitSample, InPend
<1>3. data_A_r' \in Addr /\ r_dataAddr_r' = r_dataAddr_r
  BY AddrConstants, Zenon DEF InPend, DataPort, TypeOK
<1>4. cnt_r' \in 0..15
  BY DEF InPend
<1>5. data_WE_r' \in BOOLEAN /\ data_EN_r' \in BOOLEAN /\ data_Di_r' \in Word
  BY Zenon DEF InPend, DataPort, TypeOK
<1>6. rvalid_r' \in BOOLEAN /\ rdata_r' \in FirWord
  BY WordTypes, Zenon DEF InPend, NoResponse
<1>7. /\ NoOutput
      /\ UNCHANGED <<tap_WE_r, tap_EN_r, tap_Di_r, round_cnt_r, accumulater_r>>
  BY DEF InPend
<1> QED
  BY <1>1, <1>2, <1>3, <1>4, <1>5, <1>6, <1>7, Zenon DEF NoOutput, TypeOK, RegisterTypes

\* The steps of START keep the types of the registers.
LEMMA StartTypes ==
  ASSUME TypeOK, NEW in \in Ports, InStart(in), Multiply(in) \/ EndRound(in)
  PROVE  RegisterTypes'
<1>1. accumulater_r' \in Seq(Product)
  BY DEF InStart, Accumulate, TypeOK
<1>2. data_A_r' \in Addr
  BY AddrWraps, AddrConstants, Zenon DEF InStart, DataPort, PrevAddr, TypeOK
<1>3. data_WE_r' \in BOOLEAN /\ data_EN_r' \in BOOLEAN /\ data_Di_r' \in Word
  BY Zenon DEF InStart, DataPort, TypeOK
<1>4. rvalid_r' \in BOOLEAN /\ rdata_r' \in FirWord
  BY WordTypes, Zenon DEF InStart, Respond, NoResponse
<1>5. r_dataAddr_r' \in Slot \cup {NoSlot}
  BY CounterWraps, Zenon DEF Multiply, EndRound, NextSlot, TypeOK
<1>6. cnt_r' \in 0..15
  <2>1. 0 \in 0..15
    OBVIOUS
  <2> QED
    BY <2>1, CounterWraps, Zenon DEF Multiply, EndRound, NextCnt, TypeOK
<1>7. tap_A_r' \in Addr
  BY AddrWraps, AddrConstants, Zenon DEF Multiply, EndRound, TypeOK
<1>8. ps' = "START" \/ ps' = "DONE"
  BY DEF Multiply, EndRound, InStart
<1>9. NoOutput /\ UNCHANGED <<tap_WE_r, tap_EN_r, tap_Di_r, round_cnt_r>>
  BY DEF InStart
<1> QED
  BY <1>1, <1>2, <1>3, <1>4, <1>5, <1>6, <1>7, <1>8, <1>9, Zenon
     DEF NoOutput, TypeOK, RegisterTypes

\* The step of DONE keeps the types of the registers.
LEMMA EmitTypes ==
  ASSUME TypeOK, NEW in \in Ports, EmitSum(in)
  PROVE  RegisterTypes'
<1>1. ps' = "FINISH" \/ ps' = "PEND"
  BY DEF EmitSum
<1>2. data_A_r' \in Addr /\ r_dataAddr_r' = r_dataAddr_r
  BY AddrConstants, Zenon DEF EmitSum, DataPort, TypeOK
<1>3. data_WE_r' \in BOOLEAN /\ data_EN_r' \in BOOLEAN /\ data_Di_r' \in Word
  BY PortTypes, Zenon DEF EmitSum, DataPort
<1>4. cnt_r' \in 0..15 /\ accumulater_r' \in Seq(Product)
  BY DEF EmitSum
<1>5. round_cnt_r' \in 1..LastSlot
  BY CounterWraps, Zenon DEF EmitSum, NextLimit, TypeOK
<1>6. sm_tvalid_r' \in BOOLEAN /\ sm_tlast_r' \in BOOLEAN /\ sm_tdata_r' \in Seq(Product)
  BY Zenon DEF EmitSum, TypeOK
<1>7. rvalid_r' \in BOOLEAN /\ rdata_r' \in FirWord
  BY WordTypes, Zenon DEF EmitSum, NoResponse
<1>8. UNCHANGED tapPort
  BY DEF EmitSum
<1> QED
  BY <1>1, <1>2, <1>3, <1>4, <1>5, <1>6, <1>7, <1>8, Zenon
     DEF tapPort, TypeOK, RegisterTypes

\* The steps of FINISH keep the types of the registers.
LEMMA FinishTypes ==
  ASSUME TypeOK, NEW in \in Ports, InFinish(in),
         AwaitStatusRead(in) \/ ReportFinishing(in) \/ ReportDone(in)
  PROVE  RegisterTypes'
<1>1. ps' = "FINISH" \/ ps' = "IDLE"
  BY DEF AwaitStatusRead, ReportFinishing, ReportDone, InFinish
<1>2. rvalid_r' \in BOOLEAN /\ rdata_r' \in FirWord
  BY WordTypes, Zenon DEF AwaitStatusRead, ReportFinishing, ReportDone, Respond, NoResponse
<1>3. cnt_r' \in 0..15
  BY CounterWraps, Zenon DEF InFinish, NextCnt, TypeOK
<1>4. r_dataAddr_r' \in Slot \cup {NoSlot} /\ round_cnt_r' \in 1..LastSlot
  BY TapNumAssumption DEF InFinish, LastSlot
<1>5. NoOutput /\ UNCHANGED <<tapPort, dataPort, accumulater_r>>
  BY DEF InFinish
<1> QED
  BY <1>1, <1>2, <1>3, <1>4, <1>5, Zenon
     DEF NoOutput, tapPort, dataPort, TypeOK, RegisterTypes

\* So does every clock edge, for all variables.
LEMMA TypeClock ==
  ASSUME TypeOK, NEW in \in Ports, Clock(in), Observe(in)
  PROVE  TypeOK'
<1>1. EveryEdge(in)
  BY DEF Clock, StartRun, ReadCoefficient, WriteCoefficient, StayIdle, InIdle,
         AcceptSample, AwaitSample, InPend, Multiply, EndRound, InStart, EmitSum,
         AwaitStatusRead, ReportFinishing, ReportDone, InFinish
<1>2. RegisterTypes'
  <2>1. CASE StartRun(in) \/ ReadCoefficient(in) \/ WriteCoefficient(in) \/ StayIdle(in)
    BY <2>1, IdleTypes, Zenon DEF StartRun, ReadCoefficient, WriteCoefficient, StayIdle
  <2>2. CASE AcceptSample(in) \/ AwaitSample(in)
    BY <2>2, PendTypes, Zenon DEF AcceptSample, AwaitSample
  <2>3. CASE Multiply(in) \/ EndRound(in)
    BY <2>3, StartTypes, Zenon DEF Multiply, EndRound
  <2>4. CASE EmitSum(in)
    BY <2>4, EmitTypes, Zenon
  <2>5. CASE AwaitStatusRead(in) \/ ReportFinishing(in) \/ ReportDone(in)
    BY <2>5, FinishTypes, Zenon DEF AwaitStatusRead, ReportFinishing, ReportDone
  <2> QED
    BY <2>1, <2>2, <2>3, <2>4, <2>5, Zenon DEF Clock
<1>3. sm_tdata_r' \in Seq(Product)
  BY <1>2, Zenon DEF RegisterTypes
<1> QED
  BY <1>1, <1>2, <1>3, EdgeTypes, ObserverTypes, Zenon DEF TypeOK, RegisterTypes

\* A reset establishes the types.
LEMMA TypeReset == ASSUME TypeOK, Reset PROVE TypeOK'
<1>1. /\ ps' = "IDLE" /\ xs' \in Seq(Word) /\ ys' \in Seq(Seq(Product))
      /\ accumulater_r' \in Seq(Product) /\ sm_tdata_r' \in Seq(Product)
  BY DEF Reset, FirReset
<1>2. /\ wready_r' \in BOOLEAN /\ last_r' \in BOOLEAN /\ ended' \in BOOLEAN
      /\ sm_tvalid_r' \in BOOLEAN /\ sm_tlast_r' \in BOOLEAN /\ rvalid_r' \in BOOLEAN
      /\ tap_WE_r' \in BOOLEAN /\ tap_EN_r' \in BOOLEAN
      /\ data_WE_r' \in BOOLEAN /\ data_EN_r' \in BOOLEAN
  BY Zenon DEF Reset, FirReset, TapPort, DataPort, NoResponse
<1>3. /\ tap_Di_r' \in Word /\ tap_A_r' \in Addr /\ data_Di_r' \in Word /\ data_A_r' \in Addr
      /\ rdata_r' \in FirWord /\ tap_Do' \in FirWord /\ data_Do' \in FirWord
      /\ r_dataAddr_r' \in Slot \cup {NoSlot}
  BY WordTypes, AddrConstants, Zenon DEF Reset, FirReset, TapPort, DataPort, NoResponse
<1>4. cnt_r' \in 0..15 /\ round_cnt_r' \in 1..LastSlot
  BY TapNumAssumption DEF Reset, FirReset, LastSlot
<1>5. temp_r' \in Product
  BY WordTypes DEF Reset, FirReset, Product
<1>6. UNCHANGED <<tapRAM, dataRAM>>
  BY DEF Reset, FirReset
<1> QED
  BY <1>1, <1>2, <1>3, <1>4, <1>5, <1>6, Zenon DEF TypeOK

\* The types hold at power-up.
LEMMA TypeInit == StreamInit => TypeOK
<1> SUFFICES ASSUME StreamInit PROVE TypeOK
  OBVIOUS
<1>1. /\ ps = "IDLE" /\ xs \in Seq(Word) /\ ys \in Seq(Seq(Product))
      /\ accumulater_r \in Seq(Product) /\ sm_tdata_r \in Seq(Product)
  BY DEF StreamInit, PowerUp
<1>2. /\ wready_r \in BOOLEAN /\ last_r \in BOOLEAN /\ ended \in BOOLEAN
      /\ sm_tvalid_r \in BOOLEAN /\ sm_tlast_r \in BOOLEAN /\ rvalid_r \in BOOLEAN
      /\ tap_WE_r \in BOOLEAN /\ tap_EN_r \in BOOLEAN
      /\ data_WE_r \in BOOLEAN /\ data_EN_r \in BOOLEAN
  BY Zenon DEF StreamInit, PowerUp
<1>3. /\ tap_Di_r \in Word /\ tap_A_r \in Addr /\ data_Di_r \in Word /\ data_A_r \in Addr
      /\ rdata_r \in FirWord /\ tap_Do \in FirWord /\ data_Do \in FirWord
      /\ r_dataAddr_r \in Slot \cup {NoSlot}
  BY WordTypes, AddrConstants, Zenon DEF StreamInit, PowerUp
<1>4. cnt_r \in 0..15 /\ round_cnt_r \in 1..LastSlot
  BY TapNumAssumption DEF StreamInit, PowerUp, LastSlot
<1>5. temp_r \in Product
  BY WordTypes DEF StreamInit, PowerUp, Product
<1>6. tapRAM \in [Slot -> FirWord] /\ dataRAM \in [Slot -> FirWord]
  BY WordTypes DEF StreamInit, PowerUp
<1> QED
  BY <1>1, <1>2, <1>3, <1>4, <1>5, <1>6, Zenon DEF TypeOK

\* The types do not depend on anything but the variables.
LEMMA TypeStutter == ASSUME TypeOK, UNCHANGED streamVars PROVE TypeOK'
<1>1. UNCHANGED firVars /\ xs' = xs /\ ys' = ys /\ ended' = ended
  BY DEF streamVars
<1>2. /\ ps' = ps /\ wready_r' = wready_r /\ r_dataAddr_r' = r_dataAddr_r
      /\ rvalid_r' = rvalid_r /\ rdata_r' = rdata_r /\ cnt_r' = cnt_r
      /\ round_cnt_r' = round_cnt_r
  BY <1>1 DEF firVars
<1>3. /\ temp_r' = temp_r /\ accumulater_r' = accumulater_r
      /\ sm_tvalid_r' = sm_tvalid_r /\ sm_tdata_r' = sm_tdata_r
      /\ sm_tlast_r' = sm_tlast_r /\ last_r' = last_r
  BY <1>1 DEF firVars
<1>4. /\ tap_WE_r' = tap_WE_r /\ tap_EN_r' = tap_EN_r /\ tap_Di_r' = tap_Di_r
      /\ tap_A_r' = tap_A_r
  BY <1>1 DEF firVars, tapPort
<1>5. /\ data_WE_r' = data_WE_r /\ data_EN_r' = data_EN_r /\ data_Di_r' = data_Di_r
      /\ data_A_r' = data_A_r
  BY <1>1 DEF firVars, dataPort
<1>6. /\ tapRAM' = tapRAM /\ tap_Do' = tap_Do /\ dataRAM' = dataRAM
      /\ data_Do' = data_Do
  BY <1>1 DEF firVars, ramVars
<1>7. RegisterTypes'
  BY <1>2, <1>3, <1>4, <1>5, Zenon DEF TypeOK, RegisterTypes
<1>8. wready_r' \in BOOLEAN /\ last_r' \in BOOLEAN /\ temp_r' \in Product /\ ended' \in BOOLEAN
  BY <1>1, <1>2, <1>3, Zenon DEF TypeOK
<1>9. xs' \in Seq(Word) /\ ys' \in Seq(Seq(Product))
  BY <1>1, Zenon DEF TypeOK
<1>10. /\ tapRAM' \in [Slot -> FirWord] /\ dataRAM' \in [Slot -> FirWord]
       /\ tap_Do' \in FirWord /\ data_Do' \in FirWord
  BY <1>6, Zenon DEF TypeOK
<1> QED
  BY <1>7, <1>8, <1>9, <1>10, Zenon DEF TypeOK, RegisterTypes

\* Every register keeps its width, every address and counter its range, and
\* the engine one of its five states, whatever a master within its contract
\* does and whenever the engine is reset.
THEOREM TypeCorrect == StreamSpec => []TypeOK
<1>1. TypeOK /\ [StreamNext]_streamVars => TypeOK'
  <2>1. ASSUME TypeOK, Tick PROVE TypeOK'
    BY <2>1, InputsAssumption, TypeClock, Zenon DEF Tick
  <2> QED
    BY <2>1, TypeReset, TypeStutter DEF StreamNext
<1> QED
  BY <1>1, TypeInit, PTL DEF StreamSpec

-----------------------------------------------------------------------------
(* The invariant is inductive, and the properties of FirStream follow.     *)

\* What an edge does to the RAMs and to their output registers.
LEMMA RamEdge ==
  ASSUME TypeOK, NEW in \in Ports, EveryEdge(in)
  PROVE  /\ ~tap_WE_r => tapRAM' = tapRAM
         /\ ~data_WE_r => dataRAM' = dataRAM
         /\ (data_WE_r => data_EN_r) => \A s \in Slot : dataRAM'[s] = Settled(s)
         /\ data_EN_r /\ data_A_r \in Slot => data_Do' = dataRAM[data_A_r]
         /\ tap_EN_r /\ tap_A_r \in Slot => tap_Do' = tapRAM[tap_A_r]
<1>1. tapRAM \in [Slot -> FirWord] /\ dataRAM \in [Slot -> FirWord]
  BY DEF TypeOK
<1>2. ~tap_WE_r => tapRAM' = tapRAM
  BY Zenon DEF EveryEdge, RamStore
<1>3. ~data_WE_r => dataRAM' = dataRAM
  BY Zenon DEF EveryEdge, RamStore
<1>4. (data_WE_r => data_EN_r) => \A s \in Slot : dataRAM'[s] = Settled(s)
  BY <1>1 DEF EveryEdge, RamStore, Settled
<1>5. data_EN_r /\ data_A_r \in Slot => data_Do' = dataRAM[data_A_r]
  BY <1>1 DEF EveryEdge, RamOut
<1>6. tap_EN_r /\ tap_A_r \in Slot => tap_Do' = tapRAM[tap_A_r]
  BY <1>1 DEF EveryEdge, RamOut
<1> QED
  BY <1>2, <1>3, <1>4, <1>5, <1>6

\* The ring: Back stays in it, begins at the slot itself and does not return
\* to it within TapNum - 1 places.
LEMMA BackTypes ==
  /\ \A p, d \in Slot : Back(p, d) \in Slot
  /\ \A p \in Slot : Back(p, 0) = p
  /\ \A p \in Slot : \A d \in 1..LastSlot : Back(p, d) # p
BY TapNumAssumption, SMT DEF Back, Slot, LastSlot

\* One place back from the next slot is the slot itself.
LEMMA BackNext ==
  \A p \in Slot : \A d \in 1..LastSlot :
    Back(IF p = LastSlot THEN 0 ELSE (p + 1) % 16, d) = Back(p, d - 1)
<1>1. \A p \in Slot : p # LastSlot => (p + 1) % 16 = p + 1
  BY TapNumAssumption, SMT DEF Slot, LastSlot
<1> QED
  BY <1>1, TapNumAssumption, SMT DEF Back, Slot, LastSlot

\* The address fir.v reads next is one place further back.
LEMMA BackPrev ==
  \A p \in Slot : \A d \in 0..(LastSlot - 1) :
    (IF Back(p, d) = 0 THEN LastSlot ELSE (Back(p, d) - 1) % AddrSpace) = Back(p, d + 1)
<1>1. \A a \in Slot : a # 0 => (a - 1) % AddrSpace = a - 1
  BY TapNumAssumption, SMT DEF Slot, LastSlot, AddrSpace
<1>2. \A p \in Slot : \A d \in 0..(LastSlot - 1) : Back(p, d) \in Slot
  BY BackTypes, TapNumAssumption, SMT DEF Slot, LastSlot
<1> QED
  BY <1>1, <1>2, TapNumAssumption, SMT DEF Back, Slot, LastSlot

\* The sums of earlier samples do not change when a sample is accepted.
LEMMA DeliveredStable ==
  ASSUME xs \in Seq(Word), tapRAM' = tapRAM,
         xs' = xs \/ \E w \in Word : xs' = Append(xs, w)
  PROVE  \A k \in 1..Len(xs) : Delivered(k)' = Delivered(k)
<1> TAKE k \in 1..Len(xs)
<1>1. Len(xs) \in Nat
  OBVIOUS
<1>2. \A j \in 1..Len(xs) : xs'[j] = xs[j]
  OBVIOUS
<1>3. \A i \in 1..Min2(k, LastSlot) : k - i + 1 \in 1..Len(xs)
  BY <1>1, TapNumAssumption DEF Min2, LastSlot
<1> QED
  BY <1>2, <1>3 DEF Delivered

\* An accumulator that holds every product but the last, and the last product,
\* make up the sum of the newest sample.
LEMMA DeliveredHolds ==
  ASSUME xs \in Seq(Word), NEW s \in Seq(Product), NEW t \in Product,
         Accepted > 1, Len(s) + 1 = Min2(Accepted, LastSlot),
         \A i \in 1..Len(s) : s[i] = Prod(i - 1),
         t = Prod(Len(s))
  PROVE  Append(s, t) = Delivered(Accepted)
<1> DEFINE m == Len(s) + 1
           u == Append(s, t)
<1>1. Accepted \in Nat /\ Len(s) \in Nat
  BY DEF Accepted
<1>2. u \in Seq(Product) /\ Len(u) = m
  BY AppendProperties
<1>3. u = [i \in 1..m |-> u[i]]
  BY <1>2, LenProperties
<1>4. \A i \in 1..m : u[i] = Prod(i - 1)
  <2> TAKE i \in 1..m
  <2>1. CASE i = m
    BY <1>1, <2>1, AppendProperties
  <2>2. CASE i # m
    <3>1. i \in 1..Len(s)
      BY <1>1, <2>2
    <3> QED
      BY <3>1, AppendProperties
  <2> QED
    BY <2>1, <2>2
<1>5. Delivered(Accepted) = [i \in 1..m |-> <<tapRAM[i - 1], xs[Accepted - i + 1]>>]
  <2>1. Accepted # 1
    BY <1>1
  <2> QED
    BY <2>1, Zenon DEF Delivered
<1>6. \A i \in 1..m : <<tapRAM[i - 1], xs[Accepted - i + 1]>> = u[i]
  <2> TAKE i \in 1..m
  <2>1. Accepted - i + 1 = Accepted - (i - 1)
    BY <1>1
  <2> QED
    BY <1>4, <2>1 DEF Prod
<1> HIDE DEF u, m
<1>7. [i \in 1..m |-> <<tapRAM[i - 1], xs[Accepted - i + 1]>>] = [i \in 1..m |-> u[i]]
  BY <1>6
<1> QED
  BY <1>3, <1>5, <1>7 DEF u

-----------------------------------------------------------------------------
\* What the observers record in a step of a run.
LEMMA RunObserved ==
  ASSUME NEW in \in Ports, Observe(in), EveryEdge(in), ps # "IDLE", Running
  PROVE  /\ ended' <=> ended \/ in.ss_tlast
         /\ last_r' <=> ended'
         /\ ~sm_tvalid_r' => ys' = ys
         /\ sm_tvalid_r' => ys' = Append(ys, sm_tdata_r')
         /\ ~(ps = "PEND" /\ in.ss_tvalid) => xs' = xs
         /\ ps = "PEND" /\ in.ss_tvalid => xs' = Append(xs, in.ss_tdata)
<1>1. ended' <=> ended \/ in.ss_tlast
  BY Zenon DEF Observe
<1>2. last_r' <=> ended'
  BY <1>1, Zenon DEF EveryEdge, NextLast, Running
<1>3. /\ ~sm_tvalid_r' => ys' = ys
      /\ sm_tvalid_r' => ys' = Append(ys, sm_tdata_r')
  BY DEF Observe
<1>4. /\ ~(ps = "PEND" /\ in.ss_tvalid) => xs' = xs
      /\ ps = "PEND" /\ in.ss_tvalid => xs' = Append(xs, in.ss_tdata)
  BY DEF Observe
<1> QED
  BY <1>1, <1>2, <1>3, <1>4, Zenon

\* Outputs stay right in a step that emits none.
LEMMA OutputsKept ==
  ASSUME TypeOK, ps # "IDLE", Running, ys' = ys, tapRAM' = tapRAM,
         xs' = xs \/ \E w \in Word : xs' = Append(xs, w)
  PROVE  OutputsDelivered'
<1>1. xs \in Seq(Word) /\ ys \in Seq(Seq(Product))
  BY DEF TypeOK
<1>2. Len(ys) <= Len(xs) /\ Len(ys) \in Nat /\ Len(xs) \in Nat
  BY <1>1 DEF Running, Accepted
<1>3. \A k \in 1..Len(ys) : Delivered(k)' = Delivered(k)
  BY <1>1, <1>2, DeliveredStable
<1>4. \A k \in 1..Len(ys) : ys[k] = Delivered(k)
  BY DEF Running, OutputsDelivered
<1> QED
  BY <1>3, <1>4, Zenon DEF OutputsDelivered

\* ap_start: the run begins with no sample, output or pending coefficient.
LEMMA InvStartRun ==
  ASSUME Invariant, TypeOK', NEW in \in Ports, Master(in), StartRun(in), Observe(in)
  PROVE  Invariant'
<1>1. /\ ps = "IDLE" /\ ps' = "PEND" /\ cnt_r' = 0 /\ RewindTapPort /\ NoOutput
      /\ UNCHANGED <<dataPort, r_dataAddr_r, round_cnt_r, accumulater_r>>
  BY DEF StartRun, InIdle
<1>2. xs' = <<>> /\ ys' = <<>> /\ ended' = FALSE
  <2>1. ApStart(in)
    BY DEF StartRun
  <2>2. xs' = <<>>
    BY <1>1, <2>1 DEF Observe
  <2>3. ys' = <<>>
    BY <1>1, <2>1 DEF Observe, NoOutput
  <2>4. ended' = FALSE
    BY <1>1, <2>1, Zenon DEF Observe
  <2> QED
    BY <2>2, <2>3, <2>4
<1>3. ~in.ss_tlast
  BY <1>1 DEF Master, LastOnTime
<1>4. ~last_r'
  BY <1>1, <1>3, Zenon DEF StartRun, InIdle, EveryEdge, NextLast
<1>5. Accepted' = 0 /\ Len(ys') = 0
  BY <1>2 DEF Accepted
<1>6. PortState'
  BY <1>1, Zenon DEF NoOutput, PortState
<1>7. Running'
  <2>1. ~tap_WE_r' /\ tap_EN_r'
    BY <1>1, Zenon DEF RewindTapPort, TapPort
  <2>2. OutputsDelivered'
    BY <1>5 DEF OutputsDelivered
  <2>3. Len(ys') <= Accepted'
    BY <1>5
  <2>4. last_r' <=> ended'
    BY <1>2, <1>4, Zenon
  <2> QED
    BY <2>1, <2>2, <2>3, <2>4, Zenon DEF Running
<1>8. PendState'
  <2>1. r_dataAddr_r' = NoSlot /\ round_cnt_r' = 1 /\ accumulater_r' = <<>>
    BY <1>1 DEF Invariant, IdleState
  <2>2. tap_A_r' = 0
    BY <1>1 DEF RewindTapPort, TapPort
  <2>3. 1 = Min2(Accepted' + 1, LastSlot)
    BY <1>5, TapNumAssumption DEF Min2, LastSlot
  <2>4. \A d \in Slot : ~(d < Accepted')
    BY <1>5 DEF Slot
  <2> QED
    BY <1>1, <1>2, <1>5, <2>1, <2>2, <2>3, <2>4, Zenon DEF PendState
<1>9. (data_WE_r => data_EN_r)'
  BY <1>1 DEF Invariant, dataPort
<1> QED
  BY <1>1, <1>6, <1>7, <1>8, <1>9 DEF Invariant

\* The other steps of IDLE.
LEMMA InvIdle ==
  ASSUME Invariant, TypeOK', NEW in \in Ports, Master(in), Observe(in), InIdle(in),
         ReadCoefficient(in) \/ WriteCoefficient(in) \/ StayIdle(in)
  PROVE  Invariant'
<1>1. /\ ps = "IDLE" /\ ps' = "IDLE" /\ NoOutput
      /\ UNCHANGED <<dataPort, r_dataAddr_r, round_cnt_r, accumulater_r>>
  BY DEF ReadCoefficient, WriteCoefficient, StayIdle, InIdle
<1>2. PortState'
  BY <1>1, Zenon DEF NoOutput, PortState
<1>3. IdleState'
  BY <1>1 DEF Invariant, IdleState
<1>4. (data_WE_r => data_EN_r)'
  BY <1>1 DEF Invariant, dataPort
<1> QED
  BY <1>1, <1>2, <1>3, <1>4 DEF Invariant

\* The facts of TypeOK the arithmetic below needs.
LEMMA StateTypes ==
  ASSUME TypeOK
  PROVE  /\ xs \in Seq(Word) /\ ys \in Seq(Seq(Product))
         /\ Accepted \in Nat /\ Len(ys) \in Nat
         /\ cnt_r \in 0..15 /\ r_dataAddr_r \in Slot \cup {NoSlot}
         /\ tapRAM \in [Slot -> FirWord] /\ dataRAM \in [Slot -> FirWord]
         /\ LastSlot \in 1..14 /\ TapNum = LastSlot + 1 /\ Slot = 0..LastSlot
BY TapNumAssumption DEF TypeOK, Accepted, LastSlot, Slot

\* The registers of PEND, of a step that leaves the sample ring alone.
LEMMA PendEdge ==
  ASSUME Invariant, TypeOK', NEW in \in Ports, Master(in), InPend(in), Observe(in)
  PROVE  /\ ~tap_WE_r' /\ tap_EN_r' /\ ~data_WE_r' /\ data_EN_r'
         /\ cnt_r' = 0 /\ data_A_r' = r_dataAddr_r /\ r_dataAddr_r' = r_dataAddr_r
         /\ accumulater_r' = <<>> /\ round_cnt_r' = Min2(Accepted + 1, LastSlot)
         /\ tapRAM' = tapRAM /\ ys' = ys /\ (last_r' <=> ended')
         /\ PortState'
         /\ OutputsDelivered' /\ Len(ys) = Accepted
         /\ Accepted = 0 <=> r_dataAddr_r = NoSlot
         /\ \A d \in Slot : d < Accepted =>
              dataRAM'[Back(r_dataAddr_r, d)] = xs[Accepted - d]
<1>1. TypeOK /\ Running /\ PendState /\ (data_WE_r => data_EN_r) /\ ps = "PEND"
  BY DEF InPend, Invariant
<1>2. EveryEdge(in) /\ NoOutput
  BY DEF InPend
<1>3. ~sm_tvalid_r' /\ ~sm_tlast_r'
  BY <1>2, Zenon DEF NoOutput
<1>4. last_r' <=> ended'
  BY <1>1, <1>2, RunObserved, Zenon
<1>5. /\ ys' = ys
      /\ xs' = xs \/ xs' = Append(xs, in.ss_tdata)
  BY <1>1, <1>2, <1>3, RunObserved, Zenon
<1>6. /\ ~tap_WE_r' /\ tap_EN_r' /\ ~data_WE_r' /\ data_EN_r'
  BY <1>1, Zenon DEF InPend, DataPort, Running
<1>7. cnt_r' = 0 /\ data_A_r' = r_dataAddr_r /\ r_dataAddr_r' = r_dataAddr_r
  BY DEF InPend, DataPort
<1>8. /\ accumulater_r' = <<>> /\ round_cnt_r' = Min2(Accepted + 1, LastSlot)
      /\ Len(ys) = Accepted /\ (Accepted = 0 <=> r_dataAddr_r = NoSlot)
  BY <1>1 DEF InPend, PendState
<1>9. tapRAM' = tapRAM
  BY <1>1, <1>2, RamEdge DEF Running
<1>10. OutputsDelivered'
  <2>1. in.ss_tdata \in Word
    BY PortTypes
  <2> QED
    BY <1>1, <1>5, <1>9, <2>1, OutputsKept
<1>11. \A s \in Slot : dataRAM'[s] = Settled(s)
  BY <1>1, <1>2, RamEdge
<1>12. ASSUME NEW d \in Slot, d < Accepted
       PROVE  dataRAM'[Back(r_dataAddr_r, d)] = xs[Accepted - d]
  <2>1. r_dataAddr_r \in Slot
    BY <1>1, <1>8, <1>12, StateTypes
  <2>2. Back(r_dataAddr_r, d) \in Slot
    BY <2>1, BackTypes
  <2> QED
    BY <1>1, <1>11, <1>12, <2>2, Zenon DEF PendState
<1>13. PortState'
  BY <1>3, Zenon DEF PortState
<1> QED
  BY <1>4, <1>5, <1>6, <1>7, <1>8, <1>9, <1>10, <1>12, <1>13, Zenon

\* PEND without a sample: the RAM stores the pending sample, if any.
LEMMA InvAwaitSample ==
  ASSUME Invariant, TypeOK', NEW in \in Ports, Master(in), AwaitSample(in), Observe(in)
  PROVE  Invariant'
<1>1. InPend(in) /\ ps = "PEND" /\ ps' = "PEND" /\ ~in.ss_tvalid /\ tap_A_r' = tap_A_r
  BY DEF AwaitSample, InPend
<1>2. Running /\ PendState
  BY <1>1 DEF Invariant
<1>3. EveryEdge(in)
  BY <1>1 DEF InPend
<1>4. xs' = xs /\ (ended' <=> ended \/ in.ss_tlast)
  BY <1>1, <1>2, <1>3, RunObserved, Zenon
<1>5. ~in.ss_tlast
  BY <1>1, <1>2 DEF Master, LastOnTime, PendState
<1>6. ~ended'
  BY <1>2, <1>4, <1>5, Zenon DEF PendState
<1>7. Accepted' = Accepted
  BY <1>4 DEF Accepted
<1>8. Len(ys') = Accepted'
  <2>1. Len(ys) = Accepted /\ ys' = ys
    BY <1>1, PendEdge, Zenon
  <2> QED
    BY <1>7, <2>1, Zenon
<1>9. Running'
  <2>1. Accepted \in Nat
    BY StateTypes DEF Invariant
  <2>2. Len(ys') <= Accepted'
    BY <1>8, <2>1
  <2>3. /\ ~tap_WE_r' /\ tap_EN_r' /\ OutputsDelivered'
        /\ last_r' <=> ended'
    BY <1>1, PendEdge, Zenon
  <2> QED
    BY <2>2, <2>3, Zenon DEF Running
<1>10. PendState'
  <2>1. tap_A_r' = 0
    BY <1>1, <1>2 DEF PendState
  <2>2. \A s \in Slot : Settled(s)' = dataRAM'[s]
    BY <1>1, PendEdge DEF Settled
  <2>3. ASSUME NEW d \in Slot, d < Accepted'
        PROVE  Settled(Back(r_dataAddr_r, d))' = xs'[Accepted' - d]
    <3>1. r_dataAddr_r \in Slot
      BY <1>1, <1>7, <2>3, PendEdge, StateTypes DEF Invariant
    <3>2. Back(r_dataAddr_r, d) \in Slot
      BY <3>1, BackTypes
    <3> QED
      BY <1>1, <1>4, <1>7, <2>2, <2>3, <3>2, PendEdge, Zenon
  <2>4. round_cnt_r' = Min2(Accepted' + 1, LastSlot)
    BY <1>1, <1>7, PendEdge
  <2>5. Accepted' = 0 <=> r_dataAddr_r' = NoSlot
    BY <1>1, <1>7, PendEdge
  <2>6. cnt_r' = 0 /\ accumulater_r' = <<>>
    BY <1>1, PendEdge
  <2> QED
    BY <1>6, <1>8, <2>1, <2>3, <2>4, <2>5, <2>6, Zenon DEF PendState
<1>11. (data_WE_r => data_EN_r)' /\ PortState'
  BY <1>1, PendEdge
<1> QED
  BY <1>1, <1>9, <1>10, <1>11 DEF Invariant

\* PEND with a sample: the pipeline is filled from the newest stored sample.
LEMMA InvAcceptSample ==
  ASSUME Invariant, TypeOK', NEW in \in Ports, Master(in), AcceptSample(in), Observe(in)
  PROVE  Invariant'
<1>1. InPend(in) /\ ps = "PEND" /\ ps' = "START" /\ in.ss_tvalid
  BY DEF AcceptSample, InPend
<1>2. Running /\ PendState /\ TypeOK
  BY <1>1 DEF Invariant
<1>3. EveryEdge(in) /\ in.ss_tdata \in Word
  BY <1>1, PortTypes DEF InPend
<1>4. xs' = Append(xs, in.ss_tdata)
  BY <1>1, <1>2, <1>3, RunObserved, Zenon
<1>5. Accepted' = Accepted + 1 /\ Accepted \in Nat
  BY <1>2, <1>3, <1>4, StateTypes DEF Accepted
<1>6. \A k \in 1..Accepted : xs'[k] = xs[k]
  BY <1>2, <1>3, <1>4, StateTypes DEF Accepted
<1>7. Len(ys') + 1 = Accepted'
  <2>1. Len(ys) = Accepted /\ ys' = ys
    BY <1>1, PendEdge, Zenon
  <2> QED
    BY <1>5, <2>1
<1>8. Running'
  <2>1. Len(ys') <= Accepted'
    BY <1>5, <1>7
  <2>2. /\ ~tap_WE_r' /\ tap_EN_r' /\ OutputsDelivered'
        /\ last_r' <=> ended'
    BY <1>1, PendEdge, Zenon
  <2> QED
    BY <2>1, <2>2, Zenon DEF Running
<1>9. /\ cnt_r' = 0 /\ round_cnt_r' = Min2(Accepted', LastSlot)
      /\ r_dataAddr_r' = r_dataAddr_r /\ data_A_r' = r_dataAddr_r
      /\ accumulater_r' = <<>> /\ tapRAM' = tapRAM
  BY <1>1, <1>5, PendEdge, Zenon
<1>10. Accepted' = 1 <=> r_dataAddr_r' = NoSlot
  <2>1. Accepted = 0 <=> r_dataAddr_r = NoSlot
    BY <1>2 DEF PendState
  <2> QED
    BY <1>5, <1>9, <2>1
<1>11. StartState'
  <2>1. cnt_r' <= round_cnt_r'
    BY <1>2, <1>5, <1>9, StateTypes DEF Min2
  <2>2. ASSUME NEW d \in Slot, d < Accepted' - 1
        PROVE  dataRAM'[Back(r_dataAddr_r', d)] = xs'[Accepted' - 1 - d]
    <3>1. d < Accepted /\ d \in Nat
      BY <1>5, <2>2 DEF Slot
    <3>2. dataRAM'[Back(r_dataAddr_r', d)] = xs[Accepted - d]
      BY <1>1, <1>9, <3>1, PendEdge, Zenon
    <3>3. Accepted - d \in 1..Accepted /\ Accepted' - 1 - d = Accepted - d
      BY <1>5, <3>1
    <3> QED
      BY <1>6, <3>2, <3>3, Zenon
  <2>3. ~data_WE_r' /\ data_EN_r'
    BY <1>1, PendEdge, Zenon
  <2> QED
    BY <1>7, <1>9, <1>10, <2>1, <2>2, <2>3, Zenon DEF StartState
<1>12. TapPipeline'
  <2>1. tap_A_r = 0 /\ tap_EN_r
    BY <1>2 DEF PendState, Running
  <2>2. tap_A_r' = 1
    BY <2>1 DEF AcceptSample, AddrSpace
  <2>3. 0 \in Slot
    BY <1>2, StateTypes
  <2>4. tap_Do' = tapRAM[0]
    BY <1>2, <1>3, <2>1, <2>3, RamEdge, Zenon
  <2> QED
    BY <1>9, <2>2, <2>4 DEF TapPipeline
<1>13. ASSUME Accepted' # 1 PROVE Pipeline'
  <2>1. r_dataAddr_r' \in Slot
    BY <1>2, <1>9, <1>10, <1>13, StateTypes
  <2>2. data_A_r' = Back(r_dataAddr_r', cnt_r')
    BY <1>9, <2>1, BackTypes, Zenon
  <2>3. ~(cnt_r' \in 1..(Accepted' - 1)) /\ ~(cnt_r' > 0)
    BY <1>9
  <2>4. Holds(IF cnt_r = 0 THEN 0 ELSE cnt_r - 1)'
    BY <1>9 DEF Holds
  <2> QED
    BY <2>2, <2>3, <2>4, Zenon DEF Pipeline
<1>14. PortState' /\ data_EN_r'
  BY <1>1, PendEdge, Zenon
<1> QED
  BY <1>1, <1>8, <1>9, <1>11, <1>12, <1>13, <1>14 DEF Invariant

\* A step of START: the pipeline moves by one.
LEMMA StartEdge ==
  ASSUME Invariant, TypeOK', NEW in \in Ports, Master(in), InStart(in), Observe(in)
  PROVE  /\ xs' = xs /\ ys' = ys /\ tapRAM' = tapRAM /\ dataRAM' = dataRAM
         /\ ~tap_WE_r' /\ tap_EN_r' /\ ~data_WE_r' /\ data_EN_r'
         /\ (last_r' <=> ended') /\ PortState' /\ OutputsDelivered'
         /\ Len(ys) + 1 = Accepted /\ Accepted \in Nat
         /\ round_cnt_r' = round_cnt_r
<1>1. ps = "START" /\ EveryEdge(in) /\ NoOutput
  BY DEF InStart
<1>2. TypeOK /\ Running /\ StartState
  BY <1>1 DEF Invariant
<1>3. ~sm_tvalid_r' /\ ~sm_tlast_r'
  BY <1>1, Zenon DEF NoOutput
<1>4. ps # "IDLE" /\ ps # "PEND"
  BY <1>1
<1>5. xs' = xs /\ ys' = ys /\ (last_r' <=> ended')
  BY <1>1, <1>2, <1>3, <1>4, RunObserved, Zenon
<1>6. tapRAM' = tapRAM /\ dataRAM' = dataRAM
  BY <1>1, <1>2, RamEdge DEF Running, StartState
<1>7. OutputsDelivered'
  BY <1>2, <1>4, <1>5, <1>6, OutputsKept
<1>8. ~tap_WE_r' /\ tap_EN_r' /\ ~data_WE_r' /\ data_EN_r'
  BY <1>2, Zenon DEF InStart, DataPort, Running
<1>9. PortState'
  BY <1>3, Zenon DEF PortState
<1>10. Len(ys) + 1 = Accepted /\ Accepted \in Nat
  BY <1>2, StateTypes DEF StartState
<1>11. round_cnt_r' = round_cnt_r
  BY DEF InStart
<1> QED
  BY <1>5, <1>6, <1>7, <1>8, <1>9, <1>10, <1>11, Zenon

\* What the accumulator of a round with stored samples holds after the step.
LEMMA AccumulatorEdge ==
  ASSUME Invariant, NEW in \in Ports, InStart(in), Accepted # 1
  PROVE  /\ r_dataAddr_r \in Slot
         /\ Accumulate \in Seq(Product)
         /\ Len(Accumulate) = cnt_r
         /\ \A i \in 1..cnt_r : Accumulate[i] = Prod(i - 1)
<1>1. TypeOK /\ StartState /\ Pipeline
  BY DEF InStart, Invariant
<1>2. /\ r_dataAddr_r \in Slot /\ r_dataAddr_r # NoSlot /\ cnt_r \in 0..15
      /\ accumulater_r \in Seq(Product) /\ temp_r \in Product
  BY <1>1 DEF StartState, TypeOK
<1>3. CASE cnt_r = 0
  <2>1. Accumulate = accumulater_r
    BY <1>3 DEF Accumulate
  <2>2. Holds(0)
    BY <1>1, <1>3 DEF Pipeline
  <2> QED
    BY <1>2, <1>3, <2>1, <2>2 DEF Holds
<1>4. CASE cnt_r # 0
  <2>1. Accumulate = Append(accumulater_r, temp_r)
    BY <1>2, <1>4 DEF Accumulate
  <2>2. Holds(cnt_r - 1) /\ temp_r = Prod(cnt_r - 1)
    BY <1>1, <1>2, <1>4 DEF Pipeline
  <2>3. /\ Accumulate \in Seq(Product) /\ Len(Accumulate) = Len(accumulater_r) + 1
        /\ \A i \in 1..Len(accumulater_r) : Accumulate[i] = accumulater_r[i]
        /\ Accumulate[Len(accumulater_r) + 1] = temp_r
    BY <1>2, <2>1, AppendProperties
  <2>4. Len(accumulater_r) = cnt_r - 1
        /\ \A i \in 1..(cnt_r - 1) : accumulater_r[i] = Prod(i - 1)
    BY <2>2 DEF Holds
  <2>5. ASSUME NEW i \in 1..cnt_r PROVE Accumulate[i] = Prod(i - 1)
    <3>1. CASE i = cnt_r
      BY <1>2, <2>2, <2>3, <2>4, <3>1
    <3>2. CASE i # cnt_r
      <4>1. i \in 1..(cnt_r - 1)
        BY <1>2, <3>2
      <4> QED
        BY <2>3, <2>4, <4>1, Zenon
    <3> QED
      BY <3>1, <3>2
  <2> QED
    BY <1>2, <2>3, <2>4, <2>5
<1> QED
  BY <1>3, <1>4

\* A product: every stage of the pipeline moves on by one sample.
LEMMA InvMultiply ==
  ASSUME Invariant, TypeOK', NEW in \in Ports, Master(in), Multiply(in), Observe(in)
  PROVE  Invariant'
<1>1. /\ InStart(in) /\ EveryEdge(in) /\ ps = "START" /\ ps' = "START"
      /\ r_dataAddr_r' = r_dataAddr_r /\ cnt_r # round_cnt_r
  BY DEF Multiply, InStart, RoundDone
<1>2. TypeOK /\ Running /\ StartState /\ TapPipeline
  BY <1>1 DEF Invariant
<1>3. /\ xs' = xs /\ ys' = ys /\ tapRAM' = tapRAM /\ dataRAM' = dataRAM
      /\ round_cnt_r' = round_cnt_r /\ Len(ys) + 1 = Accepted /\ Accepted \in Nat
  BY <1>1, StartEdge, Zenon
<1>4. Accepted' = Accepted
  BY <1>3 DEF Accepted
<1>5. LastSlot \in 1..14 /\ Slot = 0..LastSlot
  BY <1>2, StateTypes
<1>6. /\ cnt_r \in 0..(LastSlot - 1) /\ cnt_r < Accepted /\ cnt_r \in Slot
      /\ cnt_r < round_cnt_r /\ cnt_r + 1 \in Slot
  <2>1. round_cnt_r = Min2(Accepted, LastSlot) /\ cnt_r <= round_cnt_r
    BY <1>2 DEF StartState
  <2>2. cnt_r \in 0..15 /\ cnt_r # round_cnt_r
    BY <1>1, <1>2, StateTypes
  <2> QED
    BY <1>3, <1>5, <2>1, <2>2 DEF Min2
<1>7. cnt_r' = cnt_r + 1
  BY <1>5, <1>6 DEF Multiply, NextCnt
<1>8. Running'
  <2>1. Len(ys') <= Accepted'
    BY <1>3, <1>4
  <2>2. ~tap_WE_r' /\ tap_EN_r' /\ OutputsDelivered' /\ (last_r' <=> ended')
    BY <1>1, StartEdge, Zenon
  <2> QED
    BY <2>1, <2>2, Zenon DEF Running
<1>9. StartState'
  <2>1. ~data_WE_r' /\ data_EN_r'
    BY <1>1, StartEdge, Zenon
  <2>2. cnt_r' <= round_cnt_r' /\ round_cnt_r' = Min2(Accepted', LastSlot)
    BY <1>2, <1>3, <1>4, <1>5, <1>6, <1>7 DEF StartState, Min2
  <2>3. Len(ys') + 1 = Accepted'
    BY <1>3, <1>4
  <2> QED
    BY <1>1, <1>2, <1>3, <1>4, <2>1, <2>2, <2>3, Zenon DEF StartState, Back
<1>10. TapPipeline'
  <2>1. tap_A_r = cnt_r + 1 /\ tap_EN_r
    BY <1>2 DEF TapPipeline, Running
  <2>2. tap_A_r' = cnt_r + 2
    BY <1>5, <1>6, <2>1 DEF Multiply, AddrSpace
  <2>3. tap_Do' = tapRAM[cnt_r + 1]
    BY <1>1, <1>2, <1>6, <2>1, RamEdge, Zenon
  <2> QED
    BY <1>3, <1>6, <1>7, <2>2, <2>3 DEF TapPipeline
<1>11. CASE Accepted = 1
  <2>1. accumulater_r = <<>> /\ r_dataAddr_r = NoSlot
    BY <1>1, <1>2, <1>11 DEF Invariant, StartState
  <2>2. accumulater_r' = <<>>
    BY <1>1, <2>1 DEF InStart, Accumulate
  <2>3. data_EN_r' /\ PortState'
    BY <1>1, StartEdge, Zenon
  <2> QED
    BY <1>1, <1>4, <1>8, <1>9, <1>10, <1>11, <2>2, <2>3 DEF Invariant
<1>12. CASE Accepted # 1
  <2>1. /\ r_dataAddr_r \in Slot /\ Len(Accumulate) = cnt_r
        /\ \A i \in 1..cnt_r : Accumulate[i] = Prod(i - 1)
    BY <1>1, <1>12, AccumulatorEdge, Zenon
  <2>2. Pipeline /\ data_EN_r
    BY <1>1, <1>2, <1>12 DEF Invariant, StartState
  <2>3. data_A_r = Back(r_dataAddr_r, cnt_r) /\ data_A_r \in Slot
    BY <1>6, <2>1, <2>2, BackTypes DEF Pipeline
  <2>4. data_A_r' = Back(r_dataAddr_r', cnt_r')
    <3>1. data_A_r' = PrevAddr
      BY <1>1 DEF InStart, DataPort
    <3>2. PrevAddr = Back(r_dataAddr_r, cnt_r + 1)
      BY <1>6, <2>1, <2>3, BackPrev, Zenon DEF PrevAddr
    <3> QED
      BY <1>1, <1>7, <3>1, <3>2, Zenon
  <2>5. ASSUME cnt_r' \in 1..(Accepted' - 1) PROVE data_Do' = xs'[Accepted' - cnt_r']
    <3>1. data_Do' = dataRAM[Back(r_dataAddr_r, cnt_r)]
      BY <1>1, <1>2, <2>2, <2>3, RamEdge, Zenon
    <3>2. cnt_r < Accepted - 1 /\ Accepted' - cnt_r' = Accepted - 1 - cnt_r
      BY <1>3, <1>4, <1>6, <1>7, <2>5
    <3> QED
      BY <1>2, <1>3, <1>6, <3>1, <3>2, Zenon DEF StartState
  <2>6. temp_r' = Prod(cnt_r)
    <3>1. temp_r' = <<tap_Do, IF cnt_r = 0 THEN in.ss_tdata ELSE data_Do>>
      BY <1>1 DEF EveryEdge
    <3>2. tap_Do = tapRAM[cnt_r]
      BY <1>2 DEF TapPipeline
    <3>3. CASE cnt_r = 0
      <4>1. in.ss_tdata = xs[Accepted - cnt_r]
        BY <1>1, <1>3, <3>3 DEF Master, HoldsSample, Accepted
      <4> QED
        BY <3>1, <3>2, <3>3, <4>1, Zenon DEF Prod
    <3>4. CASE cnt_r # 0
      <4>1. data_Do = xs[Accepted - cnt_r]
        BY <1>3, <1>6, <2>2, <3>4 DEF Pipeline
      <4> QED
        BY <3>1, <3>2, <3>4, <4>1, Zenon DEF Prod
    <3> QED
      BY <3>3, <3>4
  <2>7. \A i \in Nat : Prod(i)' = Prod(i)
    BY <1>3, <1>4, Zenon DEF Prod
  <2>8. cnt_r' - 1 = cnt_r /\ cnt_r' > 0 /\ cnt_r' # 0 /\ cnt_r \in Nat
    BY <1>6, <1>7
  <2>9. temp_r' = Prod(cnt_r - 1)'
    BY <1>3, <1>4, <2>6, <2>8, Zenon DEF Prod
  <2>10. Pipeline'
    <3>1. accumulater_r' = Accumulate
      BY <1>1 DEF InStart
    <3>2. (IF cnt_r' = 0 THEN 0 ELSE cnt_r' - 1) = cnt_r
      BY <2>8
    <3>3. \A i \in 1..cnt_r : accumulater_r'[i] = Prod(i - 1)'
      <4> TAKE i \in 1..cnt_r
      <4>1. i - 1 \in Nat
        BY <2>8
      <4> QED
        BY <2>1, <2>7, <3>1, <4>1, Zenon
    <3>4. Holds(IF cnt_r = 0 THEN 0 ELSE cnt_r - 1)'
      BY <2>1, <3>1, <3>2, <3>3, Zenon DEF Holds
    <3> QED
      BY <2>4, <2>5, <2>9, <3>4, Zenon DEF Pipeline
  <2>11. data_EN_r' /\ PortState'
    BY <1>1, StartEdge, Zenon
  <2> QED
    BY <1>1, <1>4, <1>8, <1>9, <1>10, <1>12, <2>10, <2>11 DEF Invariant
<1> QED
  BY <1>11, <1>12

\* The last product of a round completes the sum.
LEMMA InvEndRound ==
  ASSUME Invariant, TypeOK', NEW in \in Ports, Master(in), EndRound(in), Observe(in)
  PROVE  Invariant'
<1>1. /\ InStart(in) /\ ps = "START" /\ ps' = "DONE" /\ cnt_r' = 0 /\ tap_A_r' = 0
      /\ r_dataAddr_r' = NextSlot /\ cnt_r = round_cnt_r
  BY DEF EndRound, InStart, RoundDone
<1>2. TypeOK /\ StartState
  BY <1>1 DEF Invariant
<1>3. /\ xs' = xs /\ ys' = ys /\ tapRAM' = tapRAM /\ dataRAM' = dataRAM
      /\ round_cnt_r' = round_cnt_r /\ Len(ys) + 1 = Accepted /\ Accepted \in Nat
      /\ ~data_WE_r'
  BY <1>1, StartEdge, Zenon
<1>4. Accepted' = Accepted
  BY <1>3 DEF Accepted
<1>5. LastSlot \in 1..14 /\ Slot = 0..LastSlot /\ Len(ys) \in Nat
  BY <1>2, StateTypes
<1>6. Running'
  <2>1. Len(ys') <= Accepted'
    BY <1>3, <1>4
  <2>2. ~tap_WE_r' /\ tap_EN_r' /\ OutputsDelivered' /\ (last_r' <=> ended')
    BY <1>1, StartEdge, Zenon
  <2> QED
    BY <2>1, <2>2, Zenon DEF Running
<1>7. r_dataAddr_r' \in Slot
  BY <1>1, <1>2, CounterWraps, Zenon DEF NextSlot, TypeOK
<1>8. Delivered(Accepted)' = Delivered(Accepted)
  BY <1>3, <1>4, Zenon DEF Delivered
<1>9. accumulater_r' = Delivered(Accepted)
  <2>1. CASE Accepted = 1
    <3>1. accumulater_r = <<>> /\ r_dataAddr_r = NoSlot
      BY <1>1, <1>2, <2>1 DEF Invariant, StartState
    <3> QED
      BY <1>1, <2>1, <3>1 DEF InStart, Accumulate, Delivered
  <2>2. CASE Accepted # 1
    <3>1. r_dataAddr_r \in Slot /\ r_dataAddr_r # NoSlot
      BY <1>1, <1>2, <2>2, AccumulatorEdge DEF StartState
    <3>2. cnt_r = Min2(Accepted, LastSlot) /\ cnt_r \in 1..14
      BY <1>1, <1>2, <1>3, <1>5, <2>2 DEF StartState, Min2
    <3>3. Pipeline
      BY <1>1, <2>2 DEF Invariant
    <3>4. Holds(cnt_r - 1) /\ temp_r = Prod(cnt_r - 1)
      BY <3>2, <3>3 DEF Pipeline
    <3>5. accumulater_r' = Append(accumulater_r, temp_r)
      BY <1>1, <3>1, <3>2 DEF InStart, Accumulate
    <3>6. Len(accumulater_r) + 1 = Min2(Accepted, LastSlot) /\ temp_r = Prod(Len(accumulater_r))
      BY <3>2, <3>4 DEF Holds
    <3>7. \A i \in 1..Len(accumulater_r) : accumulater_r[i] = Prod(i - 1)
      BY <3>4 DEF Holds
    <3>8. xs \in Seq(Word) /\ accumulater_r \in Seq(Product) /\ temp_r \in Product /\ Accepted > 1
      BY <1>2, <1>3, <1>5, <2>2 DEF TypeOK
    <3> QED
      BY <3>5, <3>6, <3>7, <3>8, DeliveredHolds, Zenon
  <2> QED
    BY <2>1, <2>2
<1>10. ASSUME NEW d \in Slot, d > 0, d < Accepted'
       PROVE  dataRAM'[Back(r_dataAddr_r', d)] = xs'[Accepted' - d]
  <2>1. d \in 1..LastSlot /\ d - 1 \in Slot /\ d - 1 < Accepted - 1 /\ Accepted # 1
    BY <1>3, <1>4, <1>5, <1>10
  <2>2. r_dataAddr_r \in Slot
    BY <1>1, <2>1, AccumulatorEdge
  <2>3. Back(r_dataAddr_r', d) = Back(r_dataAddr_r, d - 1)
    BY <1>1, <2>1, <2>2, BackNext, Zenon DEF NextSlot
  <2>4. dataRAM[Back(r_dataAddr_r, d - 1)] = xs[Accepted - 1 - (d - 1)]
    BY <1>2, <2>1, Zenon DEF StartState
  <2>5. Accepted - 1 - (d - 1) = Accepted - d
    BY <1>3, <1>5
  <2> QED
    BY <1>3, <1>4, <2>3, <2>4, <2>5, Zenon
<1>11. DoneState'
  <2>1. Len(ys') + 1 = Accepted'
    BY <1>3, <1>4
  <2>2. round_cnt_r' = Min2(Accepted', LastSlot)
    BY <1>2, <1>3, <1>4 DEF StartState
  <2>3. accumulater_r' = Delivered(Accepted)'
    BY <1>8, <1>9
  <2> QED
    BY <1>1, <1>3, <1>7, <1>10, <2>1, <2>2, <2>3, Zenon DEF DoneState
<1>12. data_EN_r' /\ PortState'
  BY <1>1, StartEdge, Zenon
<1> QED
  BY <1>1, <1>6, <1>11, <1>12 DEF Invariant

\* The sum leaves, and the sample is written to the next slot.
LEMMA InvEmitSum ==
  ASSUME Invariant, TypeOK', NEW in \in Ports, Master(in), EmitSum(in), Observe(in)
  PROVE  Invariant'
<1>1. /\ ps = "DONE" /\ EveryEdge(in) /\ ps # "IDLE" /\ ps # "PEND"
      /\ cnt_r' = 0 /\ round_cnt_r' = NextLimit /\ accumulater_r' = <<>>
      /\ UNCHANGED <<tapPort, r_dataAddr_r>>
  BY DEF EmitSum
<1>2. TypeOK /\ Running /\ DoneState
  BY <1>1 DEF Invariant
<1>3. LastSlot \in 1..14 /\ Slot = 0..LastSlot /\ Len(ys) \in Nat /\ Accepted \in Nat
      /\ xs \in Seq(Word) /\ ys \in Seq(Seq(Product))
  BY <1>2, StateTypes
<1>4. /\ sm_tvalid_r' /\ sm_tdata_r' = accumulater_r
      /\ sm_tlast_r' <=> last_r
  BY Zenon DEF EmitSum
<1>5. /\ xs' = xs /\ ys' = Append(ys, accumulater_r) /\ (last_r' <=> ended')
      /\ ended' <=> ended \/ in.ss_tlast
  BY <1>1, <1>2, <1>4, RunObserved, Zenon
<1>6. in.ss_tlast => ended
  BY <1>1 DEF Master, LastOnTime
<1>7. ended' <=> last_r
  BY <1>2, <1>5, <1>6, Zenon DEF Running
<1>8. Accepted' = Accepted /\ Len(ys) + 1 = Accepted
  BY <1>2, <1>5 DEF Accepted, DoneState
<1>9. accumulater_r \in Seq(Product)
  BY <1>2 DEF TypeOK
<1>10. Len(ys') = Accepted'
  BY <1>3, <1>5, <1>8, <1>9
<1>11. tapRAM' = tapRAM
  BY <1>1, <1>2, RamEdge, Zenon DEF Running
<1>12. OutputsDelivered'
  <2>1. ASSUME NEW k \in 1..Accepted PROVE ys'[k] = Delivered(k)'
    <3>1. Delivered(k)' = Delivered(k)
      BY <1>3, <1>5, <1>11, DeliveredStable DEF Accepted
    <3>2. CASE k = Accepted
      BY <1>2, <1>3, <1>5, <1>8, <1>9, <3>1, <3>2 DEF DoneState
    <3>3. CASE k # Accepted
      <4>1. k \in 1..Len(ys)
        BY <1>3, <1>8, <3>3
      <4>2. ys'[k] = ys[k]
        BY <1>3, <1>5, <1>9, <4>1
      <4> QED
        BY <1>1, <1>2, <3>1, <4>1, <4>2, Zenon DEF Running, OutputsDelivered
    <3> QED
      BY <3>2, <3>3
  <2> QED
    BY <1>8, <1>10, <2>1, Zenon DEF OutputsDelivered
<1>13. Running'
  <2>1. Len(ys') <= Accepted'
    BY <1>3, <1>8, <1>10
  <2>2. ~tap_WE_r' /\ tap_EN_r'
    BY <1>1, <1>2 DEF Running, tapPort
  <2> QED
    BY <1>5, <1>12, <2>1, <2>2, Zenon DEF Running
<1>14. data_WE_r' /\ data_EN_r' /\ data_A_r' = r_dataAddr_r /\ data_Di_r' = in.ss_tdata
  BY Zenon DEF EmitSum, DataPort
<1>15. CASE last_r
  <2>1. ps' = "FINISH"
    BY <1>15 DEF EmitSum
  <2>2. FinishState'
    BY <1>1, <1>7, <1>10, <1>15, Zenon DEF FinishState
  <2>3. PortState'
    BY <1>4, <1>7, <2>1, Zenon DEF PortState
  <2> QED
    BY <1>13, <1>14, <2>1, <2>2, <2>3 DEF Invariant
<1>16. CASE ~last_r
  <2>1. ps' = "PEND" /\ ~ended /\ ~ended'
    BY <1>2, <1>7, <1>16 DEF EmitSum, Running
  <2>2. in.ss_tdata = xs[Accepted]
    BY <1>1, <2>1 DEF Master, HoldsSample, Accepted
  <2>3. r_dataAddr_r \in Slot /\ r_dataAddr_r' = r_dataAddr_r /\ dataRAM' = dataRAM
    BY <1>1, <1>2, RamEdge DEF DoneState
  <2>4. ASSUME NEW d \in Slot, d < Accepted'
        PROVE  Settled(Back(r_dataAddr_r, d))' = xs'[Accepted' - d]
    <3>1. CASE d = 0
      <4>1. Back(r_dataAddr_r', d) = r_dataAddr_r
        BY <2>3, <3>1, BackTypes, Zenon
      <4>2. Accepted' - d = Accepted
        BY <1>3, <1>8, <3>1
      <4> QED
        BY <1>5, <1>14, <2>2, <4>1, <4>2, Zenon DEF Settled
    <3>2. CASE d # 0
      <4>1. d \in 1..LastSlot /\ d > 0
        BY <1>3, <3>2
      <4>2. Back(r_dataAddr_r', d) # r_dataAddr_r
        BY <2>3, <4>1, BackTypes, Zenon
      <4>3. dataRAM[Back(r_dataAddr_r, d)] = xs[Accepted - d]
        BY <1>2, <1>8, <2>4, <4>1, Zenon DEF DoneState
      <4> QED
        BY <1>5, <1>8, <1>14, <2>3, <4>2, <4>3, Zenon DEF Settled
    <3> QED
      BY <3>1, <3>2
  <2>5. PendState'
    <3>1. round_cnt_r' = Min2(Accepted' + 1, LastSlot)
      <4>1. round_cnt_r = Min2(Accepted, LastSlot)
        BY <1>2 DEF DoneState
      <4>2. NextLimit = Min2(Accepted + 1, LastSlot)
        <5>1. CASE Accepted >= LastSlot
          BY <1>3, <1>8, <4>1, <5>1 DEF NextLimit, Min2
        <5>2. CASE Accepted < LastSlot
          <6>1. round_cnt_r = Accepted /\ Accepted \in 0..13 /\ (Accepted + 1) % 16 = Accepted + 1
            BY <1>3, <4>1, <5>2 DEF Min2
          <6> QED
            BY <1>3, <5>2, <6>1 DEF NextLimit, Min2
        <5> QED
          BY <1>3, <5>1, <5>2
      <4> QED
        BY <1>1, <1>8, <4>2, Zenon
    <3>2. tap_A_r' = 0
      BY <1>1, <1>2 DEF DoneState, tapPort
    <3>3. Accepted' = 0 <=> r_dataAddr_r' = NoSlot
      BY <1>3, <1>8, <2>3 DEF NoSlot
    <3> QED
      BY <1>1, <1>10, <2>1, <2>4, <3>1, <3>2, <3>3, Zenon DEF PendState
  <2>6. PortState'
    BY <1>4, <1>7, <2>1, Zenon DEF PortState
  <2> QED
    BY <1>13, <1>14, <2>1, <2>5, <2>6 DEF Invariant
<1> QED
  BY <1>15, <1>16

\* The steps of FINISH, until the run is reported done.
LEMMA InvFinish ==
  ASSUME Invariant, TypeOK', NEW in \in Ports, Master(in), InFinish(in), Observe(in),
         AwaitStatusRead(in) \/ ReportFinishing(in) \/ ReportDone(in)
  PROVE  Invariant'
<1>1. /\ ps = "FINISH" /\ EveryEdge(in) /\ NoOutput /\ ps # "IDLE" /\ ps # "PEND"
      /\ r_dataAddr_r' = NoSlot /\ round_cnt_r' = 1
      /\ UNCHANGED <<tapPort, dataPort, accumulater_r>>
      /\ ps' = "FINISH" \/ ps' = "IDLE"
  BY DEF InFinish, AwaitStatusRead, ReportFinishing, ReportDone
<1>2. TypeOK /\ Running /\ FinishState
  BY <1>1 DEF Invariant
<1>3. ~sm_tvalid_r' /\ ~sm_tlast_r'
  BY <1>1, Zenon DEF NoOutput
<1>4. /\ xs' = xs /\ ys' = ys /\ (last_r' <=> ended')
      /\ ended' <=> ended \/ in.ss_tlast
  BY <1>1, <1>2, <1>3, RunObserved, Zenon
<1>5. tapRAM' = tapRAM
  BY <1>1, <1>2, RamEdge, Zenon DEF Running
<1>6. OutputsDelivered'
  BY <1>1, <1>2, <1>4, <1>5, OutputsKept
<1>7. Running' /\ FinishState'
  <2>1. Len(ys') = Accepted' /\ Len(ys') <= Accepted'
    BY <1>2, <1>4, StateTypes DEF FinishState, Accepted
  <2>2. ~tap_WE_r' /\ tap_EN_r' /\ accumulater_r' = <<>>
    BY <1>1, <1>2 DEF Running, FinishState, tapPort
  <2>3. ended'
    BY <1>2, <1>4, Zenon DEF FinishState
  <2> QED
    BY <1>4, <1>6, <2>1, <2>2, <2>3, Zenon DEF Running, FinishState
<1>8. PortState'
  BY <1>3, Zenon DEF PortState
<1>9. (data_WE_r => data_EN_r)'
  BY <1>1 DEF Invariant, dataPort
<1>10. IdleState'
  BY <1>1, <1>7 DEF IdleState, FinishState
<1> QED
  BY <1>1, <1>7, <1>8, <1>9, <1>10 DEF Invariant

\* A reset establishes the invariant.
LEMMA InvReset == ASSUME TypeOK', Reset PROVE Invariant'
<1>1. ps' = "IDLE" /\ IdleState'
  BY DEF Reset, FirReset, IdleState
<1>2. PortState'
  BY Zenon DEF Reset, FirReset, PortState
<1>3. ~data_WE_r'
  BY Zenon DEF Reset, FirReset, DataPort
<1> QED
  BY <1>1, <1>2, <1>3 DEF Invariant

\* The invariant holds at power-up.
LEMMA InvInit == ASSUME StreamInit PROVE Invariant
<1>1. ps = "IDLE" /\ IdleState
  BY DEF StreamInit, PowerUp, IdleState
<1>2. PortState
  BY Zenon DEF StreamInit, PowerUp, PortState
<1>3. ~data_WE_r
  BY Zenon DEF StreamInit, PowerUp
<1> QED
  BY <1>1, <1>2, <1>3, TypeInit DEF Invariant

\* The invariant does not depend on anything but the variables.
LEMMA InvStutter ==
  ASSUME Invariant, UNCHANGED streamVars
  PROVE  Invariant'
<1>1. TypeOK'
  BY TypeStutter DEF Invariant
<1>2. /\ firVars' = firVars /\ xs' = xs /\ ys' = ys /\ ended' = ended
  BY DEF streamVars
<1>3. /\ ps' = ps /\ r_dataAddr_r' = r_dataAddr_r /\ cnt_r' = cnt_r
      /\ round_cnt_r' = round_cnt_r /\ temp_r' = temp_r /\ accumulater_r' = accumulater_r
  BY <1>2 DEF firVars
<1>4. /\ sm_tvalid_r' = sm_tvalid_r /\ sm_tlast_r' = sm_tlast_r /\ last_r' = last_r
  BY <1>2 DEF firVars
<1>5. tap_WE_r' = tap_WE_r /\ tap_EN_r' = tap_EN_r /\ tap_A_r' = tap_A_r
  BY <1>2 DEF firVars, tapPort
<1>6. /\ data_WE_r' = data_WE_r /\ data_EN_r' = data_EN_r
      /\ data_Di_r' = data_Di_r /\ data_A_r' = data_A_r
  BY <1>2 DEF firVars, dataPort
<1>7. tapRAM' = tapRAM /\ tap_Do' = tap_Do /\ dataRAM' = dataRAM /\ data_Do' = data_Do
  BY <1>2 DEF firVars, ramVars
<1>8. PortState' <=> PortState
  BY <1>2, <1>3, <1>4, Zenon DEF PortState
<1>9. Running' <=> Running
  <2>1. (last_r' <=> ended') <=> (last_r <=> ended)
    BY <1>2, <1>4, Zenon
  <2>2. OutputsDelivered' <=> OutputsDelivered
    <3>1. \A k : Delivered(k)' = Delivered(k)
      BY <1>2, <1>7, Zenon DEF Delivered
    <3> QED
      BY <1>2, <1>3, <3>1, Zenon DEF OutputsDelivered
  <2>3. Len(ys') <= Accepted' <=> Len(ys) <= Accepted
    BY <1>2, Zenon DEF Accepted
  <2> QED
    BY <1>5, <2>1, <2>2, <2>3, Zenon DEF Running
<1>10. IdleState' <=> IdleState
  BY <1>3, Zenon DEF IdleState
<1>11. PendState' <=> PendState
  BY <1>2, <1>3, <1>5, <1>6, <1>7, Zenon DEF PendState, Settled, Back, Accepted
<1>12. StartState' <=> StartState
  BY <1>2, <1>3, <1>6, <1>7, Zenon DEF StartState, Back, Accepted
<1>13. TapPipeline' <=> TapPipeline
  BY <1>3, <1>5, <1>7, Zenon DEF TapPipeline
<1>14. Pipeline' <=> Pipeline
  BY <1>2, <1>3, <1>6, <1>7, Zenon DEF Pipeline, Holds, Prod, Back, Accepted
<1>15. DoneState' <=> DoneState
  BY <1>2, <1>3, <1>5, <1>6, <1>7, Zenon DEF DoneState, Delivered, Back, Accepted
<1>16. FinishState' <=> FinishState
  BY <1>2, <1>3, Zenon DEF FinishState, Accepted
<1>17. Accepted' = Accepted
  BY <1>2, Zenon DEF Accepted
<1> QED
  BY <1>1, <1>3, <1>6, <1>8, <1>9, <1>10, <1>11, <1>12, <1>13, <1>14, <1>15, <1>16, <1>17,
     Zenon DEF Invariant

\* Every clock edge preserves the invariant, when the ports carry what a master
\* within its contract drives.
LEMMA InvClock ==
  ASSUME Invariant, NEW in \in Ports, Master(in), Clock(in), Observe(in)
  PROVE  Invariant'
<1>1. TypeOK'
  BY TypeClock, Zenon DEF Invariant
<1>2. CASE StartRun(in)
  BY <1>1, <1>2, InvStartRun, Zenon
<1>3. CASE ReadCoefficient(in) \/ WriteCoefficient(in) \/ StayIdle(in)
  <2>1. InIdle(in)
    BY <1>3, Zenon DEF ReadCoefficient, WriteCoefficient, StayIdle
  <2> QED
    BY <1>1, <1>3, <2>1, InvIdle, Zenon
<1>4. CASE AcceptSample(in)
  BY <1>1, <1>4, InvAcceptSample, Zenon
<1>5. CASE AwaitSample(in)
  BY <1>1, <1>5, InvAwaitSample, Zenon
<1>6. CASE Multiply(in)
  BY <1>1, <1>6, InvMultiply, Zenon
<1>7. CASE EndRound(in)
  BY <1>1, <1>7, InvEndRound, Zenon
<1>8. CASE EmitSum(in)
  BY <1>1, <1>8, InvEmitSum, Zenon
<1>9. CASE AwaitStatusRead(in) \/ ReportFinishing(in) \/ ReportDone(in)
  <2>1. InFinish(in)
    BY <1>9, Zenon DEF AwaitStatusRead, ReportFinishing, ReportDone
  <2> QED
    BY <1>1, <1>9, <2>1, InvFinish, Zenon
<1> QED
  BY <1>2, <1>3, <1>4, <1>5, <1>6, <1>7, <1>8, <1>9, Zenon DEF Clock

LEMMA InvTick == ASSUME Invariant, Tick PROVE Invariant'
  BY InputsAssumption, InvClock, Zenon DEF Tick

\* The invariant of the engine is inductive.
THEOREM InvariantCorrect == StreamSpec => []Invariant
<1>1. Invariant /\ [StreamNext]_streamVars => Invariant'
  <2>1. ASSUME Invariant, Reset PROVE Invariant'
    BY <2>1, TypeReset, InvReset DEF Invariant
  <2> QED
    BY <2>1, InvTick, InvStutter DEF StreamNext
<1> QED
  BY <1>1, InvInit, PTL DEF StreamSpec

\* The sums that leave the engine are the convolution of its coefficients with
\* the samples of the run, whatever their number and the length of the run.
THEOREM OutputsCorrect == StreamSpec => []OutputsDelivered
<1>1. Invariant => OutputsDelivered
  BY DEF Invariant, Running, OutputsDelivered
<1> QED
  BY <1>1, InvariantCorrect, PTL

\* Every sample is answered by exactly one sum, before the next is accepted.
THEOREM OneOutputCorrect == StreamSpec => []OneOutputPerSample
<1>1. ASSUME Invariant PROVE OneOutputPerSample
  <2>1. Accepted \in Nat /\ Len(ys) \in Nat /\ Accepted = Len(xs)
    BY <1>1, StateTypes DEF Invariant, Accepted
  <2>2. CASE ps = "START" \/ ps = "DONE"
    <3>1. Len(ys) + 1 = Accepted
      BY <1>1, <2>2 DEF Invariant, StartState, DoneState
    <3> QED
      BY <2>1, <2>2, <3>1 DEF OneOutputPerSample
  <2>3. CASE ps = "PEND" \/ ps = "FINISH"
    <3>1. Len(ys) = Accepted
      BY <1>1, <2>3 DEF Invariant, PendState, FinishState
    <3> QED
      BY <2>1, <2>3, <3>1 DEF OneOutputPerSample
  <2> QED
    BY <1>1, <2>2, <2>3 DEF Invariant, TypeOK, OneOutputPerSample
<1> QED
  BY <1>1, InvariantCorrect, PTL

\* sm_tlast accompanies the sum of the sample announced as the last, only.
THEOREM LastMarkCorrect == StreamSpec => []LastMarksEnd
<1>1. ASSUME Invariant PROVE LastMarksEnd
  <2>1. PortState
    BY <1>1, Zenon DEF Invariant
  <2>2. ps = "FINISH" => ended
    BY <1>1, Zenon DEF Invariant, FinishState
  <2> QED
    BY <2>1, <2>2, Zenon DEF PortState, LastMarksEnd
<1> QED
  BY <1>1, InvariantCorrect, PTL

\* No step of a run writes a coefficient.
THEOREM FreezeCorrect == StreamSpec => CoefficientsFrozen
<1>1. Invariant /\ [StreamNext]_streamVars => [ps # "IDLE" => tapRAM' = tapRAM]_streamVars
  <2>1. ASSUME Invariant, Tick, ps # "IDLE" PROVE tapRAM' = tapRAM
    <3>1. PICK in \in Inputs : Clock(in)
      BY <2>1, Zenon DEF Tick
    <3>2. EveryEdge(in) /\ in \in Ports
      BY <3>1, InputsAssumption
         DEF Clock, StartRun, ReadCoefficient, WriteCoefficient, StayIdle, InIdle,
             AcceptSample, AwaitSample, InPend, Multiply, EndRound, InStart, EmitSum,
             AwaitStatusRead, ReportFinishing, ReportDone, InFinish
    <3>3. TypeOK /\ ~tap_WE_r
      BY <2>1, Zenon DEF Invariant, Running
    <3> QED
      BY <3>2, <3>3, RamEdge, Zenon
  <2>2. Reset => tapRAM' = tapRAM
    BY DEF Reset, FirReset
  <2> QED
    BY <2>1, <2>2 DEF StreamNext
<1> QED
  BY <1>1, InvariantCorrect, PTL DEF StreamSpec, CoefficientsFrozen

-----------------------------------------------------------------------------
(* The refinement: each action of the engine makes one step of the filter, *)
(* or none that its user sees.                                             *)

\* In IDLE the edge stores at most one coefficient.
LEMMA CoefficientEdge ==
  ASSUME TypeOK, NEW in \in Ports, EveryEdge(in)
  PROVE  tapRAM' = tapRAM \/ Filter!LoadOne
<1>1. tapRAM \in [Slot -> FirWord] /\ tap_Di_r \in Word
  BY DEF TypeOK
<1>2. tapRAM' = IF tap_EN_r /\ tap_WE_r
                THEN [i \in DOMAIN tapRAM |-> IF i = tap_A_r THEN tap_Di_r ELSE tapRAM[i]]
                ELSE tapRAM
  BY Zenon DEF EveryEdge, RamStore
<1>3. CASE tap_EN_r /\ tap_WE_r /\ tap_A_r \in Slot
  <2>1. tapRAM' = [tapRAM EXCEPT ![tap_A_r] = tap_Di_r]
    BY <1>1, <1>2, <1>3
  <2> QED
    BY <1>1, <1>3, <2>1 DEF Filter!LoadOne
<1>4. CASE tap_EN_r /\ tap_WE_r /\ tap_A_r \notin Slot
  <2>1. tapRAM' = [i \in Slot |-> tapRAM[i]]
    BY <1>1, <1>2, <1>4
  <2> QED
    BY <1>1, <2>1
<1>5. CASE ~(tap_EN_r /\ tap_WE_r)
  BY <1>2, <1>5, Zenon
<1> QED
  BY <1>3, <1>4, <1>5, Zenon

\* A step in IDLE that does not start a run: a coefficient, or nothing.
LEMMA StepIdle ==
  ASSUME Invariant, NEW in \in Ports, Master(in), Observe(in), InIdle(in),
         ReadCoefficient(in) \/ WriteCoefficient(in) \/ StayIdle(in)
  PROVE  Filter!Load \/ UNCHANGED Filter!specVars
<1>1. ps = "IDLE" /\ ps' = "IDLE" /\ ~ApStart(in) /\ NoOutput /\ EveryEdge(in)
  BY DEF ReadCoefficient, WriteCoefficient, StayIdle, InIdle
<1>2. ~sm_tvalid_r'
  BY <1>1, Zenon DEF NoOutput
<1>3. xs' = xs /\ ys' = ys
  BY <1>1, <1>2 DEF Observe
<1>4. ~in.ss_tlast
  BY <1>1 DEF Master, LastOnTime
<1>5. ended' = ended
  <2>1. ended' = (ended \/ in.ss_tlast)
    BY <1>1, Zenon DEF Observe
  <2>2. ended \in BOOLEAN
    BY Zenon DEF Invariant, TypeOK
  <2> QED
    BY <1>4, <2>1, <2>2, Zenon
<1>6. tapRAM' = tapRAM \/ Filter!LoadOne
  BY <1>1, CoefficientEdge DEF Invariant
<1> QED
  BY <1>1, <1>3, <1>5, <1>6 DEF Filter!Load, Filter!specVars

\* ap_start begins a run of the filter.
LEMMA StepStart ==
  ASSUME Invariant, NEW in \in Ports, StartRun(in), Observe(in)
  PROVE  Filter!Start
<1>1. ps = "IDLE" /\ ps' = "PEND" /\ ApStart(in) /\ EveryEdge(in) /\ NoOutput
  BY DEF StartRun, InIdle
<1>2. xs' = <<>> /\ ys' = <<>> /\ ended' = FALSE
  <2>1. xs' = <<>>
    BY <1>1 DEF Observe
  <2>2. ys' = <<>>
    BY <1>1 DEF Observe, NoOutput
  <2>3. ended' = FALSE
    BY <1>1, Zenon DEF Observe
  <2> QED
    BY <2>1, <2>2, <2>3
<1>3. tapRAM' = tapRAM \/ Filter!LoadOne
  BY <1>1, CoefficientEdge DEF Invariant
<1> QED
  BY <1>1, <1>2, <1>3 DEF Filter!Start

\* What every step of a run leaves alone.
LEMMA RunStep ==
  ASSUME Invariant, NEW in \in Ports, Master(in), Observe(in), EveryEdge(in), ps # "IDLE"
  PROVE  /\ tapRAM' = tapRAM
         /\ ~(ps = "PEND" /\ in.ss_tvalid) => ended' = ended /\ xs' = xs
         /\ ended' \in BOOLEAN
<1>1. TypeOK /\ Running
  BY Zenon DEF Invariant
<1>2. tapRAM' = tapRAM
  BY <1>1, RamEdge DEF Running
<1>3. ended' = (ended \/ in.ss_tlast)
  BY Zenon DEF Observe
<1>4. ended \in BOOLEAN
  BY <1>1, Zenon DEF TypeOK
<1>5. ~(ps = "PEND" /\ in.ss_tvalid) => ended' = ended
  <2>1. ~(ps = "PEND" /\ in.ss_tvalid) /\ in.ss_tlast => ended
    BY Zenon DEF Master, LastOnTime
  <2> QED
    BY <1>3, <1>4, <2>1, Zenon
<1>6. ~(ps = "PEND" /\ in.ss_tvalid) => xs' = xs
  BY <1>1, RunObserved, Zenon
<1>7. ended' \in BOOLEAN
  BY <1>3, Zenon
<1> QED
  BY <1>2, <1>5, <1>6, <1>7, Zenon

\* A sample is accepted.
LEMMA StepAccept ==
  ASSUME Invariant, NEW in \in Ports, Master(in), Bounded(in), AcceptSample(in), Observe(in)
  PROVE  Filter!Accept
<1>1. ps = "PEND" /\ ps' = "START" /\ in.ss_tvalid /\ EveryEdge(in) /\ NoOutput
  BY DEF AcceptSample, InPend
<1>2. ~sm_tvalid_r' /\ Running
  BY <1>1, Zenon DEF NoOutput, Invariant
<1>3. xs' = Append(xs, in.ss_tdata) /\ ys' = ys
  BY <1>1, <1>2, RunObserved, Zenon
<1>4. tapRAM' = tapRAM /\ ended' \in BOOLEAN
  BY <1>1, RunStep, Zenon
<1>5. Len(ys) = Len(xs) /\ ~ended
  BY <1>1 DEF Invariant, PendState, Accepted
<1>6. Len(xs) < MaxLen
  BY <1>1, Zenon DEF Bounded
<1>7. in.ss_tdata \in Word
  BY PortTypes
<1> QED
  BY <1>1, <1>3, <1>4, <1>5, <1>6, <1>7 DEF Filter!Accept, Filter!Ready

\* Waiting, multiplying and polling are invisible.
LEMMA StepHidden ==
  ASSUME Invariant, NEW in \in Ports, Master(in), Observe(in),
         AwaitSample(in) \/ Multiply(in) \/ EndRound(in)
           \/ AwaitStatusRead(in) \/ ReportFinishing(in)
  PROVE  UNCHANGED Filter!specVars
<1>1. /\ ps # "IDLE" /\ ps' # "IDLE" /\ ~(ps = "PEND" /\ in.ss_tvalid)
      /\ EveryEdge(in) /\ NoOutput
  BY DEF AwaitSample, InPend, Multiply, EndRound, InStart, AwaitStatusRead,
         ReportFinishing, InFinish
<1>2. ~sm_tvalid_r' /\ Running
  BY <1>1, Zenon DEF NoOutput, Invariant
<1>3. ys' = ys
  BY <1>1, <1>2, RunObserved, Zenon
<1>4. tapRAM' = tapRAM /\ ended' = ended /\ xs' = xs
  BY <1>1, RunStep, Zenon
<1> QED
  BY <1>1, <1>3, <1>4 DEF Filter!specVars

\* The engine's sum is the filter's.
LEMMA SumDelivered ==
  ASSUME TypeOK, Accepted > 0
  PROVE  Delivered(Accepted) = Filter!Sum
<1>1. Accepted \in Nat /\ LastSlot \in 1..14 /\ TapNum = LastSlot + 1 /\ Accepted = Len(xs)
  BY StateTypes DEF Accepted
<1>2. Min2(Accepted, LastSlot) = Filter!Products
  BY <1>1, SMT DEF Min2, Filter!Products
<1> QED
  BY <1>1, <1>2 DEF Delivered, Filter!Sum

\* DONE delivers the sum.
LEMMA StepEmit ==
  ASSUME Invariant, NEW in \in Ports, Master(in), EmitSum(in), Observe(in)
  PROVE  Filter!Deliver
<1>1. /\ ps = "DONE" /\ ps' # "IDLE" /\ EveryEdge(in)
      /\ sm_tvalid_r' = TRUE /\ sm_tdata_r' = accumulater_r
  BY DEF EmitSum
<1>2. Running /\ DoneState /\ TypeOK
  BY <1>1, Zenon DEF Invariant
<1>3. ys' = Append(ys, accumulater_r)
  BY <1>1, <1>2, RunObserved, Zenon
<1>4. tapRAM' = tapRAM /\ ended' = ended /\ xs' = xs
  <2>1. ~(ps = "PEND" /\ in.ss_tvalid) /\ ps # "IDLE"
    BY <1>1
  <2> QED
    BY <1>1, <2>1, RunStep, Zenon
<1>5. Len(ys) + 1 = Accepted /\ accumulater_r = Delivered(Accepted)
  BY <1>2, Zenon DEF DoneState
<1>6. Accepted > 0 /\ Len(ys) < Len(xs)
  BY <1>2, <1>5, StateTypes DEF Accepted
<1>7. accumulater_r = Filter!Sum
  BY <1>2, <1>5, <1>6, SumDelivered, Zenon
<1> QED
  BY <1>1, <1>3, <1>4, <1>6, <1>7 DEF Filter!Deliver

\* The second status read ends the run.
LEMMA StepFinish ==
  ASSUME Invariant, NEW in \in Ports, Master(in), ReportDone(in), Observe(in)
  PROVE  Filter!Finish
<1>1. ps = "FINISH" /\ ps' = "IDLE" /\ EveryEdge(in) /\ NoOutput
  BY DEF ReportDone, InFinish
<1>2. ~sm_tvalid_r' /\ Running /\ FinishState
  BY <1>1, Zenon DEF NoOutput, Invariant
<1>3. ys' = ys
  BY <1>1, <1>2, RunObserved, Zenon
<1>4. tapRAM' = tapRAM /\ ended' = ended /\ xs' = xs
  <2>1. ~(ps = "PEND" /\ in.ss_tvalid) /\ ps # "IDLE"
    BY <1>1
  <2> QED
    BY <1>1, <2>1, RunStep, Zenon
<1> QED
  BY <1>1, <1>2, <1>3, <1>4 DEF Filter!Finish, FinishState, Accepted

\* The engine clocked by a well-behaved master implements the filter.
THEOREM RefinementCorrect == StreamSpec => ImplementsFilter
<1>1. StreamInit => Filter!SpecInit
  BY DEF StreamInit, PowerUp, Filter!SpecInit, Slot
<1>2. Invariant /\ [StreamNext]_streamVars => [Filter!SpecNext]_(Filter!specVars)
  <2>1. ASSUME Invariant, Tick PROVE Filter!SpecNext \/ UNCHANGED Filter!specVars
    <3>1. PICK in \in Inputs : Master(in) /\ Bounded(in) /\ Clock(in) /\ Observe(in)
      BY <2>1, Zenon DEF Tick
    <3>2. in \in Ports
      BY InputsAssumption
    <3>3. CASE StartRun(in)
      BY <2>1, <3>1, <3>2, <3>3, StepStart, Zenon DEF Filter!SpecNext
    <3>4. CASE ReadCoefficient(in) \/ WriteCoefficient(in) \/ StayIdle(in)
      <4>1. InIdle(in)
        BY <3>4, Zenon DEF ReadCoefficient, WriteCoefficient, StayIdle
      <4> QED
        BY <2>1, <3>1, <3>2, <3>4, <4>1, StepIdle, Zenon DEF Filter!SpecNext
    <3>5. CASE AcceptSample(in)
      BY <2>1, <3>1, <3>2, <3>5, StepAccept, Zenon DEF Filter!SpecNext
    <3>6. CASE \/ AwaitSample(in) \/ Multiply(in) \/ EndRound(in)
               \/ AwaitStatusRead(in) \/ ReportFinishing(in)
      BY <2>1, <3>1, <3>2, <3>6, StepHidden, Zenon
    <3>7. CASE EmitSum(in)
      BY <2>1, <3>1, <3>2, <3>7, StepEmit, Zenon DEF Filter!SpecNext
    <3>8. CASE ReportDone(in)
      BY <2>1, <3>1, <3>2, <3>8, StepFinish, Zenon DEF Filter!SpecNext
    <3> QED
      BY <3>1, <3>3, <3>4, <3>5, <3>6, <3>7, <3>8, Zenon DEF Clock
  <2>2. Reset => Filter!Abandon
    BY DEF Reset, FirReset, Filter!Abandon
  <2>3. UNCHANGED streamVars => UNCHANGED Filter!specVars
    BY DEF streamVars, firVars, ramVars, Filter!specVars
  <2> QED
    BY <2>1, <2>2, <2>3, Zenon DEF StreamNext, Filter!SpecNext
<1> QED
  BY <1>1, <1>2, InvariantCorrect, PTL DEF StreamSpec, ImplementsFilter, Filter!FilterSpec
=============================================================================
