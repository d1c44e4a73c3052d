----------------------------- MODULE FirSocProof -----------------------------
(***************************************************************************)
(* Theorems about FirSoc, for every number of coefficients and samples,    *)
(* every program, every pace of the processor not faster than its code     *)
(* allows, and every number of resets: the invariant of FirSocInvariant is *)
(* inductive, and the properties of FirSoc follow from it.                 *)
(*                                                                         *)
(* A clock edge moves four machines at once.  The first lemmas say what it *)
(* does to each of them; then there is one lemma per phase of a run.       *)
(***************************************************************************)
EXTENDS FirSocInvariant, FirProof

-----------------------------------------------------------------------------
\* The numbers of the program, and the distances it keeps.
LEMMA ProgramNumbers ==
  /\ TapNum \in 2..15 /\ LastSlot = TapNum - 1 /\ Slot = 0..(TapNum - 1)
  /\ DATALEN \in Nat \ {0} /\ Rounds \in Nat \ {0} /\ CodeLen \in Nat \ {0}
  /\ StartStep = TapNum /\ LastStep = TapNum + DATALEN
  /\ DoneStep = TapNum + DATALEN + 1
  /\ MaxFetches \in Nat /\ MaxResets \in Nat /\ DELAYS \in Nat
BY TapNumAssumption, ProgramAssumption, HardwareAssumption
   DEF LastSlot, Slot, StartStep, LastStep, DoneStep,
       Cpu!StartStep, Cpu!LastStep, Cpu!DoneStep

LEMMA Gaps ==
  /\ StreamGap \in Nat /\ RestartGap \in Nat /\ Cpu!MaxGap \in Nat
  /\ StreamGap >= TapNum + 2 /\ RestartGap >= TapNum + 3
  /\ Cpu!MaxGap >= RestartGap /\ Cpu!MaxGap >= StreamGap
BY ProgramAssumption, GapAssumption DEF Cpu!MaxGap

\* The words of the program: which of them are commands, and what the others are.
LEMMA CommandWords ==
  /\ TAP_DONE # DATA_DONE /\ TAP_DONE \in Word /\ DATA_DONE \in Word
  /\ 0 \in Word /\ 1 \in Word
  /\ \A a \in 0..(CodeLen - 1) :
       Code[a] \in Word /\ Code[a] # TAP_DONE /\ Code[a] # DATA_DONE
  /\ \A i \in Slot : Taps[i] \in Word /\ Taps[i] # TAP_DONE /\ Taps[i] # DATA_DONE
  /\ \A r \in 1..Rounds : \A i \in 0..(DATALEN - 1) :
       Data[r][i] \in Word /\ Data[r][i] # TAP_DONE /\ Data[r][i] # DATA_DONE
<1>1. TAP_DONE # DATA_DONE /\ TAP_DONE \in Word /\ DATA_DONE \in Word
  BY HardwareAssumption, ProgramAssumption
<1>2. ASSUME NEW a \in 0..(CodeLen - 1)
      PROVE  Code[a] \in Word /\ Code[a] # TAP_DONE /\ Code[a] # DATA_DONE
  <2>1. Code[a] \in Word
    BY ProgramAssumption
  <2>2. Code[a] \in {Code[b] : b \in 0..(CodeLen - 1)}
    OBVIOUS
  <2> QED
    BY <2>1, <2>2, ProgramAssumption, Zenon
<1>3. ASSUME NEW i \in Slot
      PROVE  Taps[i] \in Word /\ Taps[i] # TAP_DONE /\ Taps[i] # DATA_DONE
  <2>1. Taps[i] \in Word
    BY ProgramAssumption
  <2>2. Taps[i] \in {Taps[j] : j \in Slot}
    OBVIOUS
  <2> QED
    BY <2>1, <2>2, ProgramAssumption, Zenon
<1>4. ASSUME NEW r \in 1..Rounds, NEW i \in 0..(DATALEN - 1)
      PROVE  Data[r][i] \in Word /\ Data[r][i] # TAP_DONE /\ Data[r][i] # DATA_DONE
  <2>1. Data[r][i] \in Word
    BY ProgramAssumption
  <2>2. Data[r][i] \in UNION {{Data[q][j] : j \in 0..(DATALEN - 1)} : q \in 1..Rounds}
    OBVIOUS
  <2> QED
    BY <2>1, <2>2, ProgramAssumption, Zenon
<1> QED
  BY <1>1, <1>2, <1>3, <1>4, WordAssumption

\* The write of each step of the program.
LEMMA ProgramSteps ==
  ASSUME SocTypeOK, Position, round <= Rounds
  PROVE  /\ round = 0 /\ step \in 0..(CodeLen - 1) =>
              Cpu!Program = Cpu!Write("MPRJRAM", step, Code[step])
         /\ round > 0 /\ step < StartStep => Cpu!Program = Cpu!Write("FIR", 0, Taps[step])
         /\ round > 0 /\ step = StartStep => Cpu!Program = Cpu!Write("FIR", 0, TAP_DONE)
         /\ round > 0 /\ step \in (StartStep + 1)..(LastStep - 1) =>
              Cpu!Program = Cpu!Write("FIR", 0, Data[round][step - StartStep - 1])
         /\ round > 0 /\ step = LastStep =>
              Cpu!Program = Cpu!Write("FIR", 4, Data[round][DATALEN - 1])
         /\ round > 0 /\ step = DoneStep => Cpu!Program = Cpu!Write("FIR", 4, DATA_DONE)
<1>1. round \in Nat /\ step \in Nat /\ DoneStep \in Nat
  BY ProgramNumbers DEF SocTypeOK, DoneStep
<1>2. StartStep = Cpu!StartStep /\ LastStep = Cpu!LastStep /\ DoneStep = Cpu!DoneStep
  BY Zenon DEF StartStep, LastStep, DoneStep
<1>3. StartStep < LastStep /\ LastStep < DoneStep /\ StartStep \in Nat /\ LastStep \in Nat
  BY ProgramNumbers
<1>4. ASSUME round = 0
      PROVE  Cpu!Program = Cpu!Write("MPRJRAM", step, Code[step])
  <2>1. ~(round > 0)
    BY <1>4
  <2> QED
    BY <1>4, <2>1, Zenon DEF Cpu!Program
<1>5. ASSUME round > 0, step < StartStep
      PROVE  Cpu!Program = Cpu!Write("FIR", 0, Taps[step])
  <2>1. /\ round # 0 /\ step # StartStep /\ step # LastStep /\ step # DoneStep
        /\ ~(step \in (StartStep + 1)..(LastStep - 1))
    BY <1>1, <1>3, <1>5
  <2> QED
    BY <1>2, <1>5, <2>1, Zenon DEF Cpu!Program
<1>6. ASSUME round > 0, step = StartStep
      PROVE  Cpu!Program = Cpu!Write("FIR", 0, TAP_DONE)
  <2>1. /\ round # 0 /\ ~(step < StartStep) /\ step # LastStep /\ step # DoneStep
        /\ ~(step \in (StartStep + 1)..(LastStep - 1))
    BY <1>1, <1>3, <1>6
  <2> QED
    BY <1>2, <1>6, <2>1, Zenon DEF Cpu!Program
<1>7. ASSUME round > 0, step \in (StartStep + 1)..(LastStep - 1)
      PROVE  Cpu!Program = Cpu!Write("FIR", 0, Data[round][step - StartStep - 1])
  <2>1. /\ round # 0 /\ ~(step < StartStep) /\ step # LastStep /\ step # DoneStep
        /\ step # StartStep
    BY <1>1, <1>3, <1>7
  <2> QED
    BY <1>2, <1>7, <2>1, Zenon DEF Cpu!Program
<1>8. ASSUME round > 0, step = LastStep
      PROVE  Cpu!Program = Cpu!Write("FIR", 4, Data[round][DATALEN - 1])
  <2>1. /\ round # 0 /\ ~(step < StartStep) /\ step # StartStep /\ step # DoneStep
        /\ ~(step \in (StartStep + 1)..(LastStep - 1))
    BY <1>1, <1>3, <1>8
  <2> QED
    BY <1>2, <1>8, <2>1, Zenon DEF Cpu!Program
<1>9. ASSUME round > 0, step = DoneStep
      PROVE  Cpu!Program = Cpu!Write("FIR", 4, DATA_DONE)
  <2>1. /\ round # 0 /\ ~(step < StartStep) /\ step # StartStep /\ step # LastStep
        /\ ~(step \in (StartStep + 1)..(LastStep - 1))
    BY <1>1, <1>3, <1>9
  <2> QED
    BY <1>2, <1>9, <2>1, Zenon DEF Cpu!Program
<1> QED
  BY <1>4, <1>5, <1>6, <1>7, <1>8, <1>9

\* What the rest of the proof needs of a write: which slave it is for, which words
\* are commands, and where the samples lie.
LEMMA ProgramWrites ==
  ASSUME SocTypeOK, Position, round <= Rounds
  PROVE  /\ Cpu!Program.req = TRUE /\ Cpu!Program.we = TRUE /\ Cpu!Program.dat \in Word
         /\ Cpu!Program = Cpu!Write(Cpu!Program.region, Cpu!Program.off, Cpu!Program.dat)
         /\ round = 0 => /\ Cpu!Program.region = "MPRJRAM" /\ Cpu!Program.off = step
                         /\ Cpu!Program.dat = Code[step]
         /\ round > 0 =>
              /\ Cpu!Program.region = "FIR"
              /\ Cpu!Program.off = 4 <=> step \in {LastStep, DoneStep}
              /\ step < StartStep => Cpu!Program.dat = Taps[step]
              /\ step \in (StartStep + 1)..LastStep =>
                   Cpu!Program.dat = Data[round][step - StartStep - 1]
         /\ Cpu!Program.dat = TAP_DONE <=> round > 0 /\ step = StartStep
         /\ Cpu!Program.dat = DATA_DONE <=> round > 0 /\ step = DoneStep
<1>1. round \in Nat /\ step \in Nat /\ round \in 0..Rounds
  BY ProgramNumbers DEF SocTypeOK, DoneStep
<1>2. /\ StartStep \in Nat /\ LastStep \in Nat /\ DoneStep \in Nat
      /\ StartStep < LastStep /\ DoneStep = LastStep + 1
  BY ProgramNumbers
<1>3. CASE round = 0
  <2>1. step \in 0..(CodeLen - 1)
    BY <1>1, <1>3, ProgramNumbers DEF Position
  <2>2. Cpu!Program = Cpu!Write("MPRJRAM", step, Code[step])
    BY <1>3, <2>1, ProgramSteps
  <2>3. /\ Cpu!Program.req = TRUE /\ Cpu!Program.we = TRUE
        /\ Cpu!Program.region = "MPRJRAM" /\ Cpu!Program.off = step
        /\ Cpu!Program.dat = Code[step]
        /\ Cpu!Program = Cpu!Write(Cpu!Program.region, Cpu!Program.off, Cpu!Program.dat)
    BY <2>2 DEF Cpu!Write
  <2>4. Code[step] \in Word /\ Code[step] # TAP_DONE /\ Code[step] # DATA_DONE
    BY <2>1, CommandWords, Zenon
  <2>5. ~(round > 0)
    BY <1>3
  <2> QED
    BY <1>3, <2>2, <2>4, <2>5, <2>3, Zenon
<1>4. CASE round > 0 /\ step < StartStep
  <2>1. /\ round # 0 /\ step \in Slot
        /\ step # LastStep /\ step # DoneStep /\ step # StartStep /\ 0 # 4
        /\ ~(step \in (StartStep + 1)..LastStep)
    BY <1>1, <1>2, <1>4, ProgramNumbers
  <2>2. Cpu!Program = Cpu!Write("FIR", 0, Taps[step])
    BY <1>4, ProgramSteps
  <2>3. /\ Cpu!Program.req = TRUE /\ Cpu!Program.we = TRUE
        /\ Cpu!Program.region = "FIR" /\ Cpu!Program.off = 0
        /\ Cpu!Program.dat = Taps[step]
        /\ Cpu!Program = Cpu!Write(Cpu!Program.region, Cpu!Program.off, Cpu!Program.dat)
    BY <2>2 DEF Cpu!Write
  <2>4. Taps[step] \in Word /\ Taps[step] # TAP_DONE /\ Taps[step] # DATA_DONE
    BY <2>1, CommandWords, Zenon
  <2> QED
    BY <1>4, <2>1, <2>2, <2>4, <2>3, Zenon
<1>5. CASE round > 0 /\ step = StartStep
  <2>1. /\ round # 0 /\ step # LastStep /\ step # DoneStep /\ 0 # 4
        /\ ~(step < StartStep) /\ ~(step \in (StartStep + 1)..LastStep)
    BY <1>1, <1>2, <1>5
  <2>2. Cpu!Program = Cpu!Write("FIR", 0, TAP_DONE)
    BY <1>5, ProgramSteps
  <2>3. /\ Cpu!Program.req = TRUE /\ Cpu!Program.we = TRUE
        /\ Cpu!Program.region = "FIR" /\ Cpu!Program.off = 0
        /\ Cpu!Program.dat = TAP_DONE
        /\ Cpu!Program = Cpu!Write(Cpu!Program.region, Cpu!Program.off, Cpu!Program.dat)
    BY <2>2 DEF Cpu!Write
  <2> QED
    BY <1>5, <2>1, <2>2, <2>3, CommandWords, Zenon
<1>6. CASE round > 0 /\ step \in (StartStep + 1)..(LastStep - 1)
  <2>1. /\ round \in 1..Rounds /\ step - StartStep - 1 \in 0..(DATALEN - 1)
        /\ round # 0 /\ step # LastStep /\ step # DoneStep /\ step # StartStep /\ 0 # 4
        /\ ~(step < StartStep)
    BY <1>1, <1>2, <1>6, ProgramNumbers
  <2>2. Cpu!Program = Cpu!Write("FIR", 0, Data[round][step - StartStep - 1])
    BY <1>6, ProgramSteps
  <2>3. /\ Cpu!Program.req = TRUE /\ Cpu!Program.we = TRUE
        /\ Cpu!Program.region = "FIR" /\ Cpu!Program.off = 0
        /\ Cpu!Program.dat = Data[round][step - StartStep - 1]
        /\ Cpu!Program = Cpu!Write(Cpu!Program.region, Cpu!Program.off, Cpu!Program.dat)
    BY <2>2 DEF Cpu!Write
  <2> QED
    BY <1>6, <2>1, <2>2, <2>3, CommandWords, Zenon
<1>7. CASE round > 0 /\ step = LastStep
  <2>1. /\ round \in 1..Rounds /\ DATALEN - 1 \in 0..(DATALEN - 1)
        /\ step - StartStep - 1 = DATALEN - 1
        /\ round # 0 /\ step # DoneStep /\ step # StartStep /\ ~(step < StartStep)
    BY <1>1, <1>2, <1>7, ProgramNumbers
  <2>2. Cpu!Program = Cpu!Write("FIR", 4, Data[round][step - StartStep - 1])
    BY <1>7, <2>1, ProgramSteps, Zenon
  <2>3. /\ Cpu!Program.req = TRUE /\ Cpu!Program.we = TRUE
        /\ Cpu!Program.region = "FIR" /\ Cpu!Program.off = 4
        /\ Cpu!Program.dat = Data[round][step - StartStep - 1]
        /\ Cpu!Program = Cpu!Write(Cpu!Program.region, Cpu!Program.off, Cpu!Program.dat)
    BY <2>2 DEF Cpu!Write
  <2> QED
    BY <1>7, <2>1, <2>2, <2>3, CommandWords, Zenon
<1>8. CASE round > 0 /\ step = DoneStep
  <2>1. /\ round # 0 /\ step # LastStep /\ step # StartStep
        /\ ~(step < StartStep) /\ ~(step \in (StartStep + 1)..LastStep)
    BY <1>1, <1>2, <1>8
  <2>2. Cpu!Program = Cpu!Write("FIR", 4, DATA_DONE)
    BY <1>8, ProgramSteps
  <2>3. /\ Cpu!Program.req = TRUE /\ Cpu!Program.we = TRUE
        /\ Cpu!Program.region = "FIR" /\ Cpu!Program.off = 4
        /\ Cpu!Program.dat = DATA_DONE
        /\ Cpu!Program = Cpu!Write(Cpu!Program.region, Cpu!Program.off, Cpu!Program.dat)
    BY <2>2 DEF Cpu!Write
  <2> QED
    BY <1>8, <2>1, <2>2, <2>3, CommandWords, Zenon
<1>9. round > 0 => step <= DoneStep
  BY DEF Position
<1>10. \/ round = 0
       \/ round > 0 /\ step < StartStep
       \/ round > 0 /\ step = StartStep
       \/ round > 0 /\ step \in (StartStep + 1)..(LastStep - 1)
       \/ round > 0 /\ step = LastStep
       \/ round > 0 /\ step = DoneStep
  BY <1>1, <1>2, <1>9
<1> QED
  BY <1>3, <1>4, <1>5, <1>6, <1>7, <1>8, <1>10, Zenon

-----------------------------------------------------------------------------
\* What an edge does to the processor once the code is copied: it is between two
\* writes, or makes the next one, which is on the bus for two cycles and ends.
Rest ==
    /\ ~Writing /\ ~Writing'
    /\ round' = round /\ step' = step
    /\ since' = IF since < Cpu!MaxGap THEN since + 1 ELSE since
Issue ==
    /\ ~Writing /\ Writing' /\ bus' = Cpu!Program
    /\ round' = round /\ step' = step /\ round <= Rounds
    /\ since >= Cpu!Gap /\ since' = 1
HoldWrite ==
    /\ Writing /\ since = 1 /\ ~wbs_ack_r
    /\ bus' = bus /\ Writing'
    /\ round' = round /\ step' = step /\ since' = 2
EndWrite ==
    /\ Writing /\ since = 2 /\ wbs_ack_r
    /\ bus'.req = FALSE /\ bus'.we = TRUE /\ bus'.region = bus.region
    /\ bus'.off = bus.off /\ bus'.dat = bus.dat
    /\ Cpu!Advance /\ since' = 3

\* While the code is being copied, all writes are for the user RAM.
Copy ==
    /\ bus'.dat \in Word /\ bus'.req \in BOOLEAN /\ bus'.we \in BOOLEAN
    /\ since' = since
    /\ \/ round' = 0 /\ step' = step /\ ~Writing /\ ~Writing'
       \/ round' = 0 /\ step' = step /\ bus' = Cpu!Program
       \/ /\ Writing /\ ready /\ Cpu!Advance
          /\ bus'.req = FALSE /\ bus'.we = TRUE /\ bus'.region = "MPRJRAM"

\* A write's request is withdrawn, and stays on the other lines of the bus.
LEMMA Withdrawn ==
  ASSUME SocTypeOK, Position, BusState, Writing, bus' = [bus EXCEPT !.req = FALSE]
  PROVE  /\ bus'.req = FALSE /\ bus'.we = TRUE /\ bus'.region = bus.region
         /\ bus'.off = bus.off /\ bus'.dat = bus.dat
<1>1. bus = Cpu!Program /\ round <= Rounds
  BY Zenon DEF BusState
<1>2. bus = Cpu!Write(bus.region, bus.off, bus.dat)
  BY <1>1, ProgramWrites, Zenon
<1> QED
  BY <1>2 DEF Cpu!Write

LEMMA CpuMoves ==
  ASSUME SocTypeOK, Position, BusState, round > 0, Cpu!CpuClock(wbs_ack_o)
  PROVE  Rest \/ Issue \/ HoldWrite \/ EndWrite
<1>1. since \in Nat /\ Cpu!MaxGap \in Nat /\ Cpu!MaxGap > 2 /\ round \in Nat
  BY Gaps, ProgramNumbers DEF SocTypeOK
<1>2. bus.req \in BOOLEAN /\ bus.we \in BOOLEAN /\ wbs_ack_r \in BOOLEAN
  BY DEF SocTypeOK
<1>3. Writing => wbs_ack_o = wbs_ack_r
  <2>1. ASSUME Writing PROVE bus.region = "FIR"
    BY <2>1, ProgramWrites, Zenon DEF BusState
  <2> QED
    BY <2>1, Zenon DEF wbs_ack_o
<1>4. CASE Cpu!Think(wbs_ack_o)
  <2>1. ~Writing /\ ~Writing'
    BY <1>4 DEF Cpu!Think, Cpu!Free, Cpu!NoRequest, Writing
  <2> QED
    BY <1>4, <2>1, Zenon DEF Cpu!Think, Cpu!Elapse, Rest
<1>5. CASE Cpu!FetchCode(wbs_ack_o)
  <2>1. ~Writing /\ ~Writing'
    BY <1>5 DEF Cpu!FetchCode, Cpu!Free, Cpu!Fetch, Writing
  <2> QED
    BY <1>5, <2>1, Zenon DEF Cpu!FetchCode, Cpu!Elapse, Rest
<1>6. CASE Cpu!IssueWrite(wbs_ack_o)
  <2>1. ~Writing /\ bus' = Cpu!Program /\ round' = round /\ step' = step
    BY <1>6, Zenon DEF Cpu!IssueWrite, Cpu!Free, Writing
  <2>2. round <= Rounds /\ since >= Cpu!Gap /\ since' = 1
    BY <1>1, <1>6, ProgramNumbers DEF Cpu!IssueWrite, Cpu!Finished
  <2>3. Writing'
    BY <2>1, <2>2, ProgramWrites, Zenon DEF Writing
  <2> QED
    BY <2>1, <2>2, <2>3, Zenon DEF Issue
<1>7. CASE Cpu!Hold(wbs_ack_o)
  <2>1. bus' = bus /\ round' = round /\ step' = step /\ ~wbs_ack_o
    BY <1>7, Zenon DEF Cpu!Hold
  <2>2. since' = IF since < Cpu!MaxGap THEN since + 1 ELSE since
    BY <1>7, Zenon DEF Cpu!Hold, Cpu!Elapse
  <2>3. CASE Writing
    <3>1. since = 1 /\ ~wbs_ack_r
      BY <1>3, <2>1, <2>3, Zenon DEF BusState
    <3>2. since' = 2
      BY <1>1, <2>2, <3>1
    <3> QED
      BY <2>1, <2>3, <3>1, <3>2, Zenon DEF HoldWrite, Writing
  <2>4. CASE ~Writing
    BY <2>1, <2>2, <2>4, Zenon DEF Rest, Writing
  <2> QED
    BY <2>3, <2>4
<1>8. CASE Cpu!WriteDone(wbs_ack_o)
  <2>1. Writing /\ wbs_ack_o /\ Cpu!Advance /\ bus' = [bus EXCEPT !.req = FALSE]
    BY <1>8, Zenon DEF Cpu!WriteDone, Writing
  <2>2. since = 2 /\ wbs_ack_r
    BY <1>3, <2>1, Zenon DEF BusState
  <2>3. since' = 3
    BY <1>1, <1>8, <2>2 DEF Cpu!WriteDone, Cpu!Elapse
  <2> QED
    BY <2>1, <2>2, <2>3, Withdrawn, Zenon DEF EndWrite
<1> QED
  BY <1>4, <1>5, <1>6, <1>7, <1>8, Zenon DEF Cpu!CpuClock

LEMMA CopyMoves ==
  ASSUME SocTypeOK, Position, BusState, round = 0, Cpu!CpuClock(wbs_ack_o)
  PROVE  Copy
<1>1. since = Cpu!MaxGap /\ Cpu!MaxGap \in Nat /\ round <= Rounds /\ ~(round > 0)
  BY Gaps, ProgramNumbers DEF Position
<1>2. bus.req \in BOOLEAN /\ bus.we \in BOOLEAN /\ bus.dat \in Word /\ (bus.req => bus.we)
  BY <1>1 DEF SocTypeOK, BusState
<1>3. ~(since < Cpu!MaxGap)
  BY <1>1
<1>4. Writing => bus.region = "MPRJRAM" /\ bus = Cpu!Program
  BY <1>1, ProgramWrites, Zenon DEF BusState
<1>5. CASE Cpu!Think(wbs_ack_o)
  <2>1. /\ bus'.dat \in Word /\ bus'.req \in BOOLEAN /\ bus'.we \in BOOLEAN
        /\ ~Writing /\ ~Writing'
    BY <1>5, CommandWords DEF Cpu!Think, Cpu!Free, Cpu!NoRequest, Writing
  <2> QED
    BY <1>3, <1>5, <2>1, Zenon DEF Cpu!Think, Cpu!Elapse, Copy
<1>6. ~Cpu!FetchCode(wbs_ack_o)
  BY <1>1 DEF Cpu!FetchCode
<1>7. CASE Cpu!IssueWrite(wbs_ack_o)
  <2>1. bus' = Cpu!Program /\ round' = round /\ step' = step /\ since' = since
    BY <1>7, Zenon DEF Cpu!IssueWrite
  <2>2. bus'.dat \in Word /\ bus'.req \in BOOLEAN /\ bus'.we \in BOOLEAN
    BY <1>1, <2>1, ProgramWrites, Zenon
  <2> QED
    BY <2>1, <2>2, Zenon DEF Copy
<1>8. CASE Cpu!Hold(wbs_ack_o)
  <2>1. bus' = bus /\ round' = round /\ step' = step /\ since' = since
    BY <1>3, <1>8, Zenon DEF Cpu!Hold, Cpu!Elapse
  <2> QED
    BY <1>2, <1>4, <2>1, Zenon DEF Copy, Writing
<1>9. CASE Cpu!WriteDone(wbs_ack_o)
  <2>1. Writing /\ wbs_ack_o /\ Cpu!Advance /\ bus' = [bus EXCEPT !.req = FALSE]
    BY <1>9, Zenon DEF Cpu!WriteDone, Writing
  <2>2. since' = since
    BY <1>3, <1>9, Zenon DEF Cpu!WriteDone, Cpu!Elapse
  <2>3. ready
    BY <1>4, <2>1 DEF wbs_ack_o
  <2> QED
    BY <1>2, <1>4, <2>1, <2>2, <2>3, Withdrawn, Zenon DEF Copy
<1> QED
  BY <1>5, <1>6, <1>7, <1>8, <1>9, Zenon DEF Cpu!CpuClock

\* The position in the program after a write.
LEMMA Advances ==
  ASSUME SocTypeOK, Position, round <= Rounds, Cpu!Advance
  PROVE  /\ round = 0 => \/ round' = 0 /\ step' = step + 1 /\ step' < CodeLen
                         \/ round' = 1 /\ step' = 0 /\ step = CodeLen - 1
         /\ round > 0 /\ step = DoneStep => round' = round + 1 /\ step' = StartStep
         /\ round > 0 /\ step # DoneStep => round' = round /\ step' = step + 1
<1>1. round \in Nat /\ step \in Nat /\ CodeLen \in Nat /\ DoneStep = Cpu!DoneStep
      /\ StartStep = Cpu!StartStep
  BY ProgramNumbers DEF SocTypeOK, DoneStep, StartStep
<1>2. CASE round = 0
  <2>1. step < CodeLen
    BY <1>2 DEF Position
  <2>2. CASE step < CodeLen - 1
    BY <1>1, <1>2, <2>2 DEF Cpu!Advance
  <2>3. CASE step = CodeLen - 1
    BY <1>1, <1>2, <2>3 DEF Cpu!Advance
  <2> QED
    BY <1>1, <2>1, <2>2, <2>3, ProgramNumbers
<1>3. CASE round > 0
  BY <1>1, <1>3 DEF Cpu!Advance
<1> QED
  BY <1>1, <1>2, <1>3

-----------------------------------------------------------------------------
\* What an edge does to the bridge: the acknowledgement, then state by state.
BridgeStep == Bridge!BridgeClock(bus, wready_r, rvalid_r, rdata_r)

LEMMA BridgeAcks ==
  ASSUME BridgeStep
  PROVE  /\ wbs_ack_r' = (Writing /\ ~wbs_ack_r)
         /\ wbs_dat_r' = IF Writing /\ ~wbs_ack_r THEN bus.dat ELSE wbs_dat_r
<1>1. Bridge!ForwardTap(bus, wready_r) \/ Bridge!AwaitTap(bus, wready_r) \/
        Bridge!StartEngine(bus) \/ Bridge!StreamData(bus) \/
        Bridge!PollStatus(bus, rvalid_r, rdata_r)
  BY Zenon DEF BridgeStep, Bridge!BridgeClock
<1>2. Bridge!ForwardTap(bus, wready_r) \/ Bridge!AwaitTap(bus, wready_r) =>
        Bridge!Acknowledge(bus)
  BY DEF Bridge!ForwardTap, Bridge!AwaitTap, Bridge!InTap, Bridge!AxiLite
<1>3. Bridge!Acknowledge(bus)
  BY <1>1, <1>2, Zenon DEF Bridge!StartEngine, Bridge!StreamData, Bridge!PollStatus
<1> QED
  BY <1>3, Zenon DEF Bridge!Acknowledge, Bridge!NewAck, Bridge!WriteEn, Writing

LEMMA BridgeInTap ==
  ASSUME BridgeStep, wb_ps = "TAP"
  PROVE  /\ wb_ps' = IF Writing /\ bus.dat = TAP_DONE THEN "AP_START" ELSE "TAP"
         /\ ss_tvalid_r' = FALSE /\ ss_tlast_r' = FALSE /\ ss_tdata_r' = 0
         /\ arvalid_r' = FALSE /\ wvalid_r' = awvalid_r'
         /\ wbs_ack_r /\ wready_r /\ bus.region # "MPRJRAM" =>
              awvalid_r' = TRUE /\ awaddr_r' = (awaddr_r + 4) % AddrSpace /\ wdata_r' = wbs_dat_r
         /\ ~(wbs_ack_r /\ wready_r /\ bus.region # "MPRJRAM") =>
              awvalid_r' = FALSE /\ awaddr_r' = awaddr_r /\ wdata_r' = wdata_r
<1>1. Bridge!ForwardTap(bus, wready_r) \/ Bridge!AwaitTap(bus, wready_r)
  BY DEF BridgeStep, Bridge!BridgeClock, Bridge!StartEngine, Bridge!StreamData,
         Bridge!PollStatus
<1>2. Bridge!InTap(bus)
  BY <1>1 DEF Bridge!ForwardTap, Bridge!AwaitTap, Bridge!AxiLite
<1>3. /\ wb_ps' = IF Writing /\ bus.dat = TAP_DONE THEN "AP_START" ELSE "TAP"
      /\ ss_tvalid_r' = FALSE /\ ss_tlast_r' = FALSE /\ ss_tdata_r' = 0
  BY <1>2, Zenon DEF Bridge!InTap, Bridge!TapsDone, Bridge!WriteEn, Bridge!NoSample, Writing
<1>4. CASE wbs_ack_r /\ wready_r /\ bus.region # "MPRJRAM"
  <2>1. Bridge!ForwardTap(bus, wready_r)
    BY <1>1, <1>4 DEF Bridge!AwaitTap, Bridge!InvalidAddr
  <2>2. Bridge!AxiLite(TRUE, (awaddr_r + 4) % AddrSpace, wbs_dat_r, FALSE)
    BY <2>1 DEF Bridge!ForwardTap, AddrSpace, Bridge!AxiLite
  <2> QED
    BY <1>3, <1>4, <2>2, Zenon DEF Bridge!AxiLite
<1>5. CASE ~(wbs_ack_r /\ wready_r /\ bus.region # "MPRJRAM")
  <2>1. Bridge!AwaitTap(bus, wready_r)
    BY <1>1, <1>5 DEF Bridge!ForwardTap, Bridge!InvalidAddr, Bridge!AxiLite
  <2> QED
    BY <1>3, <1>5, <2>1, Zenon DEF Bridge!AwaitTap, Bridge!AxiLite
<1> QED
  BY <1>4, <1>5

LEMMA BridgeInStart ==
  ASSUME BridgeStep, wb_ps = "AP_START"
  PROVE  /\ wb_ps' = "DATA"
         /\ ss_tvalid_r' = FALSE /\ ss_tlast_r' = FALSE /\ ss_tdata_r' = 0
         /\ awvalid_r' = TRUE /\ wvalid_r' = TRUE /\ awaddr_r' = 0 /\ wdata_r' = 1
         /\ arvalid_r' = FALSE
<1>1. Bridge!StartEngine(bus)
  BY DEF BridgeStep, Bridge!BridgeClock, Bridge!ForwardTap, Bridge!AwaitTap, Bridge!InTap,
         Bridge!StreamData, Bridge!PollStatus
<1> QED
  BY <1>1, Zenon DEF Bridge!StartEngine, Bridge!AxiLite, Bridge!NoSample

LEMMA BridgeInData ==
  ASSUME BridgeStep, wb_ps = "DATA"
  PROVE  /\ wb_ps' = IF Writing /\ bus.dat = DATA_DONE THEN "DONE" ELSE "DATA"
         /\ awvalid_r' = FALSE /\ wvalid_r' = FALSE /\ awaddr_r' = 0 /\ wdata_r' = 0
         /\ arvalid_r' = FALSE
         /\ Writing /\ bus.region # "MPRJRAM" /\ ~ss_tvalid_r =>
              ss_tvalid_r' = TRUE /\ ss_tdata_r' = bus.dat
         /\ ~(Writing /\ bus.region # "MPRJRAM" /\ ~ss_tvalid_r) =>
              ss_tvalid_r' = FALSE /\ ss_tdata_r' = ss_tdata_r
         /\ ss_tlast_r' = (Writing /\ bus.region = "FIR" /\ bus.off = 4)
<1>1. Bridge!StreamData(bus)
  BY DEF BridgeStep, Bridge!BridgeClock, Bridge!ForwardTap, Bridge!AwaitTap, Bridge!InTap,
         Bridge!StartEngine, Bridge!PollStatus
<1>2. Bridge!NewBeat(bus) <=> Writing /\ bus.region # "MPRJRAM" /\ ~ss_tvalid_r
  BY Zenon DEF Bridge!NewBeat, Bridge!WriteEn, Bridge!InvalidAddr, Writing
<1>3. ss_tvalid_r' = TRUE \/ ss_tvalid_r' = FALSE
  BY <1>1, Zenon DEF Bridge!StreamData, Bridge!NewBeat
<1>4. /\ wb_ps' = IF Writing /\ bus.dat = DATA_DONE THEN "DONE" ELSE "DATA"
      /\ awvalid_r' = FALSE /\ wvalid_r' = FALSE /\ awaddr_r' = 0 /\ wdata_r' = 0
      /\ arvalid_r' = FALSE
  BY <1>1, Zenon DEF Bridge!StreamData, Bridge!DataDone, Bridge!WriteEn, Bridge!AxiLite, Writing
<1>5. ss_tlast_r' = (Writing /\ bus.region = "FIR" /\ bus.off = 4)
  BY <1>1, Zenon DEF Bridge!StreamData, Bridge!WriteEn, Bridge!LastAddr, Bridge!SS_LAST, Writing
<1> QED
  BY <1>1, <1>2, <1>3, <1>4, <1>5, Zenon DEF Bridge!StreamData, Bridge!BeatData

LEMMA BridgeInDone ==
  ASSUME BridgeStep, wb_ps = "DONE"
  PROVE  /\ wb_ps' = IF rvalid_r /\ rdata_r = 4 THEN "TAP" ELSE "DONE"
         /\ ss_tvalid_r' = FALSE /\ ss_tlast_r' = FALSE /\ ss_tdata_r' = 0
         /\ awvalid_r' = FALSE /\ wvalid_r' = FALSE /\ awaddr_r' = 0 /\ wdata_r' = 0
         /\ arvalid_r' = TRUE
<1>1. Bridge!PollStatus(bus, rvalid_r, rdata_r)
  BY DEF BridgeStep, Bridge!BridgeClock, Bridge!ForwardTap, Bridge!AwaitTap, Bridge!InTap,
         Bridge!StartEngine, Bridge!StreamData
<1> QED
  BY <1>1, Zenon DEF Bridge!PollStatus, Bridge!RunDone, Bridge!FIRDONE, Bridge!AxiLite,
                     Bridge!NoSample

\* The bridge keeps its types, and so does the engine's port.
BridgeTypeOK ==
    /\ wb_ps \in {"TAP", "AP_START", "DATA", "DONE"}
    /\ Wires \in Ports
    /\ wbs_ack_r \in BOOLEAN /\ wbs_dat_r \in Word

LEMMA WireTypes ==
  Wires \in Ports <=>
    /\ awvalid_r \in BOOLEAN /\ awaddr_r \in Addr /\ wvalid_r \in BOOLEAN /\ wdata_r \in Word
    /\ arvalid_r \in BOOLEAN
    /\ ss_tvalid_r \in BOOLEAN /\ ss_tdata_r \in Word /\ ss_tlast_r \in BOOLEAN
BY AddrConstants DEF Wires, Ports

LEMMA BridgeTypes ==
  ASSUME SocTypeOK, BridgeStep
  PROVE  BridgeTypeOK'
<1>1. /\ awvalid_r \in BOOLEAN /\ awaddr_r \in Addr /\ wvalid_r \in BOOLEAN /\ wdata_r \in Word
      /\ ss_tdata_r \in Word /\ wbs_ack_r \in BOOLEAN /\ wbs_dat_r \in Word
      /\ bus.dat \in Word /\ bus.req \in BOOLEAN /\ bus.we \in BOOLEAN
      /\ wb_ps \in {"TAP", "AP_START", "DATA", "DONE"}
  BY WireTypes, Zenon DEF SocTypeOK
<1>2. 0 \in Word /\ 1 \in Word /\ 0 \in Addr /\ (awaddr_r + 4) % AddrSpace \in Addr
  BY <1>1, CommandWords DEF Addr, AddrSpace
<1>3. wbs_ack_r' \in BOOLEAN /\ wbs_dat_r' \in Word
  BY <1>1, BridgeAcks, Zenon
<1>4. CASE wb_ps = "TAP"
  <2>1. /\ awvalid_r' \in BOOLEAN /\ awaddr_r' \in Addr /\ wdata_r' \in Word
        /\ wvalid_r' \in BOOLEAN /\ wb_ps' \in {"TAP", "AP_START", "DATA", "DONE"}
    BY <1>1, <1>2, <1>4, BridgeInTap, Zenon
  <2>2. Wires' \in Ports
    BY <1>2, <1>4, <2>1, BridgeInTap DEF Wires, Ports
  <2> QED
    BY <1>3, <2>1, <2>2, Zenon DEF BridgeTypeOK
<1>5. CASE wb_ps = "AP_START"
  <2>1. Wires' \in Ports
    BY <1>2, <1>5, BridgeInStart DEF Wires, Ports
  <2> QED
    BY <1>3, <1>5, <2>1, BridgeInStart, Zenon DEF BridgeTypeOK
<1>6. CASE wb_ps = "DATA"
  <2>1. ss_tvalid_r' \in BOOLEAN /\ ss_tdata_r' \in Word /\ ss_tlast_r' \in BOOLEAN
    BY <1>1, <1>6, BridgeInData, Zenon
  <2>2. Wires' \in Ports
    BY <1>2, <1>6, <2>1, BridgeInData DEF Wires, Ports
  <2> QED
    BY <1>3, <1>6, <2>2, BridgeInData, Zenon DEF BridgeTypeOK
<1>7. CASE wb_ps = "DONE"
  <2>1. Wires' \in Ports
    BY <1>2, <1>7, BridgeInDone DEF Wires, Ports
  <2> QED
    BY <1>3, <1>7, <2>1, BridgeInDone, Zenon DEF BridgeTypeOK
<1> QED
  BY <1>1, <1>4, <1>5, <1>6, <1>7

-----------------------------------------------------------------------------
\* What an edge does to the user RAM.
LEMMA BramEdge ==
  ASSUME SocTypeOK, Bram!BramClock(bus)
  PROVE  /\ bram' = RamStore(bram, Bram!Valid(bus), bus.we, bus.off, bus.dat)
         /\ rdata' = RamOut(bram, Bram!Valid(bus), bus.off)
         /\ ready' \in BOOLEAN /\ delayed_count' \in 0..DELAYS
         /\ ready' => Bram!Valid(bus) /\ ~ready
<1>1. Bram!Access(bus)
  BY DEF Bram!BramClock, Bram!CountDelay, Bram!AckAccess, Bram!NoAccess
<1>2. /\ bram' = RamStore(bram, Bram!Valid(bus), bus.we, bus.off, bus.dat)
      /\ rdata' = RamOut(bram, Bram!Valid(bus), bus.off)
  BY <1>1 DEF Bram!Access, Bram!RamStore, Bram!RamOut, RamStore, RamOut
<1>3. delayed_count \in 0..DELAYS /\ DELAYS \in Nat
  BY ProgramNumbers DEF SocTypeOK
<1>4. \A n \in Nat : (n + 1) % 65536 \in 0..(n + 1)
  OBVIOUS
<1>5. delayed_count' \in 0..DELAYS
  BY <1>3, <1>4 DEF Bram!BramClock, Bram!CountDelay, Bram!AckAccess, Bram!NoAccess, Bram!DelayOver
<1>6. Bram!CountDelay(bus) \/ Bram!NoAccess(bus) => ready' = FALSE
  BY DEF Bram!CountDelay, Bram!NoAccess
<1>7. Bram!AckAccess(bus) => ready' = TRUE /\ Bram!Valid(bus) /\ ~ready
  BY Zenon DEF Bram!AckAccess
<1> QED
  BY <1>2, <1>5, <1>6, <1>7, Zenon DEF Bram!BramClock

LEMMA BramTypes ==
  ASSUME SocTypeOK, Bram!BramClock(bus)
  PROVE  bram' \in [BramAddr -> FirWord] /\ rdata' \in FirWord
<1>1. bram \in [BramAddr -> FirWord] /\ bus.dat \in FirWord /\ 0 \in FirWord /\ X \in FirWord
  BY WordTypes DEF SocTypeOK
<1> QED
  BY <1>1, BramEdge DEF RamStore, RamOut

\* Every variable of the system keeps its type.
LEMMA SocTypesStep ==
  ASSUME SocTypeOK, Position, BusState, TypeOK', SocTick
  PROVE  SocTypeOK'
<1>1. Cpu!CpuClock(wbs_ack_o) /\ BridgeStep /\ Bram!BramClock(bus) /\ resets' = resets
  BY DEF SocTick, Hardware, BridgeStep
<1>2. /\ bus.req \in BOOLEAN /\ bus.we \in BOOLEAN /\ bus.dat \in Word
      /\ since \in 0..Cpu!MaxGap /\ Cpu!MaxGap \in Nat /\ Cpu!MaxGap > 2
      /\ round \in 0..(Rounds + 1) /\ step \in 0..(DoneStep + CodeLen)
  BY Gaps, ProgramNumbers DEF SocTypeOK, DoneStep
<1>3. fetches' \in 0..MaxFetches
  BY <1>1, ProgramNumbers
     DEF SocTypeOK, Cpu!CpuClock, Cpu!Think, Cpu!FetchCode, Cpu!IssueWrite, Cpu!Hold, Cpu!WriteDone
<1>4. /\ bus'.req \in BOOLEAN /\ bus'.we \in BOOLEAN /\ bus'.dat \in Word
  <2>1. CASE Cpu!Think(wbs_ack_o)
    BY <2>1, CommandWords DEF Cpu!Think, Cpu!NoRequest
  <2>2. CASE Cpu!FetchCode(wbs_ack_o)
    BY <2>2, CommandWords DEF Cpu!FetchCode, Cpu!Fetch
  <2>3. CASE Cpu!IssueWrite(wbs_ack_o)
    <3>1. bus' = Cpu!Program /\ round <= Rounds
      BY <1>2, <2>3, ProgramNumbers DEF Cpu!IssueWrite, Cpu!Finished
    <3> QED
      BY <3>1, ProgramWrites, Zenon
  <2>4. CASE Cpu!Hold(wbs_ack_o)
    BY <1>2, <2>4, Zenon DEF Cpu!Hold
  <2>5. CASE Cpu!WriteDone(wbs_ack_o)
    <3>1. Writing /\ bus' = [bus EXCEPT !.req = FALSE]
      BY <2>5, Zenon DEF Cpu!WriteDone, Writing
    <3> QED
      BY <1>2, <3>1, Withdrawn, Zenon
  <2> QED
    BY <1>1, <2>1, <2>2, <2>3, <2>4, <2>5, Zenon DEF Cpu!CpuClock
<1>5. since' \in 0..Cpu!MaxGap
  BY <1>1, <1>2
     DEF Cpu!CpuClock, Cpu!Think, Cpu!FetchCode, Cpu!IssueWrite, Cpu!Hold, Cpu!WriteDone, Cpu!Elapse
<1>6. round' \in 0..(Rounds + 1) /\ step' \in 0..(DoneStep + CodeLen)
  <2>1. CASE round' = round /\ step' = step
    BY <1>2, <2>1
  <2>2. CASE Cpu!WriteDone(wbs_ack_o)
    <3>1. Writing /\ Cpu!Advance /\ round <= Rounds
      BY <2>2, Zenon DEF Cpu!WriteDone, Writing, BusState
    <3>2. round > 0 => step <= DoneStep
      BY DEF Position
    <3> QED
      BY <1>2, <3>1, <3>2, Advances, ProgramNumbers
  <2> QED
    BY <1>1, <2>1, <2>2, Zenon
       DEF Cpu!CpuClock, Cpu!Think, Cpu!FetchCode, Cpu!IssueWrite, Cpu!Hold
<1>7. BridgeTypeOK'
  BY <1>1, BridgeTypes
<1>8. resets' \in 0..MaxResets
  BY <1>1, Zenon DEF SocTypeOK
<1>9. /\ ready' \in BOOLEAN /\ delayed_count' \in 0..DELAYS
      /\ bram' \in [BramAddr -> FirWord] /\ rdata' \in FirWord
  BY <1>1, BramEdge, BramTypes, Zenon
<1>10. Cpu!DoneStep' = DoneStep
  BY Zenon DEF DoneStep, Cpu!DoneStep, Cpu!LastStep
<1> QED
  BY <1>3, <1>4, <1>5, <1>6, <1>7, <1>8, <1>9, Zenon
     DEF SocTypeOK, BridgeTypeOK, DoneStep

\* The position in the program, and the distance from the last write.
LEMMA PositionStep ==
  ASSUME SocTypeOK, Position, BusState, SocTick
  PROVE  Position'
<1>1. Cpu!CpuClock(wbs_ack_o)
  BY Zenon DEF SocTick
<1>2. /\ round \in 0..(Rounds + 1) /\ step \in Nat /\ DoneStep \in Nat /\ StartStep \in Nat
      /\ CodeLen \in Nat \ {0} /\ Rounds \in Nat \ {0} /\ StartStep < DoneStep
  BY ProgramNumbers DEF SocTypeOK, DoneStep
<1>3. CASE round' = round /\ step' = step /\ (round = 0 => since' = since)
  BY <1>3 DEF Position, StartStep, DoneStep
<1>4. CASE Writing /\ Cpu!Advance /\ (round = 0 => since' = since)
  <2>1. round <= Rounds
    BY <1>4, Zenon DEF BusState
  <2>2. CASE round = 0
    BY <1>2, <1>4, <2>1, <2>2, Advances DEF Position, StartStep, DoneStep
  <2>3. CASE round > 0 /\ step = DoneStep
    BY <1>2, <1>4, <2>1, <2>3, Advances DEF Position, StartStep, DoneStep
  <2>4. CASE round > 0 /\ step # DoneStep
    BY <1>2, <1>4, <2>1, <2>4, Advances DEF Position, StartStep, DoneStep
  <2> QED
    BY <1>2, <2>2, <2>3, <2>4
<1>5. CASE round = 0
  BY <1>1, <1>3, <1>4, <1>5, CopyMoves, Zenon DEF Copy
<1>6. CASE round > 0
  <2>1. round # 0
    BY <1>6
  <2> QED
    BY <1>1, <1>3, <1>4, <1>6, <2>1, CpuMoves, Zenon DEF Rest, Issue, HoldWrite, EndWrite
<1> QED
  BY <1>2, <1>5, <1>6

\* What the phases say of a sample on the bus.
LEMMA SampleOnBus ==
  ASSUME Position, Phase, wb_ps = "DATA"
  PROVE  round > 0 /\ (Writing /\ since = 2 => ss_tvalid_r)
<1>1. round > 0 /\ (ps # "IDLE" => Streaming) /\ (ps = "IDLE" => Launching)
  BY DEF Phase
<1>2. CASE ps = "IDLE"
  <2>1. ~(Writing /\ since = 2)
    BY <1>1, <1>2 DEF Launching
  <2> QED
    BY <1>1, <2>1
<1>3. CASE ps # "IDLE"
  BY <1>1, <1>3, Zenon DEF Streaming
<1> QED
  BY <1>2, <1>3

\* What is on the bus, and what the bridge makes of it.
LEMMA BusStep ==
  ASSUME SocTypeOK, Position, BusState, Phase, SocTick
  PROVE  BusState'
<1>1. Cpu!CpuClock(wbs_ack_o) /\ BridgeStep
  BY DEF SocTick, Hardware, BridgeStep
<1>2. /\ bus.req \in BOOLEAN /\ bus.we \in BOOLEAN /\ wbs_ack_r \in BOOLEAN
      /\ round \in Nat /\ since \in Nat /\ Cpu!MaxGap \in Nat /\ Cpu!MaxGap >= 3
      /\ wb_ps \in {"TAP", "AP_START", "DATA", "DONE"}
  BY Gaps, ProgramNumbers DEF SocTypeOK
<1>3. /\ wbs_ack_r' <=> Writing /\ ~wbs_ack_r
      /\ Writing /\ ~wbs_ack_r => wbs_dat_r' = bus.dat
  BY <1>1, BridgeAcks, Zenon
<1>4. round = 0 \/ round > 0
  BY <1>2
<1>5. round = 0 => Copy
  BY <1>1, CopyMoves, Zenon
<1>6. round > 0 => Rest \/ Issue \/ HoldWrite \/ EndWrite
  BY <1>1, CpuMoves, Zenon
<1>7. Writing => bus = Cpu!Program /\ round <= Rounds
  BY Zenon DEF BusState
<1>8. round' = round /\ step' = step => Cpu!Program' = Cpu!Program
  BY Zenon DEF Cpu!Program, Cpu!Write, Cpu!StartStep, Cpu!LastStep, Cpu!DoneStep
<1>9. /\ bus'.region \in {"FIR", "MPRJRAM"}
      /\ bus'.req /\ ~bus'.we =>
           round' > 0 /\ bus'.region = "MPRJRAM" /\ bus'.off \in 0..(CodeLen - 1)
  <2>1. CASE Cpu!Think(wbs_ack_o)
    BY <2>1 DEF Cpu!Think, Cpu!NoRequest
  <2>2. CASE Cpu!FetchCode(wbs_ack_o)
    BY <2>2 DEF Cpu!FetchCode, Cpu!Fetch
  <2>3. CASE Cpu!IssueWrite(wbs_ack_o)
    <3>1. bus' = Cpu!Program /\ round <= Rounds
      BY <1>2, <2>3, ProgramNumbers DEF Cpu!IssueWrite, Cpu!Finished
    <3> QED
      BY <1>4, <3>1, ProgramWrites, Zenon
  <2>4. CASE Cpu!Hold(wbs_ack_o)
    BY <2>4, Zenon DEF Cpu!Hold, BusState
  <2>5. CASE Cpu!WriteDone(wbs_ack_o)
    <3>1. Writing /\ bus' = [bus EXCEPT !.req = FALSE]
      BY <2>5, Zenon DEF Cpu!WriteDone, Writing
    <3> QED
      BY <3>1, Withdrawn, Zenon DEF BusState
  <2> QED
    BY <1>1, <2>1, <2>2, <2>3, <2>4, <2>5, Zenon DEF Cpu!CpuClock
<1>10. Writing' => round' <= Rounds /\ bus' = Cpu!Program'
  <2>1. CASE round = 0
    <3>1. Writing' => bus' = Cpu!Program /\ round' = round /\ step' = step
      BY <1>5, <2>1, Zenon DEF Copy, Writing
    <3>2. 0 <= Rounds
      BY ProgramNumbers
    <3> QED
      BY <1>8, <2>1, <3>1, <3>2, Zenon
  <2>2. CASE round > 0
    <3>1. Writing' => bus' = Cpu!Program /\ round' = round /\ step' = step /\ round <= Rounds
      BY <1>6, <1>7, <2>2, Zenon DEF Rest, Issue, HoldWrite, EndWrite, Writing
    <3> QED
      BY <1>8, <3>1, Zenon
  <2> QED
    BY <1>4, <2>1, <2>2
<1>11. wbs_ack_r' => bus'.we /\ (bus'.region = "FIR" => bus'.req)
  <2> SUFFICES ASSUME Writing, ~wbs_ack_r PROVE bus'.we /\ (bus'.region = "FIR" => bus'.req)
    BY <1>3
  <2>1. CASE round = 0
    <3>1. bus' = Cpu!Program \/ (bus'.we = TRUE /\ bus'.region = "MPRJRAM")
      BY <1>5, <2>1, Zenon DEF Copy
    <3>2. Cpu!Program.we /\ Cpu!Program.req
      BY <1>7, ProgramWrites, Zenon
    <3>3. "MPRJRAM" # "FIR"
      OBVIOUS
    <3> QED
      BY <3>1, <3>2, <3>3, Zenon
  <2>2. CASE round > 0
    <3>1. bus' = bus
      BY <1>6, <2>2, Zenon DEF Rest, Issue, HoldWrite, EndWrite
    <3> QED
      BY <3>1, Zenon DEF Writing
  <2> QED
    BY <1>4, <2>1, <2>2
<1>12. round' > 0 /\ Writing' => \/ since' = 1 /\ ~wbs_ack_r'
                                 \/ since' = 2 /\ wbs_ack_r' /\ wbs_dat_r' = bus'.dat
  <2>1. CASE round = 0
    <3>1. round' = 0 \/ ~Writing'
      BY <1>5, <2>1, Zenon DEF Copy, Writing
    <3> QED
      BY <3>1
  <2>2. CASE round > 0
    BY <1>3, <1>6, <2>2, Zenon DEF Rest, Issue, HoldWrite, EndWrite, Writing
  <2> QED
    BY <1>4, <2>1, <2>2
<1>13. round' > 0 /\ ~Writing' => since' >= 3
  <2>1. CASE round = 0
    BY <1>2, <1>5, <2>1 DEF Copy, Position
  <2>2. CASE round > 0
    <3>1. Rest => since >= 3
      BY <2>2, Zenon DEF Rest, BusState
    <3>2. CASE Rest
      BY <1>2, <3>1, <3>2 DEF Rest
    <3>3. CASE EndWrite
      BY <3>3 DEF EndWrite
    <3> QED
      BY <1>6, <2>2, <3>2, <3>3, Zenon DEF Issue, HoldWrite
  <2> QED
    BY <1>4, <2>1, <2>2
<1>14. wvalid_r' = awvalid_r'
  <2>1. wb_ps = "TAP" => wvalid_r' = awvalid_r'
    BY <1>1, BridgeInTap, Zenon
  <2>2. wb_ps = "AP_START" => wvalid_r' = awvalid_r'
    BY <1>1, BridgeInStart
  <2>3. wb_ps = "DATA" => wvalid_r' = awvalid_r'
    BY <1>1, BridgeInData
  <2>4. wb_ps = "DONE" => wvalid_r' = awvalid_r'
    BY <1>1, BridgeInDone
  <2> QED
    BY <1>2, <2>1, <2>2, <2>3, <2>4, Zenon
<1>15. ss_tvalid_r' \/ ss_tlast_r' => wb_ps = "DATA" /\ Writing
  BY <1>1, <1>2, BridgeInTap, BridgeInStart, BridgeInData, BridgeInDone, Zenon
<1>16. ss_tvalid_r' \/ ss_tlast_r' => wb_ps' \in {"DATA", "DONE"}
  BY <1>1, <1>15, BridgeInData, Zenon
<1>17. ss_tvalid_r' => round' > 0 /\ Writing' /\ since' = 2
  <2> SUFFICES ASSUME ss_tvalid_r' PROVE round' > 0 /\ Writing' /\ since' = 2
    OBVIOUS
  <2>1. wb_ps = "DATA" /\ Writing /\ ~ss_tvalid_r
    BY <1>1, <1>15, BridgeInData, Zenon
  <2>2. round > 0 /\ since # 2
    BY <2>1, SampleOnBus, Zenon
  <2> QED
    BY <1>6, <2>1, <2>2, Zenon DEF Rest, Issue, HoldWrite, EndWrite
<1> QED
  BY <1>9, <1>10, <1>11, <1>12, <1>13, <1>14, <1>16, <1>17, Zenon DEF BusState

\* The code in the user RAM.
LEMMA BramStep ==
  ASSUME SocTypeOK, Position, BusState, BramState, SocTick
  PROVE  BramState'
<1>1. Cpu!CpuClock(wbs_ack_o) /\ Bram!BramClock(bus)
  BY DEF SocTick, Hardware
<1>2. /\ bus.req \in BOOLEAN /\ bus.we \in BOOLEAN /\ round \in Nat /\ step \in Nat
      /\ bram \in [BramAddr -> FirWord] /\ DOMAIN bram = BramAddr
      /\ 0..(CodeLen - 1) \subseteq BramAddr /\ CodeLen \in Nat
  <2>1. 0..(CodeLen - 1) \subseteq BramAddr
    BY ProgramAssumption, Zenon
  <2> QED
    BY <2>1, ProgramNumbers DEF SocTypeOK, DoneStep
<1>3. round = 0 \/ round > 0
  BY <1>2
<1>4. Writing => bus = Cpu!Program /\ round <= Rounds
  BY Zenon DEF BusState
<1>5. ASSUME Writing, bus.region = "MPRJRAM"
      PROVE  round = 0 /\ step \in 0..(CodeLen - 1) /\ bus.off = step /\ bus.dat = Code[step]
  <2>1. ~(round > 0)
    <3>1. "FIR" # "MPRJRAM"
      OBVIOUS
    <3> QED
      BY <1>4, <1>5, <3>1, ProgramWrites, Zenon
  <2>2. round = 0
    BY <1>3, <2>1
  <2>3. step \in 0..(CodeLen - 1)
    BY <1>2, <2>2 DEF Position
  <2> QED
    BY <1>4, <1>5, <2>2, <2>3, ProgramWrites, Zenon
<1>6. ASSUME ~(Writing /\ bus.region = "MPRJRAM") PROVE bram' = bram
  BY <1>1, <1>6, BramEdge DEF RamStore, Bram!Valid, Writing
<1>7. ASSUME Writing, bus.region = "MPRJRAM"
      PROVE  bram' = [i \in BramAddr |-> IF i = step THEN Code[step] ELSE bram[i]]
  <2>1. bram' = RamStore(bram, Bram!Valid(bus), bus.we, step, Code[step])
    BY <1>1, <1>5, <1>7, BramEdge, Zenon
  <2>2. Bram!Valid(bus) /\ bus.we
    BY <1>7 DEF Bram!Valid, Writing
  <2> QED
    BY <1>2, <2>1, <2>2 DEF RamStore
<1>8. ASSUME NEW a \in 0..(CodeLen - 1), bram[a] = Code[a] PROVE bram'[a] = Code[a]
  BY <1>2, <1>6, <1>7, <1>8
<1>9. ASSUME NEW a \in 0..(CodeLen - 1), round' > 0 \/ a < step'
      PROVE  bram'[a] = Code[a]
  <2>1. CASE round > 0 \/ a < step
    BY <1>8, <2>1 DEF BramState
  <2>2. CASE ~(round > 0 \/ a < step)
    <3>1. round = 0 /\ Copy
      BY <1>1, <1>3, <2>2, CopyMoves, Zenon
    <3>2. Writing /\ ready /\ Cpu!Advance
      BY <1>9, <2>2, <3>1 DEF Copy
    <3>3. a = step /\ bus.region = "MPRJRAM"
      <4>1. bus.region = "MPRJRAM"
        BY <3>2, Zenon DEF BramState
      <4>2. \/ round' = 0 /\ step' = step + 1
            \/ step = CodeLen - 1
        BY <1>4, <3>1, <3>2, Advances
      <4>3. a < step \/ a = step
        BY <1>2, <1>9, <4>2
      <4> QED
        BY <2>2, <4>1, <4>3
    <3> QED
      BY <1>2, <1>7, <3>2, <3>3
  <2> QED
    BY <2>1, <2>2
<1>10. ASSUME ready'
       PROVE  /\ bus'.req /\ bus'.region = "MPRJRAM"
              /\ bus'.we  => bram'[bus'.off] = bus'.dat
              /\ ~bus'.we => rdata' = Code[bus'.off]
  <2>1. bus.req /\ bus.region = "MPRJRAM" /\ ~ready
    BY <1>1, <1>10, BramEdge DEF Bram!Valid
  <2>2. ~wbs_ack_o
    BY <2>1 DEF wbs_ack_o
  <2>3. bus' = bus
    BY <1>1, <2>1, <2>2, Zenon
       DEF Cpu!CpuClock, Cpu!Think, Cpu!FetchCode, Cpu!IssueWrite, Cpu!Free, Cpu!Hold, Cpu!WriteDone
  <2>4. ASSUME bus.we PROVE bram'[bus.off] = bus.dat
    <3>1. Writing
      BY <2>1, <2>4, Zenon DEF Writing
    <3> QED
      BY <1>2, <1>5, <1>7, <2>1, <3>1
  <2>5. ASSUME ~bus.we PROVE rdata' = Code[bus.off]
    <3>1. round > 0 /\ bus.off \in 0..(CodeLen - 1)
      BY <2>1, <2>5, Zenon DEF BusState
    <3>2. bram[bus.off] = Code[bus.off]
      BY <3>1, Zenon DEF BramState
    <3>3. rdata' = bram[bus.off]
      BY <1>1, <1>2, <2>1, <3>1, BramEdge DEF RamOut, Bram!Valid
    <3> QED
      BY <3>2, <3>3
  <2> QED
    BY <2>1, <2>3, <2>4, <2>5, Zenon
<1> QED
  BY <1>9, <1>10, Zenon DEF BramState

-----------------------------------------------------------------------------
\* The engine's ports as the wires of the wrapper drive them.
LEMMA WireReads ==
  /\ Wires.ss_tvalid = ss_tvalid_r /\ Wires.ss_tdata = ss_tdata_r
  /\ Wires.ss_tlast = ss_tlast_r /\ Wires.wdata = wdata_r
  /\ ~ReadBack(Wires) /\ (ReadStatus(Wires) <=> arvalid_r)
  /\ ApStart(Wires) <=> awvalid_r /\ awaddr_r = 0 /\ wvalid_r /\ wdata_r = 1
  /\ TapWrite(Wires) <=> awvalid_r /\ wvalid_r /\ CoefAddr(awaddr_r)
<1>1. /\ Wires.ss_tvalid = ss_tvalid_r /\ Wires.ss_tdata = ss_tdata_r
      /\ Wires.ss_tlast = ss_tlast_r /\ Wires.wdata = wdata_r
      /\ Wires.awvalid = awvalid_r /\ Wires.awaddr = awaddr_r /\ Wires.wvalid = wvalid_r
      /\ Wires.arvalid = arvalid_r /\ Wires.araddr = 0
  BY DEF Wires
<1>2. ~CoefAddr(0)
  BY DEF CoefAddr
<1> QED
  BY <1>1, <1>2, Zenon DEF ReadBack, ReadStatus, ApStart, TapWrite

\* The step of the engine, state by state: the registers the invariant names.
EngineStep == Clock(Wires) /\ Observe(Wires)

LEMMA EngineIdle ==
  ASSUME EngineStep, ps = "IDLE"
  PROVE  /\ wready_r' = TRUE
         /\ tapRAM' = RamStore(tapRAM, tap_EN_r, tap_WE_r, tap_A_r, tap_Di_r)
         /\ ApStart(Wires) =>
              ps' = "PEND" /\ tap_WE_r' = FALSE /\ xs' = <<>> /\ ended' = FALSE
         /\ ~ApStart(Wires) => ps' = "IDLE"
         /\ ~ApStart(Wires) /\ TapWrite(Wires) =>
              TapPort(TRUE, TRUE, wdata_r, (tap_A_r + 1) % AddrSpace)
         /\ ~ApStart(Wires) /\ ~TapWrite(Wires) => TapPort(FALSE, FALSE, tap_Di_r, tap_A_r)
<1>1. StartRun(Wires) \/ WriteCoefficient(Wires) \/ StayIdle(Wires)
  <2>1. /\ ~InPend(Wires) /\ ~InStart(Wires) /\ ~EmitSum(Wires) /\ ~InFinish(Wires)
        /\ ~ReadCoefficient(Wires)
    BY WireReads, Zenon DEF InPend, InStart, EmitSum, InFinish, ReadCoefficient
  <2> QED
    BY <2>1, Zenon
       DEF EngineStep, Clock, AcceptSample, AwaitSample, Multiply, EndRound, AwaitStatusRead,
           ReportFinishing, ReportDone
<1>2. InIdle(Wires)
  BY <1>1, Zenon DEF StartRun, WriteCoefficient, StayIdle
<1>3. /\ wready_r' = TRUE
      /\ tapRAM' = RamStore(tapRAM, tap_EN_r, tap_WE_r, tap_A_r, tap_Di_r)
  BY <1>2, Zenon DEF InIdle, EveryEdge
<1>4. ASSUME ApStart(Wires)
      PROVE  ps' = "PEND" /\ tap_WE_r' = FALSE /\ xs' = <<>> /\ ended' = FALSE
  <2>1. StartRun(Wires)
    BY <1>1, <1>4, Zenon DEF WriteCoefficient, StayIdle
  <2>2. xs' = <<>>
    BY <1>4 DEF EngineStep, Observe
  <2>3. ended' = FALSE
    BY <1>4, Zenon DEF EngineStep, Observe
  <2> QED
    BY <2>1, <2>2, <2>3, Zenon DEF StartRun, RewindTapPort, TapPort
<1>5. ASSUME ~ApStart(Wires), TapWrite(Wires)
      PROVE  ps' = "IDLE" /\ TapPort(TRUE, TRUE, wdata_r, (tap_A_r + 1) % AddrSpace)
  <2>1. WriteCoefficient(Wires)
    BY <1>1, <1>5, Zenon DEF StartRun, StayIdle
  <2> QED
    BY <2>1, WireReads, Zenon DEF WriteCoefficient
<1>6. ASSUME ~ApStart(Wires), ~TapWrite(Wires)
      PROVE  ps' = "IDLE" /\ TapPort(FALSE, FALSE, tap_Di_r, tap_A_r)
  <2>1. StayIdle(Wires)
    BY <1>1, <1>6, Zenon DEF StartRun, WriteCoefficient
  <2> QED
    BY <2>1, Zenon DEF StayIdle
<1> QED
  BY <1>3, <1>4, <1>5, <1>6, Zenon

LEMMA EngineActs ==
  ASSUME EngineStep, ps # "IDLE"
  PROVE  /\ EveryEdge(Wires)
         /\ ps = "PEND" => AcceptSample(Wires) \/ AwaitSample(Wires)
         /\ ps = "START" => Multiply(Wires) \/ EndRound(Wires)
         /\ ps = "DONE" => EmitSum(Wires)
         /\ ps = "FINISH" =>
              AwaitStatusRead(Wires) \/ ReportFinishing(Wires) \/ ReportDone(Wires)
<1>1. \/ AcceptSample(Wires) \/ AwaitSample(Wires)
      \/ Multiply(Wires) \/ EndRound(Wires) \/ EmitSum(Wires)
      \/ AwaitStatusRead(Wires) \/ ReportFinishing(Wires) \/ ReportDone(Wires)
  BY Zenon DEF EngineStep, Clock, StartRun, ReadCoefficient, WriteCoefficient, StayIdle, InIdle
<1>2. EveryEdge(Wires)
  BY <1>1, Zenon
     DEF AcceptSample, AwaitSample, InPend, Multiply, EndRound, InStart, EmitSum,
         AwaitStatusRead, ReportFinishing, ReportDone, InFinish
<1>3. /\ AcceptSample(Wires) \/ AwaitSample(Wires) => ps = "PEND"
      /\ Multiply(Wires) \/ EndRound(Wires) => ps = "START"
      /\ EmitSum(Wires) => ps = "DONE"
      /\ AwaitStatusRead(Wires) \/ ReportFinishing(Wires) \/ ReportDone(Wires) => ps = "FINISH"
  BY Zenon
     DEF AcceptSample, AwaitSample, InPend, Multiply, EndRound, InStart, EmitSum,
         AwaitStatusRead, ReportFinishing, ReportDone, InFinish
<1>4. /\ "PEND" # "START" /\ "PEND" # "DONE" /\ "PEND" # "FINISH"
      /\ "START" # "DONE" /\ "START" # "FINISH" /\ "DONE" # "FINISH"
  OBVIOUS
<1> QED
  BY <1>1, <1>2, <1>3, <1>4, Zenon

\* In a run: the coefficients rest, the samples accepted and the end are observed.
LEMMA EngineRuns ==
  ASSUME Invariant, Wires \in Ports, EngineStep, ps # "IDLE"
  PROVE  /\ tapRAM' = tapRAM /\ tap_WE_r' = FALSE
         /\ ended' <=> ended \/ ss_tlast_r
         /\ ~(ps = "PEND" /\ ss_tvalid_r) => xs' = xs
         /\ ps = "PEND" /\ ss_tvalid_r => xs' = Append(xs, ss_tdata_r)
<1>1. Running /\ TypeOK /\ EveryEdge(Wires) /\ Observe(Wires)
  BY EngineActs, Zenon DEF Invariant, EngineStep
<1>2. tapRAM' = tapRAM
  BY <1>1, RamEdge, Zenon DEF Running
<1>3. tap_WE_r' = tap_WE_r
  <2>1. CASE ps = "PEND"
    BY <2>1, EngineActs DEF AcceptSample, AwaitSample, InPend
  <2>2. CASE ps = "START"
    BY <2>2, EngineActs DEF Multiply, EndRound, InStart
  <2>3. CASE ps = "DONE"
    BY <2>3, EngineActs DEF EmitSum, tapPort
  <2>4. CASE ps = "FINISH"
    BY <2>4, EngineActs DEF AwaitStatusRead, ReportFinishing, ReportDone, InFinish, tapPort
  <2> QED
    BY <1>1, <2>1, <2>2, <2>3, <2>4 DEF TypeOK
<1>4. tap_WE_r' = FALSE
  BY <1>1, <1>3 DEF Running, TypeOK
<1> QED
  BY <1>1, <1>2, <1>4, RunObserved, WireReads, Zenon

LEMMA EnginePend ==
  ASSUME EngineStep, ps = "PEND"
  PROVE  /\ ss_tvalid_r => ps' = "START" /\ cnt_r' = 0
         /\ ~ss_tvalid_r => ps' = "PEND"
<1>1. AcceptSample(Wires) \/ AwaitSample(Wires)
  BY EngineActs
<1>2. AcceptSample(Wires) => ss_tvalid_r /\ ps' = "START" /\ cnt_r' = 0
  BY WireReads, Zenon DEF AcceptSample, InPend
<1>3. AwaitSample(Wires) => ~ss_tvalid_r /\ ps' = ps
  BY WireReads, Zenon DEF AwaitSample
<1> QED
  BY <1>1, <1>2, <1>3, Zenon

LEMMA EngineStart ==
  ASSUME Invariant, EngineStep, ps = "START"
  PROVE  /\ cnt_r \in Nat /\ round_cnt_r \in 1..(TapNum - 1) /\ cnt_r <= round_cnt_r
         /\ round_cnt_r' = round_cnt_r
         /\ cnt_r = round_cnt_r => ps' = "DONE"
         /\ cnt_r < round_cnt_r => ps' = "START" /\ cnt_r' = cnt_r + 1
         /\ rvalid_r' => arvalid_r /\ rdata_r' = 0
<1>1. Multiply(Wires) \/ EndRound(Wires)
  BY EngineActs
<1>2. /\ cnt_r \in 0..15 /\ round_cnt_r \in 1..(TapNum - 1) /\ cnt_r <= round_cnt_r
      /\ TapNum \in 2..15
  BY ProgramNumbers DEF Invariant, TypeOK, StartState
<1>3. InStart(Wires)
  BY <1>1, Zenon DEF Multiply, EndRound
<1>4. round_cnt_r' = round_cnt_r
  BY <1>3 DEF InStart
<1>5. rvalid_r' => arvalid_r /\ rdata_r' = 0
  BY <1>3, WireReads, Zenon DEF InStart, NewStatusRead, Respond, NoResponse
<1>6. EndRound(Wires) => cnt_r = round_cnt_r /\ ps' = "DONE"
  BY Zenon DEF EndRound, RoundDone
<1>7. Multiply(Wires) => cnt_r # round_cnt_r /\ ps' = ps /\ cnt_r' = NextCnt
  BY Zenon DEF Multiply, RoundDone
<1>8. cnt_r < round_cnt_r => NextCnt = cnt_r + 1
  BY <1>2 DEF NextCnt
<1>9. cnt_r < round_cnt_r => cnt_r # round_cnt_r
  BY <1>2
<1> QED
  BY <1>1, <1>2, <1>4, <1>5, <1>6, <1>7, <1>8, <1>9

LEMMA EngineDone ==
  ASSUME Invariant, EngineStep, ps = "DONE"
  PROVE  /\ ps' = IF ended THEN "FINISH" ELSE "PEND"
         /\ cnt_r' = 0 /\ rvalid_r' = FALSE
         /\ round_cnt_r \in 1..(TapNum - 1)
<1>1. EmitSum(Wires)
  BY EngineActs
<1>2. (last_r <=> ended) /\ round_cnt_r \in 1..(TapNum - 1)
  BY <1>1, ProgramNumbers DEF Invariant, Running, TypeOK
<1> QED
  BY <1>1, <1>2, Zenon DEF EmitSum, NoResponse

LEMMA EngineFinish ==
  ASSUME Invariant, EngineStep, ps = "FINISH"
  PROVE  /\ ended /\ Len(ys) = Len(xs) /\ ys' = ys /\ cnt_r \in 0..15
         /\ ~(arvalid_r /\ ~rvalid_r) => ps' = "FINISH" /\ rvalid_r' = FALSE
         /\ ~arvalid_r => cnt_r' = cnt_r
         /\ arvalid_r /\ rvalid_r => cnt_r' = (cnt_r + 1) % 16
         /\ arvalid_r /\ ~rvalid_r /\ cnt_r # 1 =>
              ps' = "FINISH" /\ rvalid_r' = TRUE /\ rdata_r' = 2 /\ cnt_r' = cnt_r
         /\ arvalid_r /\ ~rvalid_r /\ cnt_r = 1 =>
              ps' = "IDLE" /\ rvalid_r' = TRUE /\ rdata_r' = 4
<1>1. AwaitStatusRead(Wires) \/ ReportFinishing(Wires) \/ ReportDone(Wires)
  BY EngineActs
<1>2. ended /\ Len(ys) = Len(xs) /\ cnt_r \in 0..15 /\ Running
  BY Zenon DEF Invariant, FinishState, TypeOK, Accepted
<1>3. InFinish(Wires)
  BY <1>1, Zenon DEF AwaitStatusRead, ReportFinishing, ReportDone
<1>4. ys' = ys
  <2>1. ~sm_tvalid_r'
    BY <1>3, Zenon DEF InFinish, NoOutput
  <2> QED
    BY <2>1, Zenon DEF EngineStep, Observe
<1>5. cnt_r' = IF arvalid_r /\ rvalid_r THEN (cnt_r + 1) % 16 ELSE cnt_r
  BY <1>3, WireReads, Zenon DEF InFinish, NextCnt
<1>6. NewStatusRead(Wires) <=> arvalid_r /\ ~rvalid_r
  BY WireReads, Zenon DEF NewStatusRead
<1>7. AwaitStatusRead(Wires) => ~NewStatusRead(Wires) /\ ps' = "FINISH" /\ rvalid_r' = FALSE
  BY Zenon DEF AwaitStatusRead, NoResponse
<1>8. ReportFinishing(Wires) =>
        /\ NewStatusRead(Wires) /\ cnt_r # 1
        /\ ps' = "FINISH" /\ rvalid_r' = TRUE /\ rdata_r' = 2
  BY Zenon DEF ReportFinishing, Respond
<1>9. ReportDone(Wires) =>
        /\ NewStatusRead(Wires) /\ cnt_r = 1
        /\ ps' = "IDLE" /\ rvalid_r' = TRUE /\ rdata_r' = 4
  BY Zenon DEF ReportDone, Respond
<1> QED
  BY <1>1, <1>2, <1>4, <1>5, <1>6, <1>7, <1>8, <1>9, Zenon

-----------------------------------------------------------------------------
\* What an edge is made of.
LEMMA TickParts ==
  ASSUME SocTick
  PROVE  EngineStep /\ BridgeStep /\ Cpu!CpuClock(wbs_ack_o) /\ resets' = resets
BY Zenon DEF SocTick, Hardware, EngineStep, BridgeStep

LEMMA SocTypes ==
  ASSUME SocTypeOK
  PROVE  /\ round \in Nat /\ step \in Nat /\ since \in Nat /\ Wires \in Ports
         /\ bus.req \in BOOLEAN /\ bus.we \in BOOLEAN
         /\ awvalid_r \in BOOLEAN /\ awaddr_r \in Addr /\ arvalid_r \in BOOLEAN
         /\ ss_tvalid_r \in BOOLEAN /\ ss_tlast_r \in BOOLEAN /\ ss_tdata_r \in Word
         /\ wb_ps \in {"TAP", "AP_START", "DATA", "DONE"}
         /\ tapRAM \in [Slot -> FirWord] /\ rvalid_r \in BOOLEAN
<1>1. round \in Nat /\ step \in Nat /\ since \in Nat
  BY Gaps, ProgramNumbers DEF SocTypeOK, DoneStep
<1> QED
  BY <1>1, WireTypes, Zenon DEF SocTypeOK, TypeOK

\* A write after the code is copied: it is for the engine, and it is a command at
\* two steps only.
LEMMA WriteOnBus ==
  ASSUME SocTypeOK, Position, BusState, round > 0, Writing
  PROVE  /\ bus.region = "FIR" /\ bus.region # "MPRJRAM" /\ round <= Rounds
         /\ bus.off = 4 <=> step \in {LastStep, DoneStep}
         /\ step < StartStep => bus.dat = Taps[step]
         /\ step \in (StartStep + 1)..LastStep => bus.dat = Data[round][step - StartStep - 1]
         /\ bus.dat = TAP_DONE <=> step = StartStep
         /\ bus.dat = DATA_DONE <=> step = DoneStep
<1>1. bus = Cpu!Program /\ round <= Rounds
  BY Zenon DEF BusState
<1>2. "FIR" # "MPRJRAM"
  OBVIOUS
<1> QED
  BY <1>1, <1>2, ProgramWrites, Zenon

\* The coefficients that have been written stay where they are.
LEMMA LoadedStays ==
  ASSUME Invariant, Wires \in Ports, EngineStep, Loaded, ps = "IDLE" => ~TapWrite(Wires)
  PROVE  Loaded'
<1>1. tap_WE_r' = FALSE /\ tapRAM' = tapRAM
  <2>1. CASE ps = "IDLE"
    <3>1. tapRAM' = tapRAM
      BY <2>1, EngineIdle, Zenon DEF Loaded, RamStore
    <3> QED
      BY <2>1, <3>1, EngineIdle, Zenon DEF TapPort
  <2>2. CASE ps # "IDLE"
    BY <2>2, EngineRuns, Zenon
  <2> QED
    BY <2>1, <2>2
<1> QED
  BY <1>1, Zenon DEF Loaded

-----------------------------------------------------------------------------
\* TAP, first round: the engine takes the coefficient on its port.
LEMMA TapsTaken ==
  ASSUME Invariant, SocTypeOK, Position, BusState, EngineStep, Loading, round <= 1
  PROVE  /\ ps' = "IDLE" /\ wready_r' = TRUE
         /\ Forwarded \in 0..TapNum
         /\ tap_A_r' = IF Forwarded = 0 THEN AddrSpace - 1 ELSE Forwarded - 1
         /\ tap_WE_r' => tap_EN_r' /\ awvalid_r
         /\ \A i \in Slot : i < Forwarded => TapSettled(i)' = Taps[i]
         /\ ~awvalid_r => /\ tap_WE_r' = FALSE
                          /\ \A i \in Slot : i < Forwarded => tapRAM'[i] = Taps[i]
<1>1. Forwarded \in 0..TapNum
  BY SocTypes, ProgramNumbers DEF Forwarded, Loading
<1>2. awvalid_r => Forwarded = step /\ Forwarded > 0 /\ wdata_r = Taps[Forwarded - 1]
  BY DEF Forwarded, Loading
<1>3. awaddr_r = 28 + 4 * Forwarded
  BY Zenon DEF Loading
<1>4. ~ApStart(Wires)
  BY <1>1, <1>3, WireReads
<1>5. TapWrite(Wires) <=> awvalid_r
  <2>1. Forwarded \in 1..15 => CoefAddr(awaddr_r)
    BY <1>3 DEF CoefAddr
  <2>2. wvalid_r = awvalid_r
    BY Zenon DEF BusState
  <2>3. awvalid_r => Forwarded \in 1..15
    BY <1>1, <1>2, ProgramNumbers
  <2> QED
    BY <2>1, <2>2, <2>3, WireReads, Zenon
<1>6. /\ ps = "IDLE" /\ ps' = "IDLE" /\ wready_r' = TRUE
      /\ tapRAM' = RamStore(tapRAM, tap_EN_r, tap_WE_r, tap_A_r, tap_Di_r)
      /\ awvalid_r => TapPort(TRUE, TRUE, wdata_r, (tap_A_r + 1) % AddrSpace)
      /\ ~awvalid_r => TapPort(FALSE, FALSE, tap_Di_r, tap_A_r)
  BY <1>4, <1>5, EngineIdle, Zenon DEF Loading
<1>7. \A i \in Slot : tapRAM'[i] = TapSettled(i)
  <2>1. tap_WE_r => tap_EN_r
    BY Zenon DEF Loading
  <2> QED
    BY <1>6, <2>1, SocTypes DEF RamStore, TapSettled
<1>8. tap_A_r = IF Taken = 0 THEN AddrSpace - 1 ELSE Taken - 1
  BY Zenon DEF Loading
<1>9. \A i \in Slot : i < Taken => TapSettled(i) = Taps[i]
  BY Zenon DEF Loading
<1>10. CASE awvalid_r
  <2>1. Taken = Forwarded - 1 /\ Forwarded \in 1..15
    BY <1>1, <1>2, <1>10, ProgramNumbers DEF Taken
  <2>2. tap_WE_r' = TRUE /\ tap_EN_r' = TRUE /\ tap_Di_r' = wdata_r
        /\ tap_A_r' = (tap_A_r + 1) % AddrSpace
    BY <1>6, <1>10, Zenon DEF TapPort
  <2>3. tap_A_r' = Forwarded - 1
    BY <1>8, <2>1, <2>2 DEF AddrSpace
  <2>4. ASSUME NEW i \in Slot, i < Forwarded PROVE TapSettled(i)' = Taps[i]
    <3>1. CASE i = Forwarded - 1
      BY <1>2, <1>10, <2>2, <2>3, <3>1 DEF TapSettled
    <3>2. CASE i # Forwarded - 1
      <4>1. i < Taken
        BY <2>1, <2>4, <3>2 DEF Slot
      <4>2. TapSettled(i)' = tapRAM'[i]
        BY <2>3, <3>2, Zenon DEF TapSettled
      <4> QED
        BY <1>7, <1>9, <4>1, <4>2, Zenon
    <3> QED
      BY <3>1, <3>2
  <2>5. Forwarded # 0
    BY <2>1
  <2> QED
    BY <1>1, <1>6, <1>10, <2>2, <2>3, <2>4, <2>5, Zenon
<1>11. CASE ~awvalid_r
  <2>1. Taken = Forwarded
    BY <1>11 DEF Taken
  <2>2. tap_WE_r' = FALSE /\ tap_A_r' = tap_A_r
    BY <1>6, <1>11, Zenon DEF TapPort
  <2>3. \A i \in Slot : i < Forwarded => tapRAM'[i] = Taps[i]
    BY <1>7, <1>9, <2>1, Zenon
  <2>4. \A i \in Slot : TapSettled(i)' = tapRAM'[i]
    BY <2>2, Zenon DEF TapSettled
  <2> QED
    BY <1>1, <1>6, <1>8, <1>11, <2>1, <2>2, <2>3, <2>4, Zenon
<1> QED
  BY <1>10, <1>11

\* TAP, first round: the bridge forwards the word of a write that ends.
LEMMA LoadingForwards ==
  ASSUME SocTypeOK, Position, BusState, Loading, round <= 1, wb_ps = "TAP", SocTick
  PROVE  \/ /\ round = 1 /\ EndWrite /\ step < StartStep
            /\ round' = 1 /\ step' = step + 1
            /\ awvalid_r' = TRUE /\ awaddr_r' = (awaddr_r + 4) % AddrSpace
            /\ wdata_r' = Taps[step]
         \/ /\ Forwarded' = Forwarded /\ round' \in 0..1
            /\ round > 0 => round' > 0 /\ step' = step /\ (Rest \/ Issue \/ HoldWrite)
            /\ round = 0 /\ Writing' => round' = 0
            /\ awvalid_r' = FALSE /\ awaddr_r' = awaddr_r
<1>1. BridgeStep /\ Cpu!CpuClock(wbs_ack_o)
  BY TickParts
<1>2. round = 0 \/ round = 1
  BY SocTypes
<1>3. \/ /\ wbs_ack_r /\ wready_r /\ bus.region # "MPRJRAM"
         /\ awvalid_r' = TRUE /\ awaddr_r' = (awaddr_r + 4) % AddrSpace
         /\ wdata_r' = wbs_dat_r
      \/ /\ ~(wbs_ack_r /\ wready_r /\ bus.region # "MPRJRAM")
         /\ awvalid_r' = FALSE /\ awaddr_r' = awaddr_r
  BY <1>1, BridgeInTap, Zenon
<1>4. wbs_ack_r /\ bus.region # "MPRJRAM" => Writing
  BY Zenon DEF BusState, Writing
<1>5. CASE round = 0
  <2>1. ~(wbs_ack_r /\ bus.region # "MPRJRAM")
    <3>1. Writing => bus.region = "MPRJRAM"
      <4>1. Writing => bus = Cpu!Program /\ round <= Rounds
        BY Zenon DEF BusState
      <4> QED
        BY <1>5, <4>1, ProgramWrites, Zenon
    <3> QED
      BY <1>4, <3>1, Zenon
  <2>2. Copy
    BY <1>1, <1>5, CopyMoves
  <2>3. round' = 0 \/ (round' = 1 /\ step' = 0)
    <3>1. CASE round' = 0
      BY <3>1
    <3>2. CASE round' # 0
      <4>1. Cpu!Advance /\ Writing
        BY <2>2, <3>2, Zenon DEF Copy
      <4>2. round <= Rounds
        BY <4>1, Zenon DEF BusState
      <4> QED
        BY <1>5, <3>2, <4>1, <4>2, Advances, Zenon
    <3> QED
      BY <3>1, <3>2
  <2>4. Forwarded' = Forwarded /\ round' \in 0..1
    BY <1>5, <2>3 DEF Forwarded
  <2>5. ~(round > 0)
    BY <1>5
  <2>6. Writing' => round' = 0
    BY <2>2, Zenon DEF Copy, Writing
  <2> QED
    BY <1>3, <2>1, <2>4, <2>5, <2>6, Zenon
<1>6. CASE round = 1
  <2>1. Rest \/ Issue \/ HoldWrite \/ EndWrite
    BY <1>1, <1>6, CpuMoves
  <2>2. round > 0 /\ round # 0
    BY <1>6
  <2>3. wready_r
    BY <2>2, Zenon DEF Loading
  <2>4. Writing => bus.region # "MPRJRAM"
    BY <1>6, WriteOnBus
  <2>5. CASE EndWrite
    <3>1. wbs_ack_r /\ Writing /\ since = 2 /\ wbs_dat_r = bus.dat
      BY <2>2, <2>5 DEF EndWrite, BusState
    <3>2. step < StartStep
      <4>1. step # StartStep /\ step <= StartStep
        BY <1>6, <3>1 DEF Loading
      <4> QED
        BY <4>1, SocTypes, ProgramNumbers
    <3>3. bus.dat = Taps[step] /\ round <= Rounds
      BY <1>6, <3>1, <3>2, WriteOnBus
    <3>4. round' = 1 /\ step' = step + 1
      <4>1. step # DoneStep /\ Cpu!Advance
        BY <2>5, <3>2, SocTypes, ProgramNumbers DEF EndWrite
      <4> QED
        BY <1>6, <3>3, <4>1, Advances
    <3> QED
      BY <1>3, <1>6, <2>3, <2>4, <2>5, <3>1, <3>2, <3>3, <3>4, Zenon
  <2>6. CASE Rest \/ Issue \/ HoldWrite
    <3>1. ~(wbs_ack_r /\ bus.region # "MPRJRAM")
      BY <1>4, <2>6, Zenon DEF Rest, Issue, HoldWrite
    <3>2. round' = round /\ step' = step
      BY <2>6, Zenon DEF Rest, Issue, HoldWrite
    <3>3. Forwarded' = Forwarded /\ round' \in 0..1 /\ round' > 0
      BY <1>6, <3>2 DEF Forwarded
    <3> QED
      BY <1>3, <2>2, <2>6, <3>1, <3>2, <3>3, Zenon
  <2> QED
    BY <2>1, <2>5, <2>6
<1> QED
  BY <1>2, <1>5, <1>6

LEMMA LoadingStep ==
  ASSUME SocInvariant, SocTick, wb_ps = "TAP", round <= 1
  PROVE  Phase'
<1>1. /\ Invariant /\ SocTypeOK /\ Position /\ BusState /\ Loading
      /\ EngineStep /\ BridgeStep
  BY TickParts, Zenon DEF SocInvariant, Phase
<1>2. /\ ps' = "IDLE" /\ wready_r' = TRUE
      /\ Forwarded \in 0..TapNum
      /\ tap_A_r' = IF Forwarded = 0 THEN AddrSpace - 1 ELSE Forwarded - 1
      /\ tap_WE_r' => tap_EN_r' /\ awvalid_r
      /\ \A i \in Slot : i < Forwarded => TapSettled(i)' = Taps[i]
      /\ ~awvalid_r => /\ tap_WE_r' = FALSE
                       /\ \A i \in Slot : i < Forwarded => tapRAM'[i] = Taps[i]
  BY <1>1, TapsTaken, Zenon
<1>3. /\ wb_ps' = IF Writing /\ bus.dat = TAP_DONE THEN "AP_START" ELSE "TAP"
      /\ ss_tlast_r' = FALSE /\ arvalid_r' = FALSE
  BY <1>1, BridgeInTap, Zenon
<1>4. (awvalid_r => Forwarded > 0) /\ awaddr_r = 28 + 4 * Forwarded
  BY <1>1 DEF Loading, Forwarded
<1>5. ASSUME round = 1, EndWrite, step < StartStep, round' = 1, step' = step + 1,
             awvalid_r' = TRUE, awaddr_r' = (awaddr_r + 4) % AddrSpace,
             wdata_r' = Taps[step]
      PROVE  Phase'
  <2>1. Forwarded = step /\ Forwarded' = step + 1 /\ Taken' = Forwarded
    BY <1>1, <1>5, SocTypes DEF Forwarded, Taken
  <2>2. awaddr_r' = 28 + 4 * Forwarded'
    BY <1>2, <1>4, <1>5, <2>1, ProgramNumbers DEF AddrSpace
  <2>3. Writing /\ ~Writing' /\ bus.dat # TAP_DONE
    <3>1. Writing /\ ~Writing'
      BY <1>5 DEF EndWrite, Writing
    <3>2. step # StartStep
      BY <1>1, <1>5, SocTypes, ProgramNumbers
    <3> QED
      BY <1>1, <1>5, <3>1, <3>2, WriteOnBus
  <2>4. wb_ps' = "TAP"
    BY <1>3, <2>3
  <2>5. step' <= StartStep /\ step' > 0 /\ step' - 1 = step
    BY <1>1, <1>5, SocTypes, ProgramNumbers
  <2>6. Loading'
    BY <1>2, <1>4, <1>5, <2>1, <2>2, <2>3, <2>5, Zenon DEF Loading
  <2> QED
    BY <1>5, <2>4, <2>6 DEF Phase
<1>6. ASSUME Forwarded' = Forwarded, round' \in 0..1,
             round > 0 => round' > 0 /\ step' = step /\ (Rest \/ Issue \/ HoldWrite),
             round = 0 /\ Writing' => round' = 0,
             awvalid_r' = FALSE, awaddr_r' = awaddr_r
      PROVE  Phase'
  <2>1. Taken' = Forwarded
    BY <1>6 DEF Taken
  <2>2. CASE ~(Writing /\ bus.dat = TAP_DONE)
    <3>1. wb_ps' = "TAP"
      BY <1>3, <2>2
    <3>2. round' > 0 => step' <= StartStep
      BY <1>2, <1>6, ProgramNumbers DEF Forwarded
    <3>3. ASSUME step' = StartStep, Writing', round' > 0 PROVE since' = 1
      <4>1. round > 0
        BY <1>1, <1>6, <3>3, SocTypes
      <4>2. ~HoldWrite
        BY <1>1, <1>6, <2>2, <3>3, <4>1, WriteOnBus, Zenon DEF HoldWrite
      <4> QED
        BY <1>6, <3>3, <4>1, <4>2, Zenon DEF Rest, Issue
    <3>4. Loading'
      BY <1>2, <1>4, <1>6, <2>1, <3>2, <3>3, Zenon DEF Loading
    <3> QED
      BY <1>6, <3>1, <3>4 DEF Phase
  <2>3. CASE Writing /\ bus.dat = TAP_DONE
    <3>1. round > 0
      <4>1. bus = Cpu!Program /\ round <= Rounds
        BY <1>1, <2>3, Zenon DEF BusState
      <4> QED
        BY <1>1, <2>3, <4>1, ProgramWrites, Zenon
    <3>2. step = StartStep
      BY <1>1, <2>3, <3>1, WriteOnBus, Zenon
    <3>3. HoldWrite /\ step' = StartStep /\ round' > 0
      BY <1>6, <2>3, <3>1, <3>2, Zenon DEF Rest, Issue
    <3>4. ~awvalid_r
      BY <1>1, <2>3, Zenon DEF Loading
    <3>5. Forwarded = TapNum
      BY <1>1, <3>1, <3>2, SocTypes, ProgramNumbers DEF Forwarded
    <3>6. \A i \in Slot : i < Forwarded
      BY <3>5, ProgramNumbers
    <3>7. Loaded'
      BY <1>2, <3>4, <3>6, Zenon DEF Loaded
    <3>8. wb_ps' = "AP_START"
      BY <1>3, <2>3
    <3>9. ~TapWrite(Wires)' /\ ~ApStart(Wires)'
      BY <1>6 DEF TapWrite, ApStart, Wires
    <3>10. Launching'
      BY <1>2, <1>3, <3>3, <3>8, <3>9 DEF Launching, HoldWrite
    <3> QED
      BY <1>3, <3>3, <3>7, <3>8, <3>10 DEF Phase
  <2> QED
    BY <2>2, <2>3
<1> QED
  BY <1>1, <1>5, <1>6, LoadingForwards, Zenon

\* TAP after a run: nothing moves but the next AP_START, and at the shortest
\* RestartGap the bridge forwards even that, to an address the engine ignores.
LEMMA IdlingStep ==
  ASSUME SocInvariant, SocTick, wb_ps = "TAP", round > 1
  PROVE  Phase'
<1>1. /\ Invariant /\ SocTypeOK /\ Position /\ BusState /\ Idling /\ Loaded
      /\ EngineStep /\ BridgeStep /\ Cpu!CpuClock(wbs_ack_o)
  BY TickParts, Zenon DEF SocInvariant, Phase
<1>2. round > 0 /\ StartStep # DoneStep
  BY <1>1, SocTypes, ProgramNumbers
<1>3. Rest \/ Issue \/ HoldWrite \/ EndWrite
  BY <1>1, <1>2, CpuMoves
<1>4. ps' = "IDLE" /\ Loaded'
  <2>1. ~ApStart(Wires) /\ ~TapWrite(Wires) /\ ps = "IDLE"
    BY <1>1, WireReads, Zenon DEF Idling
  <2> QED
    BY <1>1, <2>1, EngineIdle, LoadedStays, SocTypes, Zenon
<1>5. /\ wb_ps' = IF Writing /\ bus.dat = TAP_DONE THEN "AP_START" ELSE "TAP"
      /\ ss_tlast_r' = FALSE /\ arvalid_r' = FALSE
  BY <1>1, BridgeInTap, Zenon
<1>6. awaddr_r = 0 /\ step = StartStep /\ (Writing => bus.dat = TAP_DONE)
  BY <1>1, <1>2, WriteOnBus, Zenon DEF Idling
<1>7. ASSUME Rest \/ Issue \/ HoldWrite
      PROVE  awvalid_r' = FALSE /\ awaddr_r' = 0 /\ round' = round /\ step' = StartStep
  <2>1. ~(wbs_ack_r /\ bus.region # "MPRJRAM")
    BY <1>1, <1>7, Zenon DEF Rest, Issue, HoldWrite, BusState, Writing
  <2>2. awvalid_r' = FALSE /\ awaddr_r' = 0
    BY <1>1, <1>6, <2>1, BridgeInTap, Zenon
  <2> QED
    BY <1>6, <1>7, <2>2, Zenon DEF Rest, Issue, HoldWrite
<1>8. CASE Rest \/ Issue
  <2>1. wb_ps' = "TAP"
    BY <1>5, <1>8, Zenon DEF Rest, Issue
  <2>2. Idling'
    BY <1>4, <1>7, <1>8, Zenon DEF Idling
  <2>3. round' > 1 /\ round' > 0 /\ ~(round' <= 1)
    <3>1. round' = round /\ round \in Nat
      BY <1>1, <1>7, <1>8, SocTypes, Zenon
    <3> QED
      BY <3>1
  <2> QED
    BY <1>4, <2>1, <2>2, <2>3 DEF Phase
<1>9. CASE HoldWrite
  <2>1. wb_ps' = "AP_START"
    BY <1>5, <1>6, <1>9, Zenon DEF HoldWrite
  <2>2. ~TapWrite(Wires)' /\ ~ApStart(Wires)'
    BY <1>7, <1>9 DEF TapWrite, ApStart, Wires
  <2>3. Launching'
    BY <1>4, <1>5, <1>7, <1>9, <2>1, <2>2 DEF Launching, HoldWrite
  <2> QED
    BY <1>2, <1>4, <1>5, <1>7, <1>9, <2>1, <2>3 DEF Phase
<1>10. CASE EndWrite
  <2>1. wb_ps' = "AP_START"
    BY <1>5, <1>6, <1>10, Zenon DEF EndWrite
  <2>2. awaddr_r' = 4 \/ (awaddr_r' = 0 /\ awvalid_r' = FALSE)
    <3>1. \/ awaddr_r' = (awaddr_r + 4) % AddrSpace
          \/ awaddr_r' = awaddr_r /\ awvalid_r' = FALSE
      BY <1>1, BridgeInTap, Zenon
    <3> QED
      BY <1>6, <3>1 DEF AddrSpace
  <2>3. ~TapWrite(Wires)' /\ ~ApStart(Wires)'
    BY <2>2 DEF TapWrite, ApStart, Wires, CoefAddr
  <2>4. round' = round /\ step' = StartStep + 1
    BY <1>1, <1>2, <1>6, <1>10, WriteOnBus, Advances DEF EndWrite
  <2>5. ~Writing' /\ since' = 3
    BY <1>10 DEF EndWrite, Writing
  <2>6. Launching'
    BY <1>4, <1>5, <2>1, <2>3, <2>4, <2>5, Zenon DEF Launching
  <2> QED
    BY <1>2, <1>4, <1>5, <2>1, <2>4, <2>6 DEF Phase
<1> QED
  BY <1>3, <1>8, <1>9, <1>10

\* AP_START: the bridge writes ap_start, whatever is on the bus.
LEMMA LaunchStep ==
  ASSUME SocInvariant, SocTick, wb_ps = "AP_START"
  PROVE  Phase'
<1>1. /\ Invariant /\ SocTypeOK /\ Position /\ BusState /\ Launching /\ Loaded /\ round > 0
      /\ EngineStep /\ BridgeStep /\ Cpu!CpuClock(wbs_ack_o)
  BY TickParts DEF SocInvariant, Phase
<1>2. Rest \/ Issue \/ HoldWrite \/ EndWrite
  BY <1>1, CpuMoves
<1>3. ps' = "IDLE" /\ Loaded'
  <2>1. ~ApStart(Wires) /\ ~TapWrite(Wires) /\ ps = "IDLE"
    BY <1>1, Zenon DEF Launching
  <2> QED
    BY <1>1, <2>1, EngineIdle, LoadedStays, SocTypes, Zenon
<1>4. /\ wb_ps' = "DATA" /\ ss_tlast_r' = FALSE /\ arvalid_r' = FALSE
      /\ awvalid_r' = TRUE /\ wvalid_r' = TRUE /\ awaddr_r' = 0 /\ wdata_r' = 1
  BY <1>1, BridgeInStart, Zenon
<1>5. ApStart(Wires)' /\ ~TapWrite(Wires)'
  BY <1>4 DEF TapWrite, ApStart, Wires, CoefAddr
<1>6. /\ round' > 0 /\ step' = StartStep + 1
      /\ \/ ~Writing' /\ since' \in {3, 4}
         \/ Writing' /\ since' = 1
  <2>1. CASE step = StartStep /\ Writing /\ since = 2
    <3>1. EndWrite
      BY <1>2, <2>1 DEF Rest, Issue, HoldWrite
    <3>2. round <= Rounds /\ step # DoneStep
      BY <1>1, <2>1, WriteOnBus, SocTypes, ProgramNumbers
    <3>3. round' = round /\ step' = StartStep + 1
      BY <1>1, <2>1, <3>1, <3>2, Advances DEF EndWrite
    <3> QED
      BY <1>1, <3>1, <3>3 DEF EndWrite, Writing
  <2>2. CASE step = StartStep + 1 /\ ~Writing /\ since = 3
    <3>1. Rest \/ Issue
      BY <1>2, <2>2 DEF HoldWrite, EndWrite
    <3> QED
      BY <1>1, <2>2, <3>1 DEF Rest, Issue
  <2> QED
    BY <1>1, <2>1, <2>2 DEF Launching
<1>7. Launching'
  BY <1>3, <1>4, <1>5, <1>6 DEF Launching
<1> QED
  BY <1>3, <1>4, <1>6, <1>7 DEF Phase

\* DATA, the engine still idle: ap_start is on its port, and the run begins.
LEMMA RunBegins ==
  ASSUME SocInvariant, SocTick, wb_ps = "DATA", ps = "IDLE"
  PROVE  Phase'
<1>1. /\ Invariant /\ SocTypeOK /\ Position /\ BusState /\ Launching /\ Loaded /\ round > 0
      /\ EngineStep /\ BridgeStep /\ Cpu!CpuClock(wbs_ack_o)
  BY TickParts DEF SocInvariant, Phase
<1>2. /\ ApStart(Wires) /\ ~TapWrite(Wires) /\ step = StartStep + 1
      /\ \/ ~Writing /\ since \in {3, 4}
         \/ Writing /\ since = 1
  BY <1>1 DEF Launching
<1>3. Rest \/ Issue \/ HoldWrite
  <2>1. ~EndWrite
    BY <1>2 DEF EndWrite
  <2> QED
    BY <1>1, <2>1, CpuMoves, Zenon
<1>4. ps' = "PEND" /\ xs' = <<>> /\ ended' = FALSE /\ Loaded'
  BY <1>1, <1>2, EngineIdle, LoadedStays, SocTypes, Zenon
<1>5. step # DoneStep /\ step \in (StartStep + 1)..DoneStep
  BY <1>2, ProgramNumbers
<1>6. /\ wb_ps' = "DATA" /\ awvalid_r' = FALSE /\ arvalid_r' = FALSE
  BY <1>1, <1>5, WriteOnBus, BridgeInData, Zenon
<1>7. ss_tlast_r' <=> Writing /\ step = LastStep
  BY <1>1, <1>5, WriteOnBus, BridgeInData
<1>8. round' = round /\ step' = step
  BY <1>3 DEF Rest, Issue, HoldWrite
<1>9. SamplesOf(step - StartStep - 1)'
  BY <1>2, <1>4, <1>8, ProgramNumbers DEF SamplesOf
<1>10. ASSUME Writing', since' = 2
       PROVE  ss_tvalid_r' /\ ss_tdata_r' = bus'.dat /\ (ss_tlast_r' <=> step' = LastStep)
  <2>1. Writing /\ bus' = bus
    BY <1>2, <1>3, <1>10 DEF Rest, Issue, HoldWrite
  <2>2. ~ss_tvalid_r
    BY <1>1, <1>2 DEF BusState
  <2> QED
    BY <1>1, <1>7, <1>8, <2>1, <2>2, WriteOnBus, BridgeInData, Zenon
<1>11. ASSUME ss_tlast_r' PROVE Writing' /\ since' = 2
  BY <1>3, <1>7, <1>11 DEF Rest, Issue, HoldWrite
<1>12. Streaming'
  BY <1>4, <1>5, <1>6, <1>8, <1>9, <1>10, <1>11 DEF Streaming, StartStep, DoneStep
<1> QED
  BY <1>1, <1>4, <1>6, <1>8, <1>12 DEF Phase

-----------------------------------------------------------------------------
\* DATA, in a run: the bridge, the processor and what the engine accepts.  A write
\* ends only when the engine is waiting for it.
LEMMA StreamMoves ==
  ASSUME SocInvariant, SocTick, wb_ps = "DATA", ps # "IDLE"
  PROVE  /\ Streaming /\ Loaded' /\ ~arvalid_r /\ round > 0 /\ StartStep \in Nat
         /\ awvalid_r' = FALSE /\ awaddr_r' = 0 /\ arvalid_r' = FALSE
         /\ Rest \/ Issue \/ HoldWrite \/ EndWrite
         /\ wb_ps' = IF Writing /\ step = DoneStep THEN "DONE" ELSE "DATA"
         /\ ss_tlast_r' <=> Writing /\ step \in {LastStep, DoneStep}
         /\ ~HoldWrite => ss_tdata_r' = ss_tdata_r
         /\ HoldWrite => ss_tvalid_r' = TRUE /\ ss_tdata_r' = bus'.dat
         /\ EndWrite => ps = "PEND" /\ ss_tvalid_r /\ ss_tdata_r = bus.dat
         /\ ~EndWrite => /\ round' = round /\ step' = step /\ xs' = xs
                         /\ ended' <=> ended
                         /\ ps = "PEND" => ~ss_tvalid_r
<1>1. /\ Invariant /\ SocTypeOK /\ Position /\ BusState /\ Streaming /\ Loaded /\ round > 0
      /\ EngineStep /\ BridgeStep /\ Cpu!CpuClock(wbs_ack_o) /\ ~arvalid_r
  BY TickParts DEF SocInvariant, Phase
<1>2. Rest \/ Issue \/ HoldWrite \/ EndWrite
  BY <1>1, CpuMoves
<1>3. Loaded'
  BY <1>1, LoadedStays, SocTypes, Zenon
<1>4. /\ awvalid_r' = FALSE /\ awaddr_r' = 0 /\ arvalid_r' = FALSE
  BY <1>1, BridgeInData, Zenon
<1>5. wb_ps' = IF Writing /\ step = DoneStep THEN "DONE" ELSE "DATA"
  BY <1>1, BridgeInData, WriteOnBus, Zenon
<1>6. ss_tlast_r' <=> Writing /\ step \in {LastStep, DoneStep}
  BY <1>1, BridgeInData, WriteOnBus, Zenon
<1>7. ss_tvalid_r => Writing /\ since = 2
  BY <1>1, Zenon DEF BusState
<1>8. EndWrite => ps = "PEND" /\ ss_tvalid_r /\ ss_tdata_r = bus.dat
  BY <1>1, Zenon DEF EndWrite, Streaming
<1>9. ASSUME ~EndWrite PROVE ~(Writing /\ since = 2)
  <2>1. HoldWrite => since # 2
    BY DEF HoldWrite
  <2> QED
    BY <1>2, <1>9, <2>1, Zenon DEF Rest, Issue
<1>10. ASSUME HoldWrite PROVE ss_tvalid_r' = TRUE /\ ss_tdata_r' = bus'.dat
  <2>1. Writing /\ bus' = bus /\ ~ss_tvalid_r
    BY <1>7, <1>10 DEF HoldWrite
  <2> QED
    BY <1>1, <2>1, WriteOnBus, BridgeInData, Zenon
<1>11. ASSUME ~HoldWrite PROVE ss_tdata_r' = ss_tdata_r
  <2>1. Writing => ss_tvalid_r
    BY <1>2, <1>8, <1>11, Zenon DEF Rest, Issue
  <2> QED
    BY <1>1, <2>1, BridgeInData, Zenon
<1>12. ASSUME ~EndWrite
       PROVE  /\ round' = round /\ step' = step /\ xs' = xs
              /\ ended' <=> ended
              /\ ~ss_tvalid_r
  <2>1. ~ss_tvalid_r
    BY <1>7, <1>9, <1>12, Zenon
  <2>2. round' = round /\ step' = step
    BY <1>2, <1>12, Zenon DEF Rest, Issue, HoldWrite
  <2>3. ss_tlast_r => ended
    BY <1>1, <1>9, <1>12, Zenon DEF Streaming
  <2> QED
    BY <1>1, <2>1, <2>2, <2>3, EngineRuns, SocTypes, Zenon
<1>13. StartStep \in Nat
  BY ProgramNumbers
<1> QED
  BY <1>1, <1>2, <1>3, <1>4, <1>5, <1>6, <1>8, <1>10, <1>11, <1>12, <1>13, Zenon

\* The engine waits: it stays, or the sample of the write that ends is accepted.
LEMMA PendStep ==
  ASSUME SocInvariant, SocTick, wb_ps = "DATA", ps = "PEND"
  PROVE  Phase'
<1>1. /\ Invariant /\ SocTypeOK /\ Position /\ BusState /\ EngineStep /\ round > 0 /\ Streaming
  BY StreamMoves, TickParts, Zenon DEF SocInvariant
<1>2. /\ Rest \/ Issue \/ HoldWrite \/ EndWrite
      /\ Loaded' /\ awvalid_r' = FALSE /\ arvalid_r' = FALSE
  BY StreamMoves, Zenon
<1>3. ~ended /\ step # DoneStep
  BY <1>1, Zenon DEF Invariant, PendState, Streaming
<1>4. wb_ps' = "DATA" /\ (ss_tlast_r' <=> Writing /\ step = LastStep)
  BY <1>3, StreamMoves, Zenon
<1>5. /\ step \in (StartStep + 1)..DoneStep /\ SamplesOf(step - StartStep - 1)
      /\ DoneStep = LastStep + 1 /\ StartStep \in Nat /\ LastStep \in Nat
  BY <1>1, ProgramNumbers DEF Streaming
<1>6. CASE EndWrite
  <2>1. /\ ss_tvalid_r /\ ss_tdata_r = bus.dat /\ Writing /\ since = 2
        /\ ss_tdata_r' = ss_tdata_r /\ since' = 3 /\ ~Writing'
    BY <1>6, StreamMoves DEF EndWrite, HoldWrite, Writing
  <2>2. ps' = "START" /\ cnt_r' = 0 /\ xs' = Append(xs, bus.dat)
    BY <1>1, <2>1, EnginePend, EngineRuns, SocTypes, Zenon
  <2>3. round' = round /\ step' = step + 1
    BY <1>1, <1>3, <1>6, <2>1, Advances, WriteOnBus, Zenon DEF EndWrite
  <2>4. step \in (StartStep + 1)..LastStep /\ step' \in (StartStep + 1)..DoneStep
    BY <1>3, <1>5, <2>3
  <2>5. bus.dat = Data[round][step - StartStep - 1]
    BY <1>1, <2>1, <2>4, WriteOnBus, Zenon
  <2>6. SamplesOf(step - StartStep - 1)'
    <3>1. xs \in Seq(Word) /\ bus.dat \in Word
      BY <1>1 DEF SocTypeOK, TypeOK
    <3>2. /\ step # Cpu!StartStep /\ step' # Cpu!StartStep
          /\ StartStep' = StartStep
      BY <1>5, <2>4 DEF StartStep, Cpu!StartStep
    <3>3. EngineRound = round /\ EngineRound' = round
      BY <2>3, <3>2 DEF EngineRound, Cpu!StartStep
    <3> DEFINE n == step - StartStep - 1
    <3>4. n \in Nat /\ Len(xs) = n /\ \A k \in 1..n : xs[k] = Data[round][k - 1]
      BY <1>5, <3>3 DEF SamplesOf
    <3>5. Len(xs') = n + 1 /\ xs'[n + 1] = Data[round][n] /\ (n + 1) - 1 = n
      BY <2>2, <2>5, <3>1, <3>4
    <3>6. \A k \in 1..n : xs'[k] = xs[k]
      BY <2>2, <3>1, <3>4
    <3>7. ASSUME NEW k \in 1..(n + 1) PROVE xs'[k] = Data[round][k - 1]
      BY <3>4, <3>5, <3>6
    <3>8. step' - StartStep - 1 = n + 1
      BY <1>5, <2>3
    <3> HIDE DEF n
    <3> QED
      BY <3>2, <3>3, <3>5, <3>7, <3>8, Zenon DEF SamplesOf
  <2>7. ended' <=> step' = DoneStep
    <3>1. ss_tlast_r <=> step = LastStep
      BY <1>1, <2>1, Zenon DEF Streaming
    <3>2. step = LastStep <=> step' = DoneStep
      BY <1>5, <2>3
    <3> QED
      BY <1>1, <1>3, <3>1, <3>2, EngineRuns, SocTypes, Zenon
  <2>8. ss_tlast_r' => step' = DoneStep
    BY <1>4, <1>5, <2>3
  <2>9. ss_tdata_r' = xs'[Len(xs')]
    <3>1. xs \in Seq(Word) /\ bus.dat \in Word
      BY <1>1 DEF SocTypeOK, TypeOK
    <3> QED
      BY <2>1, <2>2, <3>1
  <2>10. Streaming'
    BY <1>2, <2>1, <2>2, <2>4, <2>6, <2>7, <2>8, <2>9
       DEF Streaming, StartStep, DoneStep, Cpu!StartStep, Cpu!DoneStep, Cpu!LastStep
  <2> QED
    BY <1>1, <1>2, <1>4, <2>2, <2>3, <2>10 DEF Phase
<1>7. CASE ~EndWrite
  <2>1. /\ round' = round /\ step' = step /\ xs' = xs /\ ended' = ended /\ ~ss_tvalid_r
    <3>1. ended \in BOOLEAN /\ ended' \in BOOLEAN
      BY <1>1 DEF Invariant, TypeOK, EngineStep, Observe
    <3> QED
      BY <1>7, <3>1, StreamMoves
  <2>2. ps' = "PEND"
    BY <1>1, <2>1, EnginePend, Zenon
  <2>3. SamplesOf(step - StartStep - 1)'
    BY <1>5, <2>1 DEF SamplesOf, EngineRound, StartStep, Cpu!StartStep
  <2>4. ASSUME Writing', since' = 2
        PROVE  ss_tvalid_r' /\ ss_tdata_r' = bus'.dat /\ (ss_tlast_r' <=> step' = LastStep)
    <3>1. HoldWrite
      BY <1>2, <1>7, <2>4 DEF Rest, Issue
    <3> QED
      BY <1>4, <2>1, <3>1, StreamMoves, Zenon DEF HoldWrite
  <2>5. ss_tlast_r' => Writing' /\ since' = 2
    BY <1>2, <1>4, <1>7 DEF Rest, Issue, HoldWrite
  <2>6. Streaming'
    BY <1>2, <1>3, <1>5, <2>1, <2>2, <2>3, <2>4, <2>5
       DEF Streaming, StartStep, DoneStep, LastStep, Cpu!StartStep, Cpu!DoneStep, Cpu!LastStep
  <2> QED
    BY <1>1, <1>2, <1>4, <2>1, <2>2, <2>6 DEF Phase
<1> QED
  BY <1>6, <1>7

\* DATA_DONE is on the bus: the bridge turns to the status, wherever the engine is in
\* the last sample's round or after it.
LEMMA StreamEnds ==
  ASSUME SocInvariant, SocTick, wb_ps = "DATA", ps # "IDLE", HoldWrite, step = DoneStep
  PROVE  Phase'
<1>1. /\ Invariant /\ SocTypeOK /\ EngineStep /\ round > 0 /\ Streaming
      /\ Loaded' /\ awvalid_r' = FALSE /\ awaddr_r' = 0 /\ arvalid_r' = FALSE
      /\ ~arvalid_r /\ wb_ps' = "DONE" /\ StartStep \in Nat
  BY StreamMoves, TickParts, Zenon DEF SocInvariant, HoldWrite
<1>2. ended /\ ps # "PEND"
  BY <1>1, Zenon DEF Invariant, PendState, Streaming
<1>3. /\ ~EndWrite /\ Writing /\ Writing' /\ since' = 2
  BY DEF EndWrite, HoldWrite
<1>4. /\ round' = round /\ step' = DoneStep /\ xs' = xs /\ ended'
  BY <1>2, <1>3, StreamMoves, Zenon
<1>5. SamplesOf(DATALEN)'
  BY <1>1, <1>4, ProgramNumbers DEF Streaming, SamplesOf, EngineRound
<1>6. /\ DoneStep' = DoneStep /\ StartStep' = StartStep /\ DoneStep # StartStep
  BY ProgramNumbers DEF StartStep, DoneStep, Cpu!StartStep, Cpu!DoneStep, Cpu!LastStep
<1>7. /\ ps' \notin {"IDLE", "PEND"}
      /\ ps' = "START" => since' <= cnt_r' /\ cnt_r' > 0 /\ (rvalid_r' => rdata_r' = 0)
      /\ ps' = "DONE"  => since' <= round_cnt_r' + 1 /\ (rvalid_r' => rdata_r' = 0)
      /\ ps' = "FINISH" => cnt_r' = 0 /\ ~rvalid_r'
  <2>1. CASE ps = "START"
    <3>1. cnt_r >= 1
      BY <1>1, <1>3, <2>1, Zenon DEF Streaming
    <3> QED
      BY <1>1, <1>3, <2>1, <3>1, EngineStart
  <2>2. CASE ps = "DONE"
    BY <1>1, <1>2, <2>2, EngineDone
  <2>3. CASE ps = "FINISH"
    BY <1>1, <2>3, EngineFinish DEF Streaming
  <2> QED
    BY <1>1, <1>2, <2>1, <2>2, <2>3 DEF Invariant, TypeOK
<1>8. Draining'
  BY <1>1, <1>3, <1>4, <1>5, <1>6, <1>7 DEF Draining
<1> QED
  BY <1>1, <1>4, <1>8 DEF Phase

\* The engine is busy with a sample, or with the end of the run, and no write ends:
\* what remains to be shown is where it goes.
LEMMA StreamRests ==
  ASSUME SocInvariant, SocTick, wb_ps = "DATA", ps \in {"START", "DONE", "FINISH"},
         ~(HoldWrite /\ step = DoneStep),
         ps' \in {"START", "DONE", "PEND", "FINISH"},
         ps' = "PEND" <=> ps = "DONE" /\ ~ended,
         ps' = "START" => IF Writing' THEN ended /\ cnt_r' >= 1 ELSE since' = 3 + cnt_r',
         ps' = "START" => ps = "START" /\ cnt_r' > 0,
         ps' = "DONE" => ps = "START",
         ps' = "DONE" /\ ~ended => IF Writing' THEN since' = 1 ELSE since' = 4 + round_cnt_r',
         ps' = "FINISH" => cnt_r' = 0 /\ ~rvalid_r',
         HoldWrite => ps' = "PEND"
  PROVE  Phase'
<1>1. /\ Invariant /\ SocTypeOK /\ EngineStep /\ round > 0 /\ Streaming
      /\ Rest \/ Issue \/ HoldWrite \/ EndWrite
      /\ Loaded' /\ awvalid_r' = FALSE /\ arvalid_r' = FALSE
  BY StreamMoves, TickParts, Zenon DEF SocInvariant
<1>2. ~EndWrite
  BY StreamMoves
<1>3. /\ round' = round /\ step' = step /\ xs' = xs /\ ended' = ended
  <2>1. ended \in BOOLEAN /\ ended' \in BOOLEAN
    BY <1>1 DEF Invariant, TypeOK, EngineStep, Observe
  <2> QED
    BY <1>2, <2>1, StreamMoves
<1>4. wb_ps' = "DATA"
  <2>1. ~(Writing /\ step = DoneStep)
    BY <1>1, <1>2, Zenon DEF Rest, Issue
  <2> QED
    BY <2>1, StreamMoves, Zenon
<1>5. SamplesOf(step - StartStep - 1)'
  BY <1>1, <1>3 DEF Streaming, SamplesOf, EngineRound, StartStep, Cpu!StartStep
<1>6. ASSUME Writing', since' = 2
      PROVE  /\ ps' = "PEND" /\ ss_tvalid_r' /\ ss_tdata_r' = bus'.dat
             /\ ss_tlast_r' <=> step' = LastStep
  <2>1. HoldWrite /\ step # DoneStep
    BY <1>1, <1>2, <1>6 DEF Rest, Issue
  <2> QED
    BY <1>3, <2>1, StreamMoves, Zenon DEF HoldWrite
<1>7. ss_tlast_r' => Writing' /\ since' = 2
  BY <1>1, <1>2, StreamMoves, Zenon DEF Rest, Issue, HoldWrite
<1>8. /\ ps' = "START" /\ ~ended => ss_tdata_r' = xs'[Len(xs')]
      /\ ps' = "DONE" /\ ~ended => ss_tdata_r' = xs'[Len(xs')]
  <2>1. ps' \in {"START", "DONE"} => ~HoldWrite
    OBVIOUS
  <2>2. ps' \in {"START", "DONE"} => ps = "START" /\ ss_tdata_r' = ss_tdata_r
    BY <2>1, StreamMoves
  <2> QED
    BY <1>1, <1>3, <2>2, Zenon DEF Streaming
<1>9. Streaming'
  BY <1>1, <1>3, <1>5, <1>6, <1>7, <1>8
     DEF Streaming, StartStep, DoneStep, LastStep, Cpu!StartStep, Cpu!DoneStep, Cpu!LastStep
<1> QED
  BY <1>1, <1>3, <1>4, <1>9 DEF Phase

\* The round of a sample: it is over before the next write can begin.
LEMMA RoundStep ==
  ASSUME SocInvariant, SocTick, wb_ps = "DATA", ps = "START"
  PROVE  Phase'
<1>1. /\ Invariant /\ SocTypeOK /\ Position /\ EngineStep /\ round > 0 /\ Streaming
      /\ Rest \/ Issue \/ HoldWrite \/ EndWrite
  BY StreamMoves, TickParts, Zenon DEF SocInvariant
<1>2. ~EndWrite
  BY StreamMoves
<1>3. HoldWrite => step = DoneStep
  BY <1>1, Zenon DEF Streaming, HoldWrite
<1>4. CASE HoldWrite
  BY <1>3, <1>4, StreamEnds
<1>5. CASE Rest \/ Issue
  <2>1. /\ cnt_r \in Nat /\ round_cnt_r \in 1..(TapNum - 1) /\ cnt_r <= round_cnt_r
        /\ round_cnt_r' = round_cnt_r /\ since = 3 + cnt_r
        /\ cnt_r = round_cnt_r => ps' = "DONE"
        /\ cnt_r < round_cnt_r => ps' = "START" /\ cnt_r' = cnt_r + 1
    BY <1>1, <1>5, EngineStart, Zenon DEF Rest, Issue, Streaming
  <2>2. ASSUME Issue, ~ended PROVE cnt_r = round_cnt_r
    <3>1. step \in (StartStep + 2)..LastStep
      <4>1. Len(xs) > 0 /\ Len(xs) = step - StartStep - 1
        BY <1>1 DEF Invariant, StartState, Accepted, TypeOK, Streaming, SamplesOf
      <4>2. step # DoneStep /\ step \in (StartStep + 1)..DoneStep
        BY <1>1, <2>2, Zenon DEF Streaming
      <4> QED
        BY <4>1, <4>2, ProgramNumbers
    <3>2. Cpu!Gap = StreamGap
      <4>1. ~(step = Cpu!StartStep) /\ step \in (Cpu!StartStep + 2)..Cpu!LastStep
        BY <3>1, ProgramNumbers DEF StartStep, LastStep
      <4> QED
        BY <4>1, Zenon DEF Cpu!Gap
    <3> QED
      BY <2>1, <2>2, <3>2, Gaps, ProgramNumbers DEF Issue
  <2>3. ~HoldWrite
    BY <1>5 DEF Rest, Issue, HoldWrite
  <2>4. Rest => ~Writing' /\ since' = 4 + cnt_r
    BY <2>1, Gaps, ProgramNumbers DEF Rest
  <2>5. Issue => Writing' /\ since' = 1
    BY DEF Issue
  <2>6. CASE cnt_r = round_cnt_r
    BY <1>5, <2>1, <2>3, <2>4, <2>5, <2>6, StreamRests
  <2>7. CASE cnt_r < round_cnt_r
    <3>1. Issue => ended
      BY <2>1, <2>2, <2>7
    <3> QED
      BY <1>5, <2>1, <2>3, <2>4, <2>5, <2>7, <3>1, StreamRests
  <2> QED
    BY <2>1, <2>6, <2>7
<1> QED
  BY <1>1, <1>2, <1>4, <1>5

\* The sum leaves, and the engine waits again before a sample is on its port.
LEMMA EmitStep ==
  ASSUME SocInvariant, SocTick, wb_ps = "DATA", ps = "DONE"
  PROVE  Phase'
<1>1. /\ Invariant /\ Streaming
      /\ ps' = IF ended THEN "FINISH" ELSE "PEND"
      /\ cnt_r' = 0 /\ rvalid_r' = FALSE
  BY EngineDone, StreamMoves, TickParts, Zenon DEF SocInvariant
<1>2. CASE HoldWrite /\ step = DoneStep
  BY <1>2, StreamEnds
<1>3. CASE ~(HoldWrite /\ step = DoneStep)
  <2>1. HoldWrite => ~ended
    BY <1>1, <1>3, Zenon DEF Streaming
  <2> QED
    BY <1>1, <1>3, <2>1, StreamRests
<1> QED
  BY <1>2, <1>3

\* The run is over for the engine, which waits for its status to be read.
LEMMA FinishStep ==
  ASSUME SocInvariant, SocTick, wb_ps = "DATA", ps = "FINISH"
  PROVE  Phase'
<1>1. /\ Invariant /\ Streaming /\ ~arvalid_r /\ ended
      /\ ps' = "FINISH" /\ cnt_r' = cnt_r /\ rvalid_r' = FALSE
  BY EngineFinish, StreamMoves, TickParts, Zenon DEF SocInvariant
<1>2. CASE HoldWrite /\ step = DoneStep
  BY <1>2, StreamEnds
<1>3. CASE ~(HoldWrite /\ step = DoneStep)
  <2>1. ~HoldWrite /\ cnt_r = 0
    BY <1>1, <1>3, Zenon DEF Streaming
  <2> QED
    BY <1>1, <1>3, <2>1, StreamRests
<1> QED
  BY <1>2, <1>3

-----------------------------------------------------------------------------
\* DONE: the status is polled.  DATA_DONE may still be on the bus, in its second cycle.
LEMMA DrainMoves ==
  ASSUME SocInvariant, SocTick, wb_ps = "DONE"
  PROVE  /\ Invariant /\ SocTypeOK /\ Position /\ BusState /\ EngineStep /\ round > 0
         /\ Draining /\ Loaded'
         /\ Rest \/ Issue \/ HoldWrite \/ EndWrite
         /\ awvalid_r' = FALSE /\ awaddr_r' = 0 /\ arvalid_r' = TRUE /\ ss_tlast_r' = FALSE
         /\ wb_ps' = IF rvalid_r /\ rdata_r = 4 THEN "TAP" ELSE "DONE"
         /\ ps \in {"IDLE", "START", "DONE", "FINISH"} /\ StartStep \in Nat
         /\ DoneStep # StartStep /\ DoneStep' = DoneStep /\ StartStep' = StartStep
<1>1. /\ Invariant /\ SocTypeOK /\ Position /\ BusState /\ EngineStep /\ round > 0
      /\ Draining /\ Loaded /\ BridgeStep /\ Cpu!CpuClock(wbs_ack_o)
  BY TickParts DEF SocInvariant, Phase
<1>2. Loaded'
  <2>1. ~TapWrite(Wires)
    BY <1>1, WireReads, Zenon DEF Draining
  <2> QED
    BY <1>1, <2>1, LoadedStays, SocTypes, Zenon
<1>3. /\ awvalid_r' = FALSE /\ awaddr_r' = 0 /\ arvalid_r' = TRUE /\ ss_tlast_r' = FALSE
      /\ wb_ps' = IF rvalid_r /\ rdata_r = 4 THEN "TAP" ELSE "DONE"
  BY <1>1, BridgeInDone, Zenon
<1>4. ps \in {"IDLE", "START", "DONE", "FINISH"}
  BY <1>1 DEF Invariant, TypeOK, Draining
<1>5. /\ StartStep \in Nat /\ DoneStep # StartStep
      /\ DoneStep' = DoneStep /\ StartStep' = StartStep
  BY ProgramNumbers DEF StartStep, DoneStep, Cpu!StartStep, Cpu!DoneStep, Cpu!LastStep
<1>6. Rest \/ Issue \/ HoldWrite \/ EndWrite
  BY <1>1, CpuMoves
<1> QED
  BY <1>1, <1>2, <1>3, <1>4, <1>5, <1>6

\* The write of DATA_DONE ends while the engine is still at work.
LEMMA DrainBegins ==
  ASSUME SocInvariant, SocTick, wb_ps = "DONE", ps # "IDLE", step = DoneStep
  PROVE  Phase'
<1>1. /\ Writing /\ since = 2 /\ ~arvalid_r /\ ended
      /\ Invariant /\ Wires \in Ports /\ EngineStep /\ round \in Nat \ {0}
  BY DrainMoves, SocTypes DEF Draining
<1>2. EndWrite
  BY <1>1, DrainMoves DEF Rest, Issue, HoldWrite
<1>3. round' = round + 1 /\ step' = StartStep /\ since' = 3 /\ ~Writing'
  <2>1. round <= Rounds
    BY <1>1, DrainMoves, WriteOnBus
  <2> QED
    BY <1>2, <2>1, DrainMoves, Advances DEF EndWrite, Writing
<1>4. /\ xs' = xs /\ ended'
  BY <1>1, DrainMoves, EngineRuns, Zenon
<1>5. SamplesOf(DATALEN)'
  <2>1. SamplesOf(DATALEN) /\ EngineRound = round /\ EngineRound' = round
    BY <1>1, <1>3, DrainMoves DEF Draining, EngineRound, StartStep
  <2> QED
    BY <1>4, <2>1, Zenon DEF SamplesOf
<1>6. /\ ps' \notin {"IDLE", "PEND"} /\ ~(rvalid_r /\ rdata_r = 4)
      /\ ps' = "START" => since' <= cnt_r' /\ cnt_r' > 0 /\ ~rvalid_r'
      /\ ps' = "DONE"  => since' <= round_cnt_r' + 1 /\ ~rvalid_r'
      /\ ps' = "FINISH" => cnt_r' = 0 /\ ~rvalid_r'
  <2>1. CASE ps = "START"
    <3>1. since <= cnt_r /\ (rvalid_r => rdata_r = 0)
      BY <2>1, DrainMoves DEF Draining
    <3> QED
      BY <1>1, <1>3, <2>1, <3>1, EngineStart
  <2>2. CASE ps = "DONE"
    <3>1. rvalid_r => rdata_r = 0
      BY <2>2, DrainMoves DEF Draining
    <3> QED
      BY <1>1, <2>2, <3>1, EngineDone
  <2>3. CASE ps = "FINISH"
    <3>1. cnt_r = 0 /\ ~rvalid_r
      BY <1>1, <2>3, DrainMoves DEF Draining
    <3> QED
      BY <1>1, <2>3, <3>1, EngineFinish
  <2> QED
    BY <2>1, <2>2, <2>3, DrainMoves
<1>7. Draining'
  BY <1>1, <1>3, <1>4, <1>5, <1>6, DrainMoves, ProgramNumbers DEF Draining
<1> QED
  BY <1>1, <1>3, <1>6, <1>7, DrainMoves DEF Phase

\* The engine ends its round and the run.  It takes TapNum + 3 cycles at most, so that
\* the next AP_START comes with its last answer or after it.
LEMMA DrainGoesOn ==
  ASSUME SocInvariant, SocTick, wb_ps = "DONE", ps # "IDLE", step = StartStep
  PROVE  Phase'
<1>1. /\ ~Writing /\ arvalid_r /\ ended /\ round > 1
      /\ Invariant /\ Wires \in Ports /\ EngineStep /\ round \in Nat /\ since \in Nat
  BY DrainMoves, SocTypes DEF Draining
<1>2. Rest \/ Issue
  BY <1>1, DrainMoves, Zenon DEF HoldWrite, EndWrite
<1>3. /\ round' = round /\ step' = StartStep
      /\ Rest => since' \in Nat /\ since' <= since + 1
  BY <1>1, <1>2 DEF Rest, Issue
<1>4. Issue => since >= TapNum + 3
  <2>1. Cpu!Gap = RestartGap
    <3>1. step = Cpu!StartStep /\ ~(step \in (Cpu!StartStep + 2)..Cpu!LastStep)
      BY DrainMoves DEF StartStep
    <3> QED
      BY <1>1, <3>1, Zenon DEF Cpu!Gap
  <2> QED
    BY <1>1, <2>1, Gaps, ProgramNumbers DEF Issue
<1>5. xs' = xs /\ (ps' # "IDLE" => ended')
  BY <1>1, DrainMoves, EngineRuns, Zenon
<1>6. SamplesOf(DATALEN)'
  <2>1. SamplesOf(DATALEN) /\ EngineRound' = EngineRound
    BY <1>3, DrainMoves, Zenon DEF Draining, EngineRound, StartStep, Cpu!StartStep
  <2> QED
    BY <1>5, <2>1, Zenon DEF SamplesOf
<1>7. /\ ps' # "PEND" /\ ~(rvalid_r /\ rdata_r = 4)
      /\ Issue => ps' = "IDLE"
      /\ ps' = "START" => since' <= cnt_r' /\ cnt_r' > 0 /\ (rvalid_r' => rdata_r' = 0)
      /\ ps' = "DONE"  => since' <= round_cnt_r' + 1 /\ (rvalid_r' => rdata_r' = 0)
      /\ ps' = "FINISH" =>
           \/ cnt_r' = 0 /\ ~rvalid_r' /\ since' <= TapNum + 1
           \/ cnt_r' = 0 /\ rvalid_r' /\ rdata_r' = 2 /\ since' <= TapNum + 2
           \/ cnt_r' = 1 /\ ~rvalid_r' /\ since' <= TapNum + 3
      /\ ps' = "IDLE" => rvalid_r' /\ rdata_r' = 4 /\ Len(ys') = DATALEN
  <2>1. CASE ps = "START"
    <3>1. since <= cnt_r /\ (rvalid_r => rdata_r = 0)
      BY <2>1, DrainMoves DEF Draining
    <3>2. ~Issue
      BY <1>1, <1>4, <2>1, <3>1, EngineStart, ProgramNumbers
    <3> QED
      BY <1>1, <1>2, <1>3, <2>1, <3>1, <3>2, EngineStart, ProgramNumbers
  <2>2. CASE ps = "DONE"
    <3>1. since <= round_cnt_r + 1 /\ (rvalid_r => rdata_r = 0)
      BY <2>2, DrainMoves DEF Draining
    <3>2. ~Issue
      BY <1>1, <1>4, <2>2, <3>1, EngineDone, ProgramNumbers
    <3> QED
      BY <1>1, <1>2, <1>3, <2>2, <3>1, <3>2, EngineDone, ProgramNumbers
  <2>3. CASE ps = "FINISH"
    <3>1. \/ cnt_r = 0 /\ ~rvalid_r /\ since <= TapNum + 1
          \/ cnt_r = 0 /\ rvalid_r /\ rdata_r = 2 /\ since <= TapNum + 2
          \/ cnt_r = 1 /\ ~rvalid_r /\ since <= TapNum + 3
      BY <1>1, <2>3, DrainMoves DEF Draining
    <3>2. CASE cnt_r = 0 /\ ~rvalid_r /\ since <= TapNum + 1
      <4>1. ~Issue
        BY <1>1, <1>4, <3>2, ProgramNumbers
      <4> QED
        BY <1>1, <1>2, <1>3, <2>3, <3>2, <4>1, EngineFinish, ProgramNumbers
    <3>3. CASE cnt_r = 0 /\ rvalid_r /\ rdata_r = 2 /\ since <= TapNum + 2
      <4>1. ~Issue
        BY <1>1, <1>4, <3>3, ProgramNumbers
      <4> QED
        BY <1>1, <1>2, <1>3, <2>3, <3>3, <4>1, EngineFinish, ProgramNumbers
    <3>4. CASE cnt_r = 1 /\ ~rvalid_r /\ since <= TapNum + 3
      <4>1. Len(xs) = DATALEN
        BY DrainMoves DEF Draining, SamplesOf
      <4> QED
        BY <1>1, <2>3, <3>4, <4>1, EngineFinish
    <3> QED
      BY <3>1, <3>2, <3>3, <3>4
  <2> QED
    BY <2>1, <2>2, <2>3, DrainMoves
<1>8. Writing' => since' = 1 /\ ps' = "IDLE"
  BY <1>2, <1>7, Zenon DEF Rest, Issue
<1>9. Draining'
  BY <1>1, <1>3, <1>5, <1>6, <1>7, <1>8, DrainMoves DEF Draining
<1> QED
  BY <1>1, <1>3, <1>7, <1>9, DrainMoves DEF Phase

\* The engine has answered 4, and the bridge is ready for the next run.
LEMMA DrainEnds ==
  ASSUME SocInvariant, SocTick, wb_ps = "DONE", ps = "IDLE"
  PROVE  Phase'
<1>1. /\ step = StartStep /\ round > 1 /\ (Writing => since = 1)
      /\ rvalid_r /\ rdata_r = 4 /\ ~awvalid_r
  BY DrainMoves DEF Draining
<1>2. wb_ps' = "TAP"
  BY <1>1, DrainMoves
<1>3. ps' = "IDLE"
  BY <1>1, DrainMoves, EngineIdle, WireReads, Zenon
<1>4. ~EndWrite
  BY <1>1 DEF EndWrite
<1>5. round' = round /\ step' = StartStep
  BY <1>1, <1>4, DrainMoves, Zenon DEF Rest, Issue, HoldWrite
<1>6. Idling'
  BY <1>3, <1>5, DrainMoves, Zenon DEF Idling
<1> QED
  BY <1>1, <1>2, <1>5, <1>6, DrainMoves, SocTypes DEF Phase

-----------------------------------------------------------------------------
\* The engine is in a run only after the bridge has started it.
LEMMA RunPhases ==
  ASSUME Phase, SocTypeOK, ps # "IDLE"
  PROVE  /\ round > 0 /\ Loaded
         /\ (wb_ps = "DATA" /\ Streaming) \/ (wb_ps = "DONE" /\ Draining)
<1>1. wb_ps \in {"TAP", "AP_START", "DATA", "DONE"} /\ (round <= 1 \/ round > 1)
  BY SocTypes
<1>2. wb_ps # "TAP" /\ wb_ps # "AP_START"
  BY <1>1, Zenon DEF Phase, Loading, Idling, Launching
<1> QED
  BY <1>1, <1>2, Zenon DEF Phase

\* The bridge and the program are a master as the engine needs one.
LEMMA MasterInvariant == ASSUME SocInvariant PROVE MasterObeyed
<1>1. SocTypeOK /\ Phase /\ BusState /\ Invariant
  BY DEF SocInvariant
<1>2. HoldsSample(Wires)
  <2>1. ps = "START" /\ cnt_r = 0 => ss_tdata_r = xs[Len(xs)]
    BY <1>1, RunPhases DEF Streaming, Draining
  <2>2. ps = "DONE" /\ ~ended => ss_tdata_r = xs[Len(xs)]
    BY <1>1, RunPhases DEF Streaming, Draining
  <2> QED
    BY <2>1, <2>2, WireReads, Zenon DEF HoldsSample
<1>3. ASSUME ss_tvalid_r PROVE ps = "PEND" \/ ended
  <2>1. Writing /\ since = 2 /\ wb_ps \in {"DATA", "DONE"}
    BY <1>1, <1>3, Zenon DEF BusState
  <2>2. CASE ps = "IDLE"
    BY <1>1, <2>1, <2>2 DEF Phase, Launching, Draining
  <2>3. CASE ps # "IDLE"
    BY <1>1, <2>1, <2>3, RunPhases, Zenon DEF Streaming, Draining
  <2> QED
    BY <2>2, <2>3
<1>4. ASSUME ss_tlast_r PROVE (ps = "PEND" /\ ss_tvalid_r) \/ (ps # "IDLE" /\ ended)
  <2>1. wb_ps \in {"DATA", "DONE"}
    BY <1>1, <1>4, Zenon DEF BusState
  <2>2. CASE ps = "IDLE"
    <3>1. wb_ps # "DATA"
      BY <1>1, <1>4, <2>2, Zenon DEF Phase, Launching
    <3>2. Draining /\ step = DoneStep
      BY <1>1, <1>4, <2>1, <3>1, Zenon DEF Phase, Draining
    <3> QED
      BY <2>2, <3>2, ProgramNumbers DEF Draining
  <2>3. CASE ps # "IDLE"
    BY <1>1, <1>4, <2>3, RunPhases, Zenon DEF Streaming, Draining
  <2> QED
    BY <2>2, <2>3
<1> QED
  BY <1>2, <1>3, <1>4, WireReads, Zenon DEF MasterObeyed, Master, NoOverrun, LastOnTime

-----------------------------------------------------------------------------
\* Every clock edge preserves the invariant.
LEMMA SocInvTick == ASSUME SocInvariant, SocTick PROVE SocInvariant'
<1>1. Invariant /\ SocTypeOK /\ Position /\ BusState /\ BramState /\ Phase
  BY DEF SocInvariant
<1>2. Invariant'
  BY <1>1, MasterInvariant, InvClock, SocTypes, TickParts, Zenon DEF MasterObeyed, EngineStep
<1>3. SocTypeOK'
  BY <1>1, <1>2, SocTypesStep, Zenon DEF Invariant
<1>4. Position' /\ BusState' /\ BramState'
  BY <1>1, PositionStep, BusStep, BramStep, Zenon
<1>5. Phase'
  <2>1. wb_ps \in {"TAP", "AP_START", "DATA", "DONE"} /\ (round <= 1 \/ round > 1)
    BY <1>1, SocTypes
  <2>2. CASE wb_ps = "TAP"
    BY <2>1, <2>2, LoadingStep, IdlingStep
  <2>3. CASE wb_ps = "AP_START"
    BY <2>3, LaunchStep
  <2>4. CASE wb_ps = "DATA"
    <3>1. ps \in {"IDLE", "START", "DONE", "PEND", "FINISH"}
      BY <1>1 DEF SocTypeOK, TypeOK
    <3> QED
      BY <2>4, <3>1, RunBegins, PendStep, RoundStep, EmitStep, FinishStep
  <2>5. CASE wb_ps = "DONE"
    <3>1. step = StartStep \/ step = DoneStep
      BY <2>5, DrainMoves, Zenon DEF Draining
    <3> QED
      BY <2>5, <3>1, DrainBegins, DrainGoesOn, DrainEnds, Zenon
  <2> QED
    BY <2>1, <2>2, <2>3, <2>4, <2>5
<1> QED
  BY <1>2, <1>3, <1>4, <1>5, Zenon DEF SocInvariant

\* What a reset leaves, and power-up, is the beginning of the program.
LEMMA SocInvInit == ASSUME SocInit PROVE SocInvariant
<1>1. StreamInit /\ Bridge!BridgeInit /\ Bram!BramInit /\ Cpu!CpuInit /\ resets = 0
  BY DEF SocInit
<1>2. Invariant /\ TypeOK
  BY <1>1, InvInit DEF Invariant
<1>3. /\ wb_ps = "TAP" /\ ~wbs_ack_r /\ ~awvalid_r /\ ~wvalid_r /\ awaddr_r = 28
      /\ ~ss_tvalid_r /\ ~ss_tlast_r /\ ~arvalid_r
  BY <1>1 DEF Bridge!BridgeInit
<1>4. /\ round = 0 /\ step = 0 /\ since = Cpu!MaxGap /\ fetches = 0
      /\ bus = [req |-> FALSE, we |-> FALSE, region |-> "FIR", off |-> 0, dat |-> 0]
  BY <1>1, Zenon DEF Cpu!CpuInit, Cpu!NoRequest
<1>5. ~Writing /\ ~bus.req /\ ~bus.we /\ bus.region = "FIR" /\ bus.dat = 0
  BY <1>4 DEF Writing
<1>6. SocTypeOK
  <2>1. Wires \in Ports /\ wbs_ack_r \in BOOLEAN /\ wbs_dat_r \in Word
    <3>1. 28 \in Addr
      BY DEF Addr, AddrSpace
    <3> QED
      BY <1>1, <3>1, CommandWords, WireTypes, Zenon DEF Bridge!BridgeInit
  <2>2. ready \in BOOLEAN /\ delayed_count \in 0..DELAYS /\ rdata \in FirWord
    <3>1. 0 \in 0..DELAYS /\ 0 \in FirWord
      BY WordTypes, ProgramNumbers
    <3> QED
      BY <1>1, <3>1, Zenon DEF Bram!BramInit
  <2>3. bram \in [BramAddr -> FirWord]
    BY <1>1, WordTypes DEF Bram!BramInit
  <2>4. /\ round \in 0..(Rounds + 1) /\ step \in 0..(Cpu!DoneStep + CodeLen)
        /\ since \in 0..Cpu!MaxGap /\ fetches \in 0..MaxFetches /\ resets \in 0..MaxResets
    BY <1>1, <1>4, Gaps, ProgramNumbers DEF DoneStep
  <2>5. bus.req \in BOOLEAN /\ bus.we \in BOOLEAN /\ bus.dat \in Word
    BY <1>4, CommandWords
  <2> QED
    BY <1>2, <1>3, <2>1, <2>2, <2>3, <2>4, <2>5 DEF SocTypeOK
<1>7. Position
  BY <1>4, ProgramNumbers DEF Position
<1>8. BusState
  <2>1. wvalid_r = awvalid_r
    BY <1>1, Zenon DEF Bridge!BridgeInit
  <2> QED
    BY <1>3, <1>4, <1>5, <2>1 DEF BusState
<1>9. BramState
  BY <1>1, <1>4 DEF BramState, Bram!BramInit
<1>10. Loading
  <2>1. ps = "IDLE" /\ tap_WE_r = FALSE /\ tap_A_r = AddrSpace - 1
    BY <1>1, Zenon DEF StreamInit, PowerUp
  <2>2. Forwarded = 0 /\ Taken = 0
    BY <1>3, <1>4 DEF Forwarded, Taken
  <2> QED
    BY <1>3, <1>4, <2>1, <2>2, ProgramNumbers DEF Loading
<1>11. Phase
  BY <1>3, <1>4, <1>10 DEF Phase
<1> QED
  BY <1>2, <1>6, <1>7, <1>8, <1>9, <1>11, Zenon DEF SocInvariant

LEMMA SocInvReset == ASSUME SocInvariant, SocReset PROVE SocInvariant'
<1>1. /\ Reset /\ Bridge!BridgeReset /\ Bram!BramReset(bus) /\ Cpu!CpuReset
      /\ resets < MaxResets /\ resets' = resets + 1 /\ SocTypeOK
  BY DEF SocReset, SocInvariant
<1>2. Invariant' /\ TypeOK'
  BY <1>1, TypeReset, InvReset DEF SocTypeOK
<1>3. /\ wb_ps' = "TAP" /\ ~wbs_ack_r' /\ ~awvalid_r' /\ ~wvalid_r' /\ awaddr_r' = 28
      /\ ~ss_tvalid_r' /\ ~ss_tlast_r' /\ ~arvalid_r'
  BY <1>1 DEF Bridge!BridgeReset, Bridge!AxiLite, Bridge!NoSample
<1>4. /\ round' = 0 /\ step' = 0 /\ since' = Cpu!MaxGap /\ fetches' = 0
      /\ bus' = [req |-> FALSE, we |-> FALSE, region |-> "FIR", off |-> 0, dat |-> 0]
  BY <1>1, Zenon DEF Cpu!CpuReset, Cpu!NoRequest
<1>5. ~Writing' /\ ~bus'.req /\ ~bus'.we /\ bus'.region = "FIR" /\ bus'.dat = 0
  BY <1>4 DEF Writing
<1>6. Cpu!MaxGap' = Cpu!MaxGap /\ Cpu!DoneStep' = DoneStep
  BY Zenon DEF Cpu!MaxGap, DoneStep, Cpu!DoneStep, Cpu!LastStep
<1>7. SocTypeOK'
  <2>1. Wires' \in Ports /\ wbs_ack_r' \in BOOLEAN /\ wbs_dat_r' \in Word
    <3>1. 28 \in Addr
      BY DEF Addr, AddrSpace
    <3>2. /\ wbs_ack_r' = FALSE /\ wbs_dat_r' = 0
          /\ awvalid_r' = FALSE /\ wvalid_r' = FALSE /\ awaddr_r' = 28 /\ wdata_r' = 0
          /\ arvalid_r' = FALSE /\ ss_tvalid_r' = FALSE /\ ss_tlast_r' = FALSE /\ ss_tdata_r' = 0
      BY <1>1, Zenon DEF Bridge!BridgeReset, Bridge!AxiLite, Bridge!NoSample
    <3>3. 0 \in Addr /\ 0 \in Word
      BY CommandWords, AddrConstants
    <3> QED
      BY <3>1, <3>2, <3>3 DEF Wires, Ports
  <2>2. ready' \in BOOLEAN /\ delayed_count' \in 0..DELAYS /\ rdata' \in FirWord
    <3>1. 0 \in 0..DELAYS /\ 0 \in FirWord
      BY WordTypes, ProgramNumbers
    <3> QED
      BY <1>1, <3>1, Zenon DEF Bram!BramReset
  <2>3. bram' \in [BramAddr -> FirWord]
    <3>1. bram \in [BramAddr -> FirWord] /\ bus.dat \in FirWord
      BY <1>1, WordTypes DEF SocTypeOK
    <3> QED
      BY <1>1, <3>1 DEF Bram!BramReset, Bram!RamStore
  <2>4. /\ round' \in 0..(Rounds + 1) /\ step' \in 0..(DoneStep + CodeLen)
        /\ since' \in 0..Cpu!MaxGap /\ fetches' \in 0..MaxFetches /\ resets' \in 0..MaxResets
    BY <1>1, <1>4, Gaps, ProgramNumbers DEF SocTypeOK
  <2>5. bus'.req \in BOOLEAN /\ bus'.we \in BOOLEAN /\ bus'.dat \in Word
    BY <1>4, CommandWords
  <2>6. wb_ps' \in {"TAP", "AP_START", "DATA", "DONE"}
    BY <1>3
  <2> QED
    BY <1>2, <1>6, <2>1, <2>2, <2>3, <2>4, <2>5, <2>6, Zenon DEF SocTypeOK
<1>8. Position'
  BY <1>4, ProgramNumbers DEF Position, StartStep, DoneStep, Cpu!MaxGap
<1>9. BusState'
  <2>1. wvalid_r' = awvalid_r'
    BY <1>1, Zenon DEF Bridge!BridgeReset, Bridge!AxiLite
  <2> QED
    BY <1>3, <1>4, <1>5, <2>1 DEF BusState
<1>10. BramState'
  BY <1>1, <1>4 DEF BramState, Bram!BramReset
<1>11. Loading'
  <2>1. ps' = "IDLE" /\ tap_WE_r' = FALSE /\ tap_A_r' = AddrSpace - 1
    BY <1>1, Zenon DEF Reset, FirReset, TapPort
  <2>2. Forwarded' = 0 /\ Taken' = 0
    BY <1>3, <1>4 DEF Forwarded, Taken
  <2> QED
    BY <1>3, <1>4, <2>1, <2>2, ProgramNumbers DEF Loading
<1>12. Phase'
  BY <1>3, <1>4, <1>11 DEF Phase
<1> QED
  BY <1>2, <1>7, <1>8, <1>9, <1>10, <1>12, Zenon DEF SocInvariant

LEMMA SocInvStutter == ASSUME SocInvariant, UNCHANGED socVars PROVE SocInvariant'
<1>1. UNCHANGED streamVars /\ Invariant'
  BY InvStutter DEF socVars, SocInvariant
<1>2. /\ wb_ps' = wb_ps /\ wbs_ack_r' = wbs_ack_r /\ wbs_dat_r' = wbs_dat_r
      /\ awvalid_r' = awvalid_r /\ awaddr_r' = awaddr_r /\ wvalid_r' = wvalid_r
      /\ wdata_r' = wdata_r /\ arvalid_r' = arvalid_r
      /\ ss_tvalid_r' = ss_tvalid_r /\ ss_tdata_r' = ss_tdata_r /\ ss_tlast_r' = ss_tlast_r
  BY DEF socVars, Bridge!bridgeVars, Bridge!axiLite, Bridge!axiStream
<1>3. /\ ready' = ready /\ delayed_count' = delayed_count /\ bram' = bram /\ rdata' = rdata
      /\ round' = round /\ step' = step /\ bus' = bus /\ since' = since
      /\ fetches' = fetches /\ resets' = resets
  BY DEF socVars, Bram!bramVars, Cpu!cpuVars
<1>4. /\ ps' = ps /\ cnt_r' = cnt_r /\ round_cnt_r' = round_cnt_r /\ wready_r' = wready_r
      /\ rvalid_r' = rvalid_r /\ rdata_r' = rdata_r
      /\ xs' = xs /\ ys' = ys /\ ended' = ended
  BY <1>1 DEF streamVars, firVars
<1>5. /\ tap_WE_r' = tap_WE_r /\ tap_EN_r' = tap_EN_r /\ tap_Di_r' = tap_Di_r
      /\ tap_A_r' = tap_A_r /\ tapRAM' = tapRAM
  BY <1>1 DEF streamVars, firVars, tapPort, ramVars
<1>6. Wires' = Wires
  BY <1>2, Zenon DEF Wires
<1>7. /\ Cpu!MaxGap' = Cpu!MaxGap /\ Cpu!DoneStep' = Cpu!DoneStep
      /\ StartStep' = StartStep /\ LastStep' = LastStep /\ DoneStep' = DoneStep
  BY Zenon DEF Cpu!MaxGap, DoneStep, LastStep, StartStep,
               Cpu!DoneStep, Cpu!LastStep, Cpu!StartStep
<1>8. Writing' = Writing /\ Cpu!Program' = Cpu!Program /\ EngineRound' = EngineRound
  BY <1>3, Zenon DEF Writing, Cpu!Program, Cpu!Write, EngineRound,
                     Cpu!DoneStep, Cpu!LastStep, Cpu!StartStep
<1>9. SocTypeOK'
  <2>1. TypeOK' /\ SocTypeOK
    BY <1>1 DEF Invariant, SocInvariant
  <2> QED
    BY <1>2, <1>3, <1>6, <1>7, <2>1, Zenon DEF SocTypeOK
<1>10. Position' /\ BusState' /\ BramState'
  BY <1>2, <1>3, <1>7, <1>8, Zenon DEF SocInvariant, Position, BusState, BramState
<1>11. Phase'
  <2>1. /\ Forwarded' = Forwarded /\ Taken' = Taken
        /\ \A i : TapSettled(i)' = TapSettled(i)
    BY <1>2, <1>3, <1>5, Zenon DEF Forwarded, Taken, TapSettled
  <2>2. (Loading' <=> Loading) /\ (Loaded' <=> Loaded)
    BY <1>2, <1>3, <1>4, <1>5, <1>7, <1>8, <2>1, Zenon DEF Loading, Loaded, Taken, Forwarded, TapSettled
  <2>3. (TapWrite(Wires)' <=> TapWrite(Wires)) /\ (ApStart(Wires)' <=> ApStart(Wires))
    BY <1>6, Zenon DEF TapWrite, ApStart, CoefAddr
  <2>4. (Idling' <=> Idling) /\ (Launching' <=> Launching)
    BY <1>2, <1>3, <1>4, <1>7, <1>8, <2>3, Zenon DEF Idling, Launching
  <2>5. \A n : SamplesOf(n)' <=> SamplesOf(n)
    BY <1>4, <1>8, Zenon DEF SamplesOf
  <2>6. Streaming' <=> Streaming
    BY <1>2, <1>3, <1>4, <1>7, <1>8, <2>5, Zenon DEF Streaming, SamplesOf
  <2>7. Draining' <=> Draining
    BY <1>2, <1>3, <1>4, <1>7, <1>8, <2>5, Zenon DEF Draining, SamplesOf
  <2> QED
    BY <1>2, <1>3, <1>4, <2>2, <2>4, <2>6, <2>7, Zenon DEF SocInvariant, Phase
<1> QED
  BY <1>1, <1>9, <1>10, <1>11, Zenon DEF SocInvariant

-----------------------------------------------------------------------------
\* The invariant of the system is inductive: whatever the pace of the processor, within
\* the distances its code keeps, engine, bridge, RAM and program stay in step.
THEOREM SocInvariantCorrect == SocSpec => []SocInvariant
<1>1. SocInvariant /\ [SocNext]_socVars => SocInvariant'
  BY SocInvTick, SocInvReset, SocInvStutter DEF SocNext
<1> QED
  BY <1>1, SocInvInit, PTL DEF SocSpec

\* No sample is offered to a busy engine and ss_tdata is held while it is read: the
\* bridge, which never looks at ss_tready, relies on the firmware's pace, and may.
THEOREM MasterCorrect == SocSpec => []MasterObeyed
BY MasterInvariant, SocInvariantCorrect, PTL

\* Every step of the system is a step of the engine under a master that keeps to its
\* contract: what is proved of the engine alone holds in the system.
THEOREM EngineInSystem ==
  SocSpec => /\ StreamInit
             /\ [][\/ \E in \in Ports : Master(in) /\ Clock(in) /\ Observe(in)
                   \/ Reset]_streamVars
<1>1. SocInit => StreamInit
  BY DEF SocInit
<1>2. SocInvariant /\ [SocNext]_socVars =>
        [\/ \E in \in Ports : Master(in) /\ Clock(in) /\ Observe(in)
         \/ Reset]_streamVars
  <2>1. ASSUME SocInvariant, SocTick
        PROVE  \E in \in Ports : Master(in) /\ Clock(in) /\ Observe(in)
    <3>1. Wires \in Ports /\ Master(Wires) /\ Clock(Wires) /\ Observe(Wires)
      BY <2>1, MasterInvariant, TickParts, SocTypes, Zenon
         DEF SocInvariant, MasterObeyed, EngineStep
    <3> QED
      BY <3>1, Zenon
  <2>2. SocReset => Reset
    BY DEF SocReset
  <2>3. UNCHANGED socVars => UNCHANGED streamVars
    BY DEF socVars
  <2> QED
    BY <2>1, <2>2, <2>3, Zenon DEF SocNext
<1> QED
  BY <1>1, <1>2, SocInvariantCorrect, PTL DEF SocSpec

\* The engine accepts the samples the firmware wrote, all of them, once and in order,
\* and computes with the coefficients it wrote.
THEOREM WordsCorrect == SocSpec => []WordsArrive
<1>1. ASSUME SocInvariant PROVE WordsArrive
  <2>1. SocTypeOK /\ Phase
    BY <1>1 DEF SocInvariant
  <2>2. ASSUME ps # "IDLE" PROVE \E n \in 0..DATALEN : SamplesOf(n)
    <3>1. CASE Streaming
      <4>1. step - StartStep - 1 \in 0..DATALEN
        BY <3>1, ProgramNumbers DEF Streaming
      <4> QED
        BY <3>1, <4>1, Zenon DEF Streaming
    <3>2. CASE Draining
      <4>1. DATALEN \in 0..DATALEN
        BY ProgramNumbers
      <4> QED
        BY <3>2, <4>1, Zenon DEF Draining
    <3> QED
      BY <2>1, <2>2, <3>1, <3>2, RunPhases, Zenon
  <2>3. SamplesArrive
    BY <2>2, ProgramNumbers DEF SamplesArrive, SamplesOf
  <2>4. CoefficientsArrive
    BY <2>1, RunPhases, Zenon DEF CoefficientsArrive, Loaded
  <2> QED
    BY <2>1, <2>3, <2>4 DEF WordsArrive
<1> QED
  BY <1>1, SocInvariantCorrect, PTL

\* The sums of a round when the last of them leaves.
LEMMA RunSums ==
    ASSUME SocInvariant, sm_tlast_r
    PROVE  /\ Len(ys) = DATALEN /\ ys[1] = <<>>
           /\ \A k \in 2..DATALEN :
                 ys[k] = [i \in 1..Min2(k, LastSlot) |->
                            <<Taps[i - 1], Data[EngineRound][k - i]>>]
<1>1. SocTypeOK /\ Phase /\ Invariant
  BY DEF SocInvariant
<1>2. ps = "FINISH" /\ ended /\ Len(ys) = Len(xs)
  BY <1>1 DEF Invariant, PortState, PendState, FinishState, Accepted
<1>3. SamplesOf(DATALEN) /\ Loaded
  <2>1. CASE Streaming
    BY <1>1, <1>2, <2>1, RunPhases, ProgramNumbers DEF Streaming
  <2>2. CASE Draining
    BY <1>1, <1>2, <2>2, RunPhases DEF Draining
  <2> QED
    BY <1>1, <1>2, <2>1, <2>2, RunPhases
<1>4. Len(ys) = DATALEN /\ Len(xs) = DATALEN
  BY <1>2, <1>3 DEF SamplesOf
<1>5. \A k \in 1..Len(ys) : ys[k] = Delivered(k)
  BY <1>1, <1>2, Zenon DEF Invariant, Running, OutputsDelivered
<1>6. ys[1] = <<>>
  <2>1. 1 \in 1..Len(ys)
    BY <1>4, ProgramNumbers
  <2> QED
    BY <1>5, <2>1, Zenon DEF Delivered
<1>7. ASSUME NEW k \in 2..DATALEN
      PROVE  ys[k] = [i \in 1..Min2(k, LastSlot) |->
                        <<Taps[i - 1], Data[EngineRound][k - i]>>]
  <2>1. k \in 1..Len(ys) /\ k # 1 /\ k \in Nat
    BY <1>4, <1>7, ProgramNumbers
  <2>2. ys[k] = [i \in 1..Min2(k, LastSlot) |-> <<tapRAM[i - 1], xs[k - i + 1]>>]
    BY <1>5, <2>1, Zenon DEF Delivered
  <2>3. ASSUME NEW i \in 1..Min2(k, LastSlot)
        PROVE  tapRAM[i - 1] = Taps[i - 1] /\ xs[k - i + 1] = Data[EngineRound][k - i]
    <3>1. i - 1 \in Slot /\ k - i + 1 \in 1..DATALEN /\ (k - i + 1) - 1 = k - i
      BY <1>7, <2>3, ProgramNumbers DEF Min2
    <3> QED
      BY <1>3, <3>1, Zenon DEF Loaded, SamplesOf
  <2> QED
    BY <2>2, <2>3
<1> QED
  BY <1>4, <1>6, <1>7

\* With sm_tlast the run is complete: every sample of the round has had its sum, and
\* each is the convolution of the firmware's coefficients with the firmware's samples.
THEOREM RunCorrect == SocSpec => []RunComplete
<1>1. SocInvariant => RunComplete
  BY RunSums, Zenon DEF RunComplete
<1> QED
  BY <1>1, SocInvariantCorrect, PTL

\* The repository's test passes, and not only with its own numbers: with any coefficients
\* that are 0 at both ends, as the low-pass filter of fir.h is, the sums of every round
\* are those of the golden file, for all samples and any number of them.
THEOREM GoldenCorrect ==
    ASSUME Taps[0] = 0, Taps[LastSlot] = 0
    PROVE  SocSpec => []MatchesGolden
<1>1. ASSUME SocInvariant, sm_tlast_r, NEW k \in 1..DATALEN
      PROVE  Significant(ys[k]) = Significant(Golden(k))
  <2> DEFINE product(i) == <<Taps[i - 1], Data[EngineRound][k - i]>>
             Counts(i)  == product(i)[1] # 0 /\ product(i)[2] # 0
  <2>1. k \in Nat /\ k >= 1 /\ TapNum \in Nat /\ LastSlot = TapNum - 1 /\ LastSlot >= 1
    BY ProgramNumbers
  <2>2. Significant(Golden(k)) = {<<i, product(i)>> : i \in {j \in 1..Min2(k, TapNum) : Counts(j)}}
    BY Zenon DEF Golden, Significant
  <2>3. ~Counts(1) /\ ~Counts(TapNum)
    <3>1. 1 - 1 = 0 /\ TapNum - 1 = LastSlot
      BY <2>1
    <3> QED
      BY <3>1
  <2>4. CASE k = 1
    <3>1. Significant(ys[k]) = {}
      BY <1>1, <2>4, RunSums DEF Significant
    <3>2. {j \in 1..Min2(k, TapNum) : Counts(j)} = {}
      BY <2>1, <2>3, <2>4 DEF Min2
    <3> QED
      BY <2>2, <3>1, <3>2
  <2>5. CASE k # 1
    <3> DEFINE sum == [i \in 1..Min2(k, LastSlot) |-> product(i)]
    <3>1. ys[k] = sum
      <4>1. k \in 2..DATALEN
        BY <1>1, <2>1, <2>5
      <4> QED
        BY <1>1, <4>1, RunSums, Zenon
    <3>2. Significant(sum) = {<<i, product(i)>> : i \in {j \in 1..Min2(k, LastSlot) : Counts(j)}}
      BY Zenon DEF Significant
    <3>3. ASSUME NEW j
          PROVE  j \in 1..Min2(k, LastSlot) /\ Counts(j) <=> j \in 1..Min2(k, TapNum) /\ Counts(j)
      <4>1. j \in 1..Min2(k, LastSlot) => j \in 1..Min2(k, TapNum)
        BY <2>1 DEF Min2
      <4>2. j \in 1..Min2(k, TapNum) => j \in 1..Min2(k, LastSlot) \/ j = TapNum
        BY <2>1 DEF Min2
      <4> QED
        BY <2>3, <4>1, <4>2
    <3>4. {j \in 1..Min2(k, LastSlot) : Counts(j)} = {j \in 1..Min2(k, TapNum) : Counts(j)}
      BY <3>3
    <3> QED
      BY <2>2, <3>1, <3>2, <3>4, Zenon
  <2> QED
    BY <2>4, <2>5
<1>2. SocInvariant => MatchesGolden
  BY <1>1, Zenon DEF MatchesGolden
<1> QED
  BY <1>2, SocInvariantCorrect, PTL

\* The bridge takes coefficients when the program writes coefficients and samples when
\* it writes samples, although nothing tells the program where the bridge is.
THEOREM BridgeCorrect == SocSpec => []BridgeFollowsProgram
<1>1. ASSUME SocInvariant PROVE BridgeFollowsProgram
  <2>1. /\ SocTypeOK /\ Phase /\ step \in Nat /\ round \in Nat
        /\ wb_ps \in {"TAP", "AP_START", "DATA", "DONE"}
    BY <1>1, SocTypes DEF SocInvariant
  <2>2. /\ StartStep \in Nat /\ StartStep < LastStep /\ LastStep < DoneStep
        /\ LastStep \in Nat /\ DoneStep \in Nat
        /\ StartStep = Cpu!StartStep /\ LastStep = Cpu!LastStep
    BY ProgramNumbers DEF StartStep, LastStep
  <2>3. wb_ps = "TAP" /\ round > 0 => step <= StartStep
    BY <2>1, <2>2 DEF Phase, Loading, Idling
  <2>4. wb_ps = "AP_START" => step \in {StartStep, StartStep + 1}
    BY <2>1 DEF Phase, Launching
  <2>5. wb_ps = "DATA" => step >= StartStep + 1
    BY <2>1, <2>2 DEF Phase, Launching, Streaming
  <2>6. wb_ps = "DONE" => step \in {StartStep, DoneStep}
    BY <2>1 DEF Phase, Draining
  <2> QED
    BY <2>1, <2>2, <2>3, <2>4, <2>5, <2>6 DEF BridgeFollowsProgram
<1> QED
  BY <1>1, SocInvariantCorrect, PTL

\* The bridge leaves DONE only when the engine has ended the run, with all its sums.
THEOREM ReleaseCorrect == SocSpec => BridgeReleasedAfterRun
<1>1. SocInvariant /\ [SocNext]_socVars =>
        [wb_ps = "DONE" /\ wb_ps' = "TAP" /\ resets' = resets
           => ps = "IDLE" /\ Len(ys) = DATALEN]_socVars
  <2>1. ASSUME SocInvariant, SocTick, wb_ps = "DONE", wb_ps' = "TAP"
        PROVE  ps = "IDLE" /\ Len(ys) = DATALEN
    <3>1. rvalid_r /\ rdata_r = 4
      BY <2>1, DrainMoves
    <3> QED
      BY <2>1, <3>1, DrainMoves DEF Draining
  <2>2. ASSUME SocInvariant, SocReset PROVE resets' # resets
    BY <2>2 DEF SocInvariant, SocTypeOK, SocReset
  <2> QED
    BY <2>1, <2>2 DEF SocNext
<1> QED
  BY <1>1, SocInvariantCorrect, PTL DEF SocSpec, BridgeReleasedAfterRun

\* What the processor fetches from the user RAM is the code the boot loop copied.
THEOREM FetchCorrect == SocSpec => []FetchesReturnCode
<1>1. ASSUME SocInvariant, bus.req, ~bus.we, wbs_ack_o
      PROVE  wbs_dat_o = Code[bus.off]
  <2>1. bus.region = "MPRJRAM" /\ bus.region # "FIR"
    <3>1. "MPRJRAM" # "FIR"
      OBVIOUS
    <3> QED
      BY <1>1, <3>1, Zenon DEF SocInvariant, BusState
  <2>2. ready
    BY <1>1, <2>1, Zenon DEF wbs_ack_o
  <2> QED
    BY <1>1, <2>1, <2>2, Zenon DEF SocInvariant, BramState, wbs_dat_o
<1>2. SocInvariant => FetchesReturnCode
  BY <1>1, Zenon DEF FetchesReturnCode
<1> QED
  BY <1>2, SocInvariantCorrect, PTL
=============================================================================
