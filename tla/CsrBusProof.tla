------------------------------ MODULE CsrBusProof ------------------------------
(***************************************************************************)
(* Proofs about the firmware's register accesses, for every word a caller  *)
(* may pass, every value of the status signals and every content the       *)
(* registers may have when the call begins.                                *)
(*                                                                         *)
(* That the tables of csr.h and of mgmt_core.v agree is MapsAgree, a closed *)
(* formula that TLC evaluates.  The invariant says what the call still has *)
(* to rely on at each of its steps: which registers it has left alone, that *)
(* the word it has read is still the register's, and which events have     *)
(* come since.                                                             *)
(***************************************************************************)
EXTENDS CsrBus, TLAPS

-----------------------------------------------------------------------------
(* The invariant.                                                          *)

\* What a register other than the target holds: the handler may have written it.
Expected(k) ==
    IF k \in Marked /\ isrpc = "returned" THEN IsrMarks[k]
    ELSE IF k \in Marked /\ isrpc = "la0" /\ At(k).lane = 1 THEN Mark1
    ELSE before[k]

\* The register of the call is a plain one that the handler does not write.
PlainTarget == At(call.target).kind = "storage" /\ call.target \notin Marked

Fits(file_, k) == file_[k] \subseteq Width(k)

Sorts ==
    /\ pc \in {"idle", "load", "store", "clear", "done"}
    /\ isrpc \in {"not yet", "la0", "returned"}
    /\ file \in [HwRegs -> SUBSET Nat] /\ before \in [HwRegs -> SUBSET Nat]
    /\ \A k \in HwRegs : Fits(file, k) /\ Fits(before, k)

\* A call of an accessor or of a macro, with what MapsAgree says of it.
CallFits(c) ==
    /\ c.target \in HwRegs /\ Decode(AddressOf(c.word)) = c.target
    /\ At(c.target).width \in 1..32
    /\ c.op \in {"read", "write", "field"}
    /\ c.op # "read" => At(c.target).kind \in {"storage", "pending"}
    /\ c.op # "write" => c.target \notin Marked
    /\ c.op = "write" => c.field = NoField
    /\ c.field.offset \in Nat /\ c.field.size \in Nat
    /\ c.value \subseteq Nat

CallGoesOn ==
    /\ pc # "idle" => CallFits(call)
    /\ pc = "idle" => isrpc = "not yet"
    /\ pc = "load" => call.op \in {"read", "field"}
    /\ pc = "store" => call.op \in {"write", "field"}
    /\ pc = "clear" => call.op \in {"write", "field"} /\ Pending(call.target)

OthersKept == pc # "idle" => \A k \in HwRegs \ {call.target} : file[k] = Expected(k)

\* Nothing has changed the register before the call does.
TargetKept ==
    pc \in {"load", "store"} /\ call.op # "read" /\ PlainTarget =>
        /\ file[call.target] = before[call.target]
        /\ pc = "store" /\ call.op = "field" => old = before[call.target]

\* What a load is about to return is among what the register has held.
HeldSeen == pc = "load" => file[call.target] \in seen

\* The events since the word was read are pending, and the write clears the field
\* and what was read.
EventsPending ==
    /\ pc \in {"store", "clear"} /\ call.op = "field" /\ Pending(call.target) =>
           raised \subseteq file[call.target]
    /\ pc = "clear" /\ call.op = "field" =>
           clearing = Replace(old, call.field, call.value) \cap Width(call.target)

CsrInvariant ==
    /\ Sorts /\ CallGoesOn /\ OthersKept /\ TargetKept /\ HeldSeen /\ EventsPending
    /\ FieldsAreApart /\ ReadsAreCurrent /\ LateEventsKept

-----------------------------------------------------------------------------
(* Facts about the maps and about the functions of a field.                *)

LEMMA MarkedWords ==
    LET word1 == HwNamed("la", "out", 1)
        word0 == HwNamed("la", "out", 0)
    IN  /\ word1 \in HwRegs /\ word0 \in HwRegs /\ word1 # word0 /\ Marked = {word1, word0}
        /\ At(word1).kind = "storage" /\ At(word1).width = 32 /\ At(word1).lane = 1
        /\ At(word0).kind = "storage" /\ At(word0).width = 32 /\ At(word0).lane = 0
        /\ Decode(AddressOf(laAlias("out", 1))) = word1
        /\ Decode(AddressOf(laAlias("out", 0))) = word0
        /\ IsrMarks[word1] = Mark1 /\ IsrMarks[word0] = Mark0
<1> DEFINE word1 == HwNamed("la", "out", 1)
           word0 == HwNamed("la", "out", 0)
<1>1. /\ word1 \in HwRegs /\ At(word1) = HwWord("out", 1, 32, "storage")
      /\ Decode(AddressOf(laAlias("out", 1))) = word1
  <2>1. "out" \in {"oe", "ien", "out"} /\ 1 \in 0..3
    OBVIOUS
  <2> QED BY <2>1, MapsAgree, Zenon
<1>2. /\ word0 \in HwRegs /\ At(word0) = HwWord("out", 0, 32, "storage")
      /\ Decode(AddressOf(laAlias("out", 0))) = word0
  <2>1. "out" \in {"oe", "ien", "out"} /\ 0 \in 0..3
    OBVIOUS
  <2> QED BY <2>1, MapsAgree, Zenon
<1>3. Marked = {word1, word0}
  BY DEF Marked
<1> HIDE DEF word1, word0
<1>4. /\ At(word1).kind = "storage" /\ At(word1).width = 32 /\ At(word1).lane = 1
      /\ At(word0).kind = "storage" /\ At(word0).width = 32 /\ At(word0).lane = 0
  BY <1>1, <1>2 DEF HwWord
<1>5. IsrMarks[word1] = Mark1 /\ IsrMarks[word0] = Mark0
  BY <1>3, <1>4 DEF IsrMarks
<1>6. word1 # word0
  BY <1>4
<1> QED BY <1>1, <1>2, <1>3, <1>4, <1>5, <1>6 DEF word1, word0

\* Every call that main makes fits the maps.
LEMMA CallsFit ==
    ASSUME NEW c \in Calls \cup LaCalls
    PROVE  CallFits(c)
<1>1. NoField.offset = 0 /\ NoField.size = 32
  BY DEF NoField, Field
<1>2. ASSUME c \in Calls
      PROVE  CallFits(c)
  <2>1. PICK w \in Readable :
            /\ c.word = w /\ c.target = HwNamed(w[1], RegisterOf(w).name, 0)
            /\ c.op \in {"read", "write", "field"}
            /\ c.op # "read" => RegisterOf(w).writable
            /\ c.op = "write" => c.field = NoField
            /\ c.field = NoField \/ c.field \in RegisterOf(w).fields
            /\ c.value = {} \/ c.value \in Values(c.field)
    <3> DEFINE FieldsOf(w) == RegisterOf(w).fields
               Call(op, w, f, v) == [op |-> op, word |-> w, field |-> f, value |-> v,
                                     target |-> HwNamed(w[1], RegisterOf(w).name, 0)]
               Writable == {w \in Readable : RegisterOf(w).writable}
    <3>1. \/ \E w \in Readable : c = Call("read", w, NoField, {})
          \/ \E w \in Writable : \E v \in Values(NoField) : c = Call("write", w, NoField, v)
          \/ \E w \in Readable : \E f \in FieldsOf(w) : c = Call("read", w, f, {})
          \/ \E w \in Writable : \E f \in FieldsOf(w) : \E v \in Values(f) : c = Call("field", w, f, v)
      <4> DEFINE Reads       == {Call("read", w, NoField, {}) : w \in Readable}
                 Writes      == {{Call("write", w, NoField, v) : v \in Values(NoField)} : w \in Writable}
                 FieldReads  == {{Call("read", w, f, {}) : f \in FieldsOf(w)} : w \in Readable}
                 FieldWrites == {UNION {{Call("field", w, f, v) : v \in Values(f)} : f \in FieldsOf(w)} :
                                    w \in Writable}
      <4>1. c \in Reads \cup (UNION Writes) \cup (UNION FieldReads) \cup (UNION FieldWrites)
        BY <1>2 DEF Calls
      <4> HIDE DEF Call, Writable, FieldsOf
      <4>2. c \in UNION FieldWrites =>
              \E w \in Writable : \E f \in FieldsOf(w) : \E v \in Values(f) : c = Call("field", w, f, v)
        OBVIOUS
      <4>3. c \in UNION FieldReads =>
              \E w \in Readable : \E f \in FieldsOf(w) : c = Call("read", w, f, {})
        OBVIOUS
      <4>4. c \in UNION Writes =>
              \E w \in Writable : \E v \in Values(NoField) : c = Call("write", w, NoField, v)
        OBVIOUS
      <4>5. c \in Reads => \E w \in Readable : c = Call("read", w, NoField, {})
        OBVIOUS
      <4> HIDE DEF Reads, Writes, FieldReads, FieldWrites
      <4> QED BY <4>1, <4>2, <4>3, <4>4, <4>5
    <3>2. ASSUME NEW w \in Readable, NEW op \in {"read", "write", "field"}, NEW f, NEW v,
                 c = Call(op, w, f, v),
                 op # "read" => w \in Writable,
                 op = "write" => f = NoField,
                 f = NoField \/ f \in FieldsOf(w),
                 v = {} \/ v \in Values(f)
          PROVE  /\ c.word = w /\ c.target = HwNamed(w[1], RegisterOf(w).name, 0)
                 /\ c.op \in {"read", "write", "field"}
                 /\ c.op # "read" => RegisterOf(w).writable
                 /\ c.op = "write" => c.field = NoField
                 /\ c.field = NoField \/ c.field \in RegisterOf(w).fields
                 /\ c.value = {} \/ c.value \in Values(c.field)
      <4>1. c.op = op /\ c.word = w /\ c.field = f /\ c.value = v
            /\ c.target = HwNamed(w[1], RegisterOf(w).name, 0)
        BY <3>2, Zenon
      <4> QED BY <3>2, <4>1, Zenon
    <3>3. CASE \E w \in Readable : c = Call("read", w, NoField, {})
      <4>1. PICK w \in Readable : c = Call("read", w, NoField, {})
        BY <3>3
      <4> HIDE DEF Call, Writable
      <4> QED BY <3>2, <4>1
    <3>4. CASE \E w \in Writable : \E v \in Values(NoField) : c = Call("write", w, NoField, v)
      <4>1. PICK w \in Writable, v \in Values(NoField) : c = Call("write", w, NoField, v)
        BY <3>4
      <4>2. w \in Readable
        OBVIOUS
      <4> HIDE DEF Call, Writable
      <4> QED BY <3>2, <4>1, <4>2
    <3>5. CASE \E w \in Readable : \E f \in FieldsOf(w) : c = Call("read", w, f, {})
      <4>0. PICK w \in Readable : \E f \in FieldsOf(w) : c = Call("read", w, f, {})
        BY <3>5
      <4>1. PICK f \in FieldsOf(w) : c = Call("read", w, f, {})
        BY <4>0
      <4> HIDE DEF Call, Writable
      <4> QED BY <3>2, <4>1
    <3>6. CASE \E w \in Writable : \E f \in FieldsOf(w) : \E v \in Values(f) :
                  c = Call("field", w, f, v)
      <4>0. PICK w \in Writable : \E f \in FieldsOf(w) : \E v \in Values(f) :
                c = Call("field", w, f, v)
        BY <3>6
      <4>1. PICK f \in FieldsOf(w) : \E v \in Values(f) : c = Call("field", w, f, v)
        BY <4>0
      <4>3. PICK v \in Values(f) : c = Call("field", w, f, v)
        BY <4>1
      <4>2. w \in Readable
        OBVIOUS
      <4> HIDE DEF Call, Writable
      <4> QED BY <3>2, <4>2, <4>3
    <3> QED BY <3>1, <3>3, <3>4, <3>5, <3>6
  <2> DEFINE k == HwNamed(w[1], RegisterOf(w).name, 0)
  <2>2. /\ k \in HwRegs \ Marked /\ At(k).width \in 1..32
        /\ Decode(AddressOf(w)) = k
        /\ RegisterOf(w).writable => At(k).kind \in {"storage", "pending"}
        /\ \A f \in RegisterOf(w).fields : f.offset \in Nat /\ f.size \in Nat
    BY MapsAgree, Zenon
  <2>3. Values(NoField) \subseteq SUBSET Nat
        /\ \A f \in RegisterOf(w).fields : Values(f) \subseteq SUBSET Nat
    BY CsrAssumption, Zenon
  <2>4. c.value \subseteq Nat
    BY <2>1, <2>3
  <2>5. c.field.offset \in Nat /\ c.field.size \in Nat
    BY <2>1, <2>2, <1>1
  <2>6. c.target = k
    BY <2>1
  <2> HIDE DEF k
  <2> QED BY <2>1, <2>2, <2>4, <2>5, <2>6 DEF CallFits
<1>3. ASSUME c \in LaCalls
      PROVE  CallFits(c)
  <2>1. PICK register \in {"oe", "ien", "out"}, n \in 0..3 :
            /\ c.word = laAlias(register, n) /\ c.target = HwNamed("la", register, n)
            /\ c.op = "write" /\ c.field = NoField /\ c.value \in {{}, Bits}
    BY <1>3 DEF LaCalls
  <2> DEFINE k == HwNamed("la", register, n)
  <2>2. /\ k \in HwRegs /\ At(k) = HwWord(register, n, 32, "storage")
        /\ Decode(AddressOf(laAlias(register, n))) = k
    BY MapsAgree, Zenon
  <2>3. c.target = k
    BY <2>1
  <2> HIDE DEF k
  <2>4. At(k).kind = "storage" /\ At(k).width = 32
    BY <2>2 DEF HwWord
  <2>5. c.value \subseteq Nat
    BY <2>1 DEF Bits
  <2> QED BY <2>1, <2>2, <2>3, <2>4, <2>5, <1>1 DEF CallFits
<1> QED BY <1>2, <1>3

\* What the _extract function returns is the field, moved down.
LEMMA ExtractIsField ==
    ASSUME NEW w, NEW f, f.offset \in Nat, f.size \in Nat
    PROVE  Extract(w, f) = {b \in 0..(f.size - 1) : b + f.offset \in w}
<1> DEFINE off == f.offset
           siz == f.size
<1>0. off \in Nat /\ siz \in Nat
  OBVIOUS
<1>1. Extract(w, f) = {b - off : b \in w \cap (off..(off + siz - 1))}
  BY DEF Extract, Span
<1> HIDE DEF off, siz
<1>2. ASSUME NEW b \in {c - off : c \in w \cap (off..(off + siz - 1))}
      PROVE  b \in {c \in 0..(siz - 1) : c + off \in w}
  <2>1. PICK c \in w \cap (off..(off + siz - 1)) : b = c - off
    OBVIOUS
  <2>2. c \in Int /\ b \in 0..(siz - 1) /\ b + off = c
    BY <2>1, <1>0
  <2> QED BY <2>1, <2>2
<1>3. ASSUME NEW b \in {c \in 0..(siz - 1) : c + off \in w}
      PROVE  b \in {c - off : c \in w \cap (off..(off + siz - 1))}
  <2>1. b + off \in w \cap (off..(off + siz - 1)) /\ b = (b + off) - off
    BY <1>0
  <2> QED BY <2>1
<1> QED BY <1>1, <1>2, <1>3 DEF off, siz

\* What the _replace function returns: the field takes the value's low bits, the
\* rest of the word stays.
LEMMA ReplaceIsField ==
    ASSUME NEW w, NEW f, f.offset \in Nat, f.size \in Nat, NEW v, v \subseteq Nat
    PROVE  /\ Replace(w, f, v) \ Span(f) = w \ Span(f)
           /\ Replace(w, f, v) \cap Span(f) = {b + f.offset : b \in v} \cap Span(f)
<1> DEFINE off == f.offset
           siz == f.size
           Up == {b + off : b \in v \cap (0..(siz - 1))}
           Moved == {b + off : b \in v}
           span == off..(off + siz - 1)
<1>0. off \in Nat /\ siz \in Nat
  OBVIOUS
<1>1. Replace(w, f, v) = (w \ span) \cup Up /\ Span(f) = span
  BY DEF Replace, Span, Mask
<1> HIDE DEF off, siz
<1>2. Up \subseteq span /\ Up \subseteq Moved
  BY <1>0
<1>3. Moved \cap span \subseteq Up
  <2> SUFFICES ASSUME NEW x \in Moved, x \in span PROVE x \in Up
    OBVIOUS
  <2>1. PICK b \in v : x = b + off
    OBVIOUS
  <2>2. b \in 0..(siz - 1)
    BY <2>1, <1>0
  <2> QED BY <2>1, <2>2
<1> HIDE DEF Up, span, Moved
<1>4. ((w \ span) \cup Up) \ span = w \ span /\ ((w \ span) \cup Up) \cap span = Moved \cap span
  BY <1>2, <1>3
<1> QED BY <1>1, <1>4 DEF Moved, off

\* A write access changes the register its address is decoded to, or what the next
\* clock clears there, and nothing else.
LEMMA WriteReaches ==
    ASSUME Sorts, NEW k \in HwRegs, NEW address, Decode(address) = k, At(k).width \in 1..32,
           NEW word, Write(address, word)
    PROVE  /\ file' \in [HwRegs -> SUBSET Nat]
           /\ \A j \in HwRegs : Fits(file', j)
           /\ \A j \in HwRegs \ {k} : file'[j] = file[j]
           /\ At(k).kind = "storage" => file'[k] = word \cap Width(k)
           /\ At(k).kind # "storage" => file'[k] = file[k]
           /\ clearing' = IF Pending(k) THEN word \cap Width(k) ELSE clearing
<1>1. /\ file' = IF At(k).kind = "storage" THEN [file EXCEPT ![k] = word \cap Width(k)] ELSE file
      /\ clearing' = IF Pending(k) THEN word \cap Width(k) ELSE clearing
  BY DEF Write, Stored
<1>2. file \in [HwRegs -> SUBSET Nat] /\ \A j \in HwRegs : Fits(file, j)
  BY DEF Sorts
<1>3. word \cap Width(k) \in SUBSET Nat
  BY DEF Width
<1>4. CASE At(k).kind = "storage"
  <2>1. file' = [file EXCEPT ![k] = word \cap Width(k)]
    BY <1>1, <1>4
  <2>2. file' \in [HwRegs -> SUBSET Nat] /\ file'[k] = word \cap Width(k)
    BY <1>2, <1>3, <2>1
  <2>3. \A j \in HwRegs \ {k} : file'[j] = file[j]
    BY <1>2, <2>1
  <2>4. \A j \in HwRegs : Fits(file', j)
    BY <1>2, <2>2, <2>3 DEF Fits
  <2> QED BY <1>1, <1>4, <2>2, <2>3, <2>4
<1>5. CASE At(k).kind # "storage"
  BY <1>1, <1>2, <1>5
<1> QED BY <1>4, <1>5

-----------------------------------------------------------------------------
(* The steps.                                                              *)

\* A step that changes no register and neither the call nor the handler leaves the
\* other registers with what they should hold.
LEMMA OthersStay ==
    ASSUME CsrInvariant, pc # "idle", call' = call, isrpc' = isrpc, before' = before,
           \A k \in HwRegs \ {call.target} : file'[k] = file[k]
    PROVE  OthersKept'
<1>1. \A k \in HwRegs \ {call.target} : file[k] = Expected(k)
  BY DEF CsrInvariant, OthersKept
<1>2. ASSUME NEW k PROVE Expected(k)' = Expected(k)
  BY DEF Expected
<1> QED BY <1>1, <1>2 DEF OthersKept

\* A call may begin with any registers.
LEMMA BeginStep ==
    ASSUME CsrInvariant, Begin
    PROVE  CsrInvariant'
<1>1. PICK c \in Calls \cup LaCalls :
         /\ call' = c /\ pc' = (IF c.op = "write" THEN "store" ELSE "load")
         /\ seen' = {file[c.target]}
  BY DEF Begin
<1>2. pc = "idle" /\ isrpc = "not yet" /\ isrpc' = "not yet" /\ before' = file /\ file' = file
  BY DEF Begin, CsrInvariant, CallGoesOn
<1>3. CallFits(c)
  BY CallsFit
<1>4. Sorts'
  BY <1>1, <1>2 DEF CsrInvariant, Sorts, Fits
<1>5. CallFits(call)'
  BY <1>1, <1>3 DEF CallFits
<1>6. CallGoesOn'
  BY <1>1, <1>2, <1>3, <1>5 DEF CallGoesOn, CallFits
<1>7. OthersKept'
  BY <1>2 DEF OthersKept, Expected
<1>8. TargetKept'
  BY <1>1, <1>2 DEF TargetKept
<1>9. HeldSeen'
  BY <1>1, <1>2 DEF HeldSeen
<1>10. EventsPending'
  BY <1>1 DEF EventsPending
<1>11. pc' # "done"
  BY <1>1
<1>12. FieldsAreApart' /\ ReadsAreCurrent' /\ LateEventsKept'
  BY <1>11 DEF FieldsAreApart, ReadsAreCurrent, LateEventsKept
<1> QED BY <1>4, <1>6, <1>7, <1>8, <1>9, <1>10, <1>12 DEF CsrInvariant

\* The load takes what the register holds at that moment.
LEMMA LoadStep ==
    ASSUME CsrInvariant, Load
    PROVE  CsrInvariant'
<1>1. /\ pc = "load" /\ pc' = (IF call.op = "field" THEN "store" ELSE "done")
      /\ old' = (IF call.op = "read" THEN Extract(file[call.target], call.field)
                                     ELSE file[call.target])
      /\ raised' = {}
  BY DEF Load, CsrInvariant, CallGoesOn, CallFits
<1>2. file' = file /\ call' = call /\ isrpc' = isrpc /\ before' = before /\ seen' = seen
  BY DEF Load
<1>3. CallFits(call) /\ call.op \in {"read", "field"}
  BY <1>1 DEF CsrInvariant, CallGoesOn
<1>4. Sorts'
  BY <1>1, <1>2 DEF CsrInvariant, Sorts, Fits
<1>5. CallGoesOn'
  BY <1>1, <1>2, <1>3 DEF CallGoesOn, CallFits
<1>6. OthersKept'
  BY <1>1, <1>2, OthersStay
<1>7. TargetKept'
  BY <1>1, <1>2 DEF CsrInvariant, TargetKept, PlainTarget
<1>8. HeldSeen'
  BY <1>1 DEF HeldSeen
<1>9. EventsPending'
  BY <1>1 DEF EventsPending
<1>10. FieldsAreApart'
  BY <1>1, <1>2, <1>3 DEF FieldsAreApart
<1>11. ReadsAreCurrent'
  <2> SUFFICES ASSUME call.op = "read"
               PROVE  \E w \in seen :
                         old' = {b \in 0..(call.field.size - 1) : b + call.field.offset \in w}
    BY <1>2 DEF ReadsAreCurrent
  <2>1. file[call.target] \in seen
    BY <1>1 DEF CsrInvariant, HeldSeen
  <2>2. call.field.offset \in Nat /\ call.field.size \in Nat
    BY <1>3 DEF CallFits
  <2>3. old' = Extract(file[call.target], call.field)
    BY <1>1
  <2>4. Extract(file[call.target], call.field)
          = {b \in 0..(call.field.size - 1) : b + call.field.offset \in file[call.target]}
    BY <2>2, ExtractIsField, Zenon
  <2> QED BY <2>1, <2>3, <2>4, Zenon
<1>12. LateEventsKept'
  BY <1>1, <1>2 DEF LateEventsKept
<1> QED BY <1>4, <1>5, <1>6, <1>7, <1>8, <1>9, <1>10, <1>11, <1>12 DEF CsrInvariant

\* The store changes the register of the call, at once or at the next clock.
LEMMA StoreStep ==
    ASSUME CsrInvariant, Store
    PROVE  CsrInvariant'
<1> DEFINE t == call.target
           f == call.field
           fieldsWord == Replace(old, f, call.value)
<1>1. /\ pc = "store" /\ pc' = (IF Pending(t) THEN "clear" ELSE "done")
      /\ Write(AddressOf(call.word), NewWord)
      /\ call' = call /\ isrpc' = isrpc /\ before' = before /\ seen' = seen /\ old' = old
      /\ raised' = raised /\ edge' = edge
  BY DEF Store, history
<1>2. CallFits(call) /\ call.op \in {"write", "field"}
  BY <1>1 DEF CsrInvariant, CallGoesOn
<1>3. /\ t \in HwRegs /\ Decode(AddressOf(call.word)) = t /\ At(t).width \in 1..32
      /\ At(t).kind \in {"storage", "pending"}
      /\ f.offset \in Nat /\ f.size \in Nat /\ call.value \subseteq Nat
      /\ call.op = "write" => f = NoField
  BY <1>2 DEF CallFits
<1>4. NewWord = IF call.op = "field" THEN fieldsWord ELSE call.value
  BY DEF NewWord
<1>5. /\ file' \in [HwRegs -> SUBSET Nat] /\ \A j \in HwRegs : Fits(file', j)
      /\ \A j \in HwRegs \ {t} : file'[j] = file[j]
      /\ At(t).kind = "storage" => file'[t] = NewWord \cap Width(t)
      /\ At(t).kind # "storage" => file'[t] = file[t]
      /\ clearing' = IF Pending(t) THEN NewWord \cap Width(t) ELSE clearing
  <2>1. Sorts
    BY DEF CsrInvariant
  <2> HIDE DEF t
  <2> QED BY <1>1, <1>3, <2>1, WriteReaches
<1>6. Sorts'
  BY <1>1, <1>5 DEF CsrInvariant, Sorts, Fits
<1>7. CallGoesOn'
  BY <1>1, <1>2 DEF CallGoesOn, CallFits
<1>8. OthersKept'
  BY <1>1, <1>5, OthersStay
<1>9. TargetKept' /\ HeldSeen' /\ ReadsAreCurrent'
  BY <1>1, <1>2 DEF TargetKept, HeldSeen, ReadsAreCurrent
<1>10. EventsPending'
  <2>1. Pending(t) => At(t).kind # "storage"
    BY DEF Pending
  <2>2. pc' = "clear" => Pending(t)
    BY <1>1
  <2>3. call.op = "field" /\ Pending(t) => raised \subseteq file[t]
    BY <1>1 DEF CsrInvariant, EventsPending
  <2> QED BY <1>1, <1>4, <1>5, <2>1, <2>2, <2>3 DEF EventsPending, Pending
<1>11. FieldsAreApart'
  <2> DEFINE span == Span(f)
             moved == {b + f.offset : b \in call.value}
  <2> SUFFICES ASSUME PlainTarget
               PROVE  /\ file'[t] \ span = before[t] \ span
                      /\ file'[t] \cap span = moved \cap span \cap Width(t)
    BY <1>1 DEF FieldsAreApart, PlainTarget
  <2>1. file'[t] = NewWord \cap Width(t)
    BY <1>5 DEF PlainTarget
  <2>2. before[t] \subseteq Width(t)
    BY <1>3 DEF CsrInvariant, Sorts, Fits
  <2>3. CASE call.op = "field"
    <3>1. old = before[t]
      BY <1>1, <2>3 DEF CsrInvariant, TargetKept
    <3>2. fieldsWord \ span = old \ span /\ fieldsWord \cap span = moved \cap span
      BY <1>3, ReplaceIsField
    <3>3. NewWord = fieldsWord
      BY <1>4, <2>3
    <3> HIDE DEF span, moved, fieldsWord, t
    <3> QED BY <2>1, <2>2, <3>1, <3>2, <3>3
  <2>4. CASE call.op = "write"
    <3>1. NewWord = call.value /\ f = NoField
      BY <1>3, <1>4, <2>4
    <3>2. f.offset = 0 /\ f.size = 32
      BY <3>1 DEF NoField, Field
    <3>3. span = 0..31
      BY <3>2 DEF Span
    <3>4. Width(t) \subseteq 0..31
      BY <1>3 DEF Width
    <3>5. moved = call.value
      <4> DEFINE v == call.value
      <4>1. \A b \in v : b + 0 = b
        BY <1>3
      <4> HIDE DEF v
      <4>2. {b + 0 : b \in v} = v
        BY <4>1
      <4> QED BY <3>2, <4>2 DEF v
    <3> HIDE DEF span, moved, t
    <3> QED BY <2>1, <2>2, <3>1, <3>3, <3>4, <3>5
  <2> QED BY <1>2, <2>3, <2>4
<1>12. LateEventsKept'
  BY <1>1 DEF LateEventsKept
<1> QED BY <1>6, <1>7, <1>8, <1>9, <1>10, <1>11, <1>12 DEF CsrInvariant

\* The clear takes the field and what was read, and no event after that.
LEMMA ClearStep ==
    ASSUME CsrInvariant, Clear
    PROVE  CsrInvariant'
<1> DEFINE t == call.target
<1>1. PICK events \in SUBSET Width(t) :
         file' = [file EXCEPT ![t] = (@ \ clearing) \cup events] /\ edge' = events
  BY DEF Clear, Cleared
<1>2. /\ pc = "clear" /\ pc' = "done" /\ call' = call /\ isrpc' = isrpc /\ before' = before
      /\ seen' = seen /\ old' = old /\ raised' = raised
  BY DEF Clear
<1>3. CallFits(call) /\ call.op \in {"write", "field"} /\ Pending(t)
  BY <1>2 DEF CsrInvariant, CallGoesOn
<1>4. /\ t \in HwRegs /\ file \in [HwRegs -> SUBSET Nat] /\ file[t] \subseteq Width(t)
      /\ Width(t) \subseteq Nat
  <2>1. t \in HwRegs /\ At(t).width \in 1..32
    BY <1>3 DEF CallFits
  <2>2. file \in [HwRegs -> SUBSET Nat] /\ file[t] \subseteq Width(t)
    BY <2>1 DEF CsrInvariant, Sorts, Fits
  <2>3. Width(t) \subseteq Nat
    BY <2>1 DEF Width
  <2> QED BY <2>1, <2>2, <2>3
<1> HIDE DEF t
<1>5. /\ file'[t] = (file[t] \ clearing) \cup events /\ file' \in [HwRegs -> SUBSET Nat]
      /\ \A j \in HwRegs \ {t} : file'[j] = file[j]
  BY <1>1, <1>4
<1>6. \A j \in HwRegs : Fits(file', j)
  BY <1>1, <1>4, <1>5 DEF CsrInvariant, Sorts, Fits
<1>7. Sorts'
  BY <1>2, <1>5, <1>6 DEF CsrInvariant, Sorts, Fits
<1>8. CallGoesOn'
  BY <1>2, <1>3 DEF CallGoesOn, CallFits
<1>9. OthersKept'
  BY <1>2, <1>5, OthersStay DEF t
<1>10. TargetKept' /\ HeldSeen' /\ EventsPending' /\ ReadsAreCurrent'
  BY <1>2, <1>3 DEF TargetKept, HeldSeen, EventsPending, ReadsAreCurrent
<1>11. FieldsAreApart'
  BY <1>2, <1>3 DEF FieldsAreApart, Pending, t
<1>12. LateEventsKept'
  <2> SUFFICES ASSUME call.op = "field"
               PROVE  (raised \ (Span(call.field) \cup old)) \cup events \subseteq file'[t]
    BY <1>1, <1>2 DEF LateEventsKept, t
  <2>1. raised \subseteq file[t] /\ clearing = Replace(old, call.field, call.value) \cap Width(t)
    BY <1>2, <1>3 DEF CsrInvariant, EventsPending, t
  <2>2. Replace(old, call.field, call.value) \ Span(call.field) = old \ Span(call.field)
    BY <1>3, ReplaceIsField DEF CallFits
  <2>3. clearing \subseteq Span(call.field) \cup old
    BY <2>1, <2>2
  <2> QED BY <1>5, <2>1, <2>3
<1> QED BY <1>7, <1>8, <1>9, <1>10, <1>11, <1>12 DEF CsrInvariant

\* While the call is on its way the hardware changes its register only, and only one
\* that shows a signal or takes events.
LEMMA HardwareStep ==
    ASSUME CsrInvariant, pc \in {"load", "store"}, At(call.target).kind # "storage",
           NEW word \in SUBSET Width(call.target),
           file' = [file EXCEPT ![call.target] = word], seen' = seen \cup {word},
           pc' = pc, call' = call, old' = old, isrpc' = isrpc, before' = before,
           Pending(call.target) => file[call.target] \cup (raised' \ raised) \subseteq word
    PROVE  CsrInvariant'
<1> DEFINE t == call.target
<1>1. CallFits(call)
  BY DEF CsrInvariant, CallGoesOn
<1>2. t \in HwRegs /\ file \in [HwRegs -> SUBSET Nat] /\ Width(t) \subseteq Nat
  <2>1. t \in HwRegs /\ At(t).width \in 1..32
    BY <1>1 DEF CallFits
  <2>2. file \in [HwRegs -> SUBSET Nat]
    BY DEF CsrInvariant, Sorts
  <2>3. Width(t) \subseteq Nat
    BY <2>1 DEF Width
  <2> QED BY <2>1, <2>2, <2>3
<1>3. file' = [file EXCEPT ![t] = word] /\ word \in SUBSET Width(t)
  OBVIOUS
<1> HIDE DEF t
<1>4. /\ file'[t] = word /\ file' \in [HwRegs -> SUBSET Nat]
      /\ \A j \in HwRegs \ {t} : file'[j] = file[j]
  BY <1>2, <1>3
<1>5. \A j \in HwRegs : Fits(file', j)
  BY <1>3, <1>4 DEF CsrInvariant, Sorts, Fits
<1>6. Sorts'
  BY <1>4, <1>5 DEF CsrInvariant, Sorts, Fits
<1>7. CallGoesOn'
  BY DEF CsrInvariant, CallGoesOn, CallFits
<1>8. OthersKept'
  BY <1>4, OthersStay DEF t
<1>9. TargetKept'
  BY DEF TargetKept, PlainTarget
<1>10. HeldSeen'
  BY <1>4 DEF HeldSeen, t
<1>11. EventsPending'
  <2>1. pc = "store" /\ call.op = "field" /\ Pending(t) => raised' \subseteq file'[t]
    BY <1>4 DEF CsrInvariant, EventsPending, t
  <2> QED BY <2>1 DEF EventsPending, t
<1>12. FieldsAreApart' /\ ReadsAreCurrent' /\ LateEventsKept'
  BY DEF FieldsAreApart, ReadsAreCurrent, LateEventsKept
<1> QED BY <1>6, <1>7, <1>8, <1>9, <1>10, <1>11, <1>12 DEF CsrInvariant

LEMMA FollowStep ==
    ASSUME CsrInvariant, Follow
    PROVE  CsrInvariant'
<1> DEFINE t == call.target
<1>1. /\ pc \in {"load", "store"} /\ At(t).kind = "status" /\ pc' = pc /\ call' = call
      /\ old' = old /\ isrpc' = isrpc /\ before' = before /\ seen' = seen \cup {file'[t]}
  BY DEF Follow
<1>2. t \in HwRegs /\ file \in [HwRegs -> SUBSET Nat]
  BY <1>1 DEF CsrInvariant, Sorts, CallGoesOn, CallFits
<1>3. PICK v \in Signals(t) : file' = [file EXCEPT ![t] = v]
  BY DEF Follow
<1>4. v \in SUBSET Width(t)
  BY <1>2, <1>3, CsrAssumption
<1>5. file'[t] = v
  <2> HIDE DEF t
  <2> QED BY <1>2, <1>3
<1>6. ~Pending(t) /\ At(t).kind # "storage"
  BY <1>1 DEF Pending
<1> QED BY <1>1, <1>3, <1>4, <1>5, <1>6, HardwareStep

LEMMA RaiseStep ==
    ASSUME CsrInvariant, Raise
    PROVE  CsrInvariant'
<1> DEFINE t == call.target
<1>1. /\ pc \in {"load", "store"} /\ Pending(t) /\ pc' = pc /\ call' = call
      /\ old' = old /\ isrpc' = isrpc /\ before' = before /\ seen' = seen \cup {file'[t]}
  BY DEF Raise
<1>2. t \in HwRegs /\ file \in [HwRegs -> SUBSET Nat] /\ file[t] \subseteq Width(t)
  BY <1>1 DEF CsrInvariant, Sorts, CallGoesOn, CallFits, Fits
<1>3. PICK b \in Width(t) : file' = [file EXCEPT ![t] = @ \cup {b}] /\ raised' = raised \cup {b}
  BY DEF Raise
<1> DEFINE word == file[t] \cup {b}
<1>4. file' = [file EXCEPT ![t] = word] /\ word \in SUBSET Width(t)
  BY <1>2, <1>3
<1>5. file'[t] = word
  <2> HIDE DEF t, word
  <2> QED BY <1>2, <1>4
<1>6. At(t).kind # "storage" /\ file[t] \cup (raised' \ raised) \subseteq word
  BY <1>1, <1>3 DEF Pending
<1> HIDE DEF word
<1> QED BY <1>1, <1>4, <1>5, <1>6, HardwareStep

\* The handler writes its two words, and no call but a macro's has one of them for a
\* target.
LEMMA IsrStep ==
    ASSUME CsrInvariant, Isr
    PROVE  CsrInvariant'
<1> DEFINE t == call.target
           word1 == HwNamed("la", "out", 1)
           word0 == HwNamed("la", "out", 0)
<1>1. /\ pc \in {"load", "store", "clear"} /\ pc' = pc /\ call' = call /\ old' = old
      /\ before' = before /\ seen' = seen /\ raised' = raised
  BY DEF Isr, history
<1>2. CallFits(call) /\ t \in HwRegs
  BY <1>1 DEF CsrInvariant, CallGoesOn, CallFits
<1>3. /\ word1 \in HwRegs /\ word0 \in HwRegs /\ word1 # word0 /\ Marked = {word1, word0}
      /\ At(word1).kind = "storage" /\ At(word1).width = 32 /\ At(word1).lane = 1
      /\ At(word0).kind = "storage" /\ At(word0).width = 32 /\ At(word0).lane = 0
      /\ Decode(AddressOf(laAlias("out", 1))) = word1
      /\ Decode(AddressOf(laAlias("out", 0))) = word0
      /\ IsrMarks[word1] = Mark1 /\ IsrMarks[word0] = Mark0
  BY MarkedWords
<1> HIDE DEF word1, word0
<1>4. ASSUME NEW k \in Marked, NEW mark,
             /\ file' \in [HwRegs -> SUBSET Nat] /\ \A j \in HwRegs : Fits(file', j)
             /\ \A j \in HwRegs \ {k} : file'[j] = file[j]
             /\ file'[k] = mark /\ clearing' = clearing,
             isrpc' \in {"la0", "returned"},
             \A j \in HwRegs \ {t} : j # k => Expected(j)' = Expected(j),
             k # t => Expected(k)' = mark
      PROVE  CsrInvariant'
  <2>1. Sorts'
    BY <1>1, <1>4 DEF CsrInvariant, Sorts, Fits
  <2>2. CallGoesOn'
    BY <1>1 DEF CsrInvariant, CallGoesOn, CallFits
  <2>3. OthersKept'
    <3>1. \A j \in HwRegs \ {t} : file[j] = Expected(j)
      BY <1>1 DEF CsrInvariant, OthersKept
    <3>2. \A j \in HwRegs \ {t} : file'[j] = Expected(j)'
      BY <1>4, <3>1
    <3> QED BY <1>1, <3>2 DEF OthersKept
  <2>4. t \notin Marked => file'[t] = file[t]
    BY <1>2, <1>4
  <2>5. TargetKept'
    BY <1>1, <2>4 DEF CsrInvariant, TargetKept, PlainTarget
  <2>6. HeldSeen'
    <3>1. pc = "load" => t \notin Marked
      BY <1>2 DEF CsrInvariant, CallGoesOn, CallFits
    <3> QED BY <1>1, <2>4, <3>1 DEF CsrInvariant, HeldSeen
  <2>7. EventsPending'
    <3>1. call.op = "field" => t \notin Marked
      BY <1>2 DEF CallFits
    <3> QED BY <1>1, <1>4, <2>4, <3>1 DEF CsrInvariant, EventsPending
  <2>8. FieldsAreApart' /\ ReadsAreCurrent' /\ LateEventsKept'
    BY <1>1 DEF FieldsAreApart, ReadsAreCurrent, LateEventsKept
  <2> QED BY <2>1, <2>2, <2>3, <2>5, <2>6, <2>7, <2>8 DEF CsrInvariant
<1>5. Sorts
  BY DEF CsrInvariant
<1>6. CASE /\ isrpc = "not yet" /\ isrpc' = "la0"
           /\ Write(AddressOf(laAlias("out", 1)), Mark1)
  <2>1. /\ file' \in [HwRegs -> SUBSET Nat] /\ \A j \in HwRegs : Fits(file', j)
        /\ \A j \in HwRegs \ {word1} : file'[j] = file[j]
        /\ file'[word1] = Mark1 \cap Width(word1) /\ clearing' = clearing
    <3>1. /\ word1 \in HwRegs /\ At(word1).width \in 1..32 /\ ~Pending(word1)
          /\ Decode(AddressOf(laAlias("out", 1))) = word1 /\ At(word1).kind = "storage"
      BY <1>3 DEF Pending
    <3> QED BY <1>5, <1>6, <3>1, WriteReaches
  <2>2. Mark1 \cap Width(word1) = Mark1
    BY <1>3 DEF Mark1, Width
  <2>3. \A j \in HwRegs \ {t} : j # word1 => Expected(j)' = Expected(j)
    BY <1>1, <1>3, <1>6 DEF Expected
  <2>4. Expected(word1)' = Mark1
    BY <1>3, <1>6 DEF Expected
  <2> QED BY <1>3, <1>4, <1>6, <2>1, <2>2, <2>3, <2>4
<1>7. CASE /\ isrpc = "la0" /\ isrpc' = "returned"
           /\ Write(AddressOf(laAlias("out", 0)), Mark0)
  <2>1. /\ file' \in [HwRegs -> SUBSET Nat] /\ \A j \in HwRegs : Fits(file', j)
        /\ \A j \in HwRegs \ {word0} : file'[j] = file[j]
        /\ file'[word0] = Mark0 \cap Width(word0) /\ clearing' = clearing
    <3>1. /\ word0 \in HwRegs /\ At(word0).width \in 1..32 /\ ~Pending(word0)
          /\ Decode(AddressOf(laAlias("out", 0))) = word0 /\ At(word0).kind = "storage"
      BY <1>3 DEF Pending
    <3> QED BY <1>5, <1>7, <3>1, WriteReaches
  <2>2. Mark0 \cap Width(word0) = Mark0
    BY <1>3 DEF Mark0, Width
  <2>3. \A j \in HwRegs \ {t} : j # word0 => Expected(j)' = Expected(j)
    BY <1>1, <1>3, <1>7 DEF Expected
  <2>4. Expected(word0)' = Mark0
    BY <1>3, <1>7 DEF Expected
  <2> QED BY <1>3, <1>4, <1>7, <2>1, <2>2, <2>3, <2>4
<1> QED BY <1>6, <1>7 DEF Isr

-----------------------------------------------------------------------------
(* The theorems.                                                           *)

\* Before the first call the registers hold a filling, and no call is on its way.
LEMMA CsrInit == Init => CsrInvariant
<1> SUFFICES ASSUME Init PROVE CsrInvariant
  OBVIOUS
<1>1. pc = "idle" /\ isrpc = "not yet" /\ before = file /\ file \in Fillings
  BY DEF Init
<1>2. file \in [HwRegs -> SUBSET Bits] /\ \A k \in HwRegs : file[k] \subseteq Width(k)
  BY <1>1, CsrAssumption, Zenon
<1>3. file \in [HwRegs -> SUBSET Nat]
  BY <1>2 DEF Bits
<1>4. Sorts
  BY <1>1, <1>2, <1>3 DEF Sorts, Fits
<1> QED BY <1>1, <1>4 DEF CsrInvariant, CallGoesOn, OthersKept, TargetKept, HeldSeen,
           EventsPending, FieldsAreApart, ReadsAreCurrent, LateEventsKept

LEMMA CsrStutter ==
    ASSUME CsrInvariant, UNCHANGED vars
    PROVE  CsrInvariant'
<1>1. /\ file' = file /\ clearing' = clearing /\ pc' = pc /\ call' = call /\ old' = old
      /\ isrpc' = isrpc /\ before' = before /\ seen' = seen /\ raised' = raised /\ edge' = edge
  BY DEF vars, history
<1>2. Sorts'
  BY <1>1 DEF CsrInvariant, Sorts, Fits
<1>3. CallGoesOn'
  BY <1>1 DEF CsrInvariant, CallGoesOn, CallFits
<1>4. OthersKept'
  BY <1>1 DEF CsrInvariant, OthersKept, Expected
<1>5. TargetKept'
  BY <1>1 DEF CsrInvariant, TargetKept, PlainTarget
<1>6. HeldSeen' /\ EventsPending'
  BY <1>1 DEF CsrInvariant, HeldSeen, EventsPending
<1>7. FieldsAreApart' /\ ReadsAreCurrent' /\ LateEventsKept'
  BY <1>1 DEF CsrInvariant, FieldsAreApart, ReadsAreCurrent, LateEventsKept
<1> QED BY <1>2, <1>3, <1>4, <1>5, <1>6, <1>7 DEF CsrInvariant

\* At every step of a call: what it has read is still the register's, its events are
\* still pending, and the registers it is not about are as they should be.
LEMMA CsrInvariantCorrect == Spec => []CsrInvariant
<1>1. CsrInvariant /\ [Next]_vars => CsrInvariant'
  BY BeginStep, LoadStep, StoreStep, ClearStep, FollowStep, RaiseStep, IsrStep, CsrStutter DEF Next
<1> QED BY <1>1, CsrInit, PTL DEF Spec

\* When an accessor or a macro returns, no register but the one of its name has
\* changed, but for the two words the handler writes.
THEOREM NamedRegisterCorrect == Spec => []OnlyTheNamedRegister
<1>1. CsrInvariant => OnlyTheNamedRegister
  BY DEF CsrInvariant, OthersKept, Expected, OnlyTheNamedRegister
<1> QED BY <1>1, CsrInvariantCorrect, PTL

\* A write leaves the value; a write of a field leaves the other fields.
THEOREM FieldsCorrect == Spec => []FieldsAreApart
<1>1. CsrInvariant => FieldsAreApart
  BY DEF CsrInvariant
<1> QED BY <1>1, CsrInvariantCorrect, PTL

\* A read returns what the register held at some moment of the call.
THEOREM ReadsCorrect == Spec => []ReadsAreCurrent
<1>1. CsrInvariant => ReadsAreCurrent
  BY DEF CsrInvariant
<1> QED BY <1>1, CsrInvariantCorrect, PTL

\* Acknowledging an event loses none that comes after the word was read.
THEOREM EventsCorrect == Spec => []LateEventsKept
<1>1. CsrInvariant => LateEventsKept
  BY DEF CsrInvariant
<1> QED BY <1>1, CsrInvariantCorrect, PTL
=============================================================================
