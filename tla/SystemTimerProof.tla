--------------------------- MODULE SystemTimerProof ---------------------------
(***************************************************************************)
(* Proofs about the timer library, for words of any width, any intervals   *)
(* and any number of calls: its variables keep their types, timer_read     *)
(* returns a time of the call and goes round only for a carry, and         *)
(* timecmp_update arms the time it was asked for without ever letting an   *)
(* earlier interrupt through.                                              *)
(*                                                                         *)
(* The argument for timer_read: the high word read first was the high word *)
(* at some moment of the call, and the time only grows.  If the device     *)
(* still shows it when the low word has been read, it has shown it at      *)
(* every moment in between, the one of the low word included.  So it is    *)
(* enough to carry along, while the call is between its accesses, that the *)
(* high word lies between the two and that the low word is good should the *)
(* check succeed.                                                          *)
(*                                                                         *)
(* The argument for timecmp_update: the first store of an update makes the *)
(* low word the greatest there is, so the compare value can only be late;  *)
(* what it is between the other two stores, and what the handler leaves    *)
(* behind when it comes between them, is UpdateInv, below.                 *)
(***************************************************************************)
EXTENDS SystemTimer, TLAPS

Reading == {"readh", "readl", "check"}

\* What holds of context c while timer_read is under way, and after it.
ReadInv(c) ==
    /\ NotAfter(since[c], mtime)
    /\ pc[c] \in {"readl", "check"} =>
          /\ since[c].h <= current[c].h /\ current[c].h <= mtime.h
          /\ (pc[c] = "check" /\ current[c].h = mtime.h) =>
                NotAfter(since[c], current[c]) /\ NotAfter(current[c], mtime)
    /\ pc[c] \notin Reading =>
          NotAfter(since[c], current[c]) /\ NotAfter(current[c], mtime)

TimerInv == TypeOK /\ \A c \in Ctx : ReadInv(c)

-----------------------------------------------------------------------------
(* The next time is a time, and later; a sum of times is a time.           *)
LEMMA SuccTime ==
    ASSUME NEW t \in Time
    PROVE  Succ(t) \in Time /\ NotAfter(t, Succ(t)) /\ t.h <= Succ(t).h
BY TimerAssumption DEF Time, Word, Succ, NotAfter

\* Addition of two times carries from the low into the high word and no further.
LEMMA PlusTime ==
    ASSUME NEW a \in Time, NEW b \in Time
    PROVE  Plus(a, b) \in Time
BY TimerAssumption DEF Time, Word, Plus

\* The order of times is transitive and reflexive.
LEMMA NotAfterTrans ==
    ASSUME NEW a \in Time, NEW b \in Time, NEW c \in Time, NotAfter(a, b), NotAfter(b, c)
    PROVE  NotAfter(a, c)
BY DEF Time, Word, NotAfter

LEMMA NotAfterRefl ==
    ASSUME NEW a \in Time
    PROVE  NotAfter(a, a)
BY DEF Time, Word, NotAfter

-----------------------------------------------------------------------------
(* Types.                                                                  *)
LEMMA TypeInit == Init => TypeOK
<1>1. Zero \in Time
  BY TimerAssumption DEF Zero, Time, Word
<1>2. ASSUME Init PROVE mie \in BOOLEAN /\ mstatus \in BOOLEAN /\ mixed \in BOOLEAN
  BY <1>2, Zenon DEF Init
<1>3. ASSUME Init
      PROVE  /\ pc \in [Ctx -> {"idle", "readh", "readl", "check", "inc", "guard", "high", "low",
                              "clearl", "clearh", "incl", "inch", "mie", "mstatus", "geth", "done"}]
             /\ ret \in [Ctx -> {"inc", "done"}] /\ retries \in [Ctx -> Nat]
             /\ current \in [Ctx -> Time] /\ base \in [Ctx -> Time]
             /\ new_time \in [Ctx -> Time] /\ since \in [Ctx -> Time]
  BY <1>1, <1>3 DEF Init
<1>4. ASSUME Init
      PROVE  /\ mtime \in Time /\ mtimecmp \in Time /\ time_elapsed \in Time
             /\ time_increment \in Time /\ got \in Time /\ before \in Time
             /\ armed \subseteq Time /\ calls \in Nat
  BY <1>1, <1>4 DEF Init
<1>. QED BY <1>2, <1>3, <1>4 DEF TypeOK

LEMMA TypeNext == TypeOK /\ [Next]_vars => TypeOK'
<1>. SUFFICES ASSUME TypeOK, [Next]_vars PROVE TypeOK'
  OBVIOUS
<1>. USE DEF TypeOK
<1>z. Zero \in Time
  BY TimerAssumption DEF Zero, Time, Word
<1>w. W - 1 \in Word /\ 0 \in Word
  BY TimerAssumption DEF Word
<1>h. /\ \A t \in Time : t.h \in Nat /\ t.l \in Word
      /\ \A t \in Time, x \in Nat : [t EXCEPT !.h = x] \in Time
      /\ \A t \in Time, x \in Word : [t EXCEPT !.l = x] \in Time
  BY DEF Time
<1>i. \A f \in [Ctx -> Time], c \in Ctx, x \in Nat : [f EXCEPT ![c].h = x] \in [Ctx -> Time]
  BY <1>h
<1>j. \A f \in [Ctx -> Time], c \in Ctx, x \in Word : [f EXCEPT ![c].l = x] \in [Ctx -> Time]
  BY <1>h
<1>1. CASE Tick
  BY <1>1, SuccTime DEF Tick, locals, globals, history
<1>2. CASE Interrupt
  BY <1>2 DEF Interrupt, Goto, EnterRead, globals, Ctx
<1>3. ASSUME NEW c \in Ctx, ReadHigh(c) PROVE TypeOK'
  BY <1>3, <1>h, <1>i DEF ReadHigh, Goto, device, globals, history
<1>4. ASSUME NEW c \in Ctx, ReadLow(c) PROVE TypeOK'
  BY <1>4, <1>h, <1>j DEF ReadLow, Goto, device, globals, history
<1>5. ASSUME NEW c \in Ctx, CheckHigh(c) PROVE TypeOK'
  BY <1>5 DEF CheckHigh, Goto, device, globals
<1>6. ASSUME NEW c \in Ctx, Increment(c) PROVE TypeOK'
  <2>1. Plus(current[c], base[c]) \in Time
    BY PlusTime
  <2>. QED BY <1>6, <2>1 DEF Increment, Goto, device, globals
<1>7. ASSUME NEW c \in Ctx, WriteGuard(c) PROVE TypeOK'
  BY <1>7, <1>h, <1>w DEF WriteGuard, GuardWord, Goto, globals
<1>8. ASSUME NEW c \in Ctx, WriteHigh(c) PROVE TypeOK'
  BY <1>8, <1>h DEF WriteHigh, Goto, globals, history
<1>9. ASSUME NEW c \in Ctx, WriteLow(c) PROVE TypeOK'
  BY <1>9, <1>h DEF WriteLow, LowWord, Goto, globals
<1>10. CASE HandlerReturn
  BY <1>10, SuccTime DEF HandlerReturn, Goto, history
<1>11. CASE CallRead
  BY <1>11, <1>z DEF CallRead, Call, EnterRead, Goto, device, globals, Ctx
<1>12. CASE CallUpdate
  BY <1>12, TimerAssumption DEF CallUpdate, Call, Goto, device, globals, Ctx
<1>13. CASE CallEnable
  BY <1>13, TimerAssumption DEF CallEnable, Call, Goto, device, globals, Ctx
<1>14. CASE CallDisable
  <2>1. mie' \in BOOLEAN /\ mstatus' \in BOOLEAN /\ mixed' \in BOOLEAN
    BY <1>14, Zenon DEF CallDisable
  <2>. QED BY <1>14, <2>1 DEF CallDisable, Call, Goto, globals, Ctx
<1>15. CASE CallElapsed
  BY <1>15, <1>h DEF CallElapsed, Call, Goto, device, globals, Ctx
<1>16. CASE ElapsedHigh
  BY <1>16, <1>h DEF ElapsedHigh, Goto, device, globals, history
<1>17. CASE EnableStores
  <2>1. time_elapsed' \in Time /\ time_increment' \in Time
    BY <1>17, <1>h, <1>w DEF EnableStores, Ctx
  <2>2. /\ pc' \in [Ctx -> {"idle", "readh", "readl", "check", "inc", "guard", "high", "low",
                          "clearl", "clearh", "incl", "inch", "mie", "mstatus", "geth", "done"}]
    BY <1>17 DEF EnableStores, MainStep, Goto, Ctx
  <2>. QED BY <1>17, <2>1, <2>2 DEF EnableStores, device, history
<1>18. CASE EnableArms
  BY <1>18, <1>h DEF EnableArms, MainStep, EnterRead, Goto, device, Ctx
<1>19. CASE EnableInterrupts
  BY <1>19 DEF EnableInterrupts, MainStep, Goto, globals, history
<1>20. CASE UNCHANGED vars
  BY <1>20 DEF vars, device, locals, globals, history
<1>. QED
  BY <1>1, <1>2, <1>3, <1>4, <1>5, <1>6, <1>7, <1>8, <1>9, <1>10, <1>11, <1>12, <1>13,
     <1>14, <1>15, <1>16, <1>17, <1>18, <1>19, <1>20 DEF Next, Step, Main

\* The variables of the timer library keep their types: the low half of a time
\* is a word, also where two times are added.
THEOREM TimerTypeCorrect == Spec => []TypeOK
BY TypeInit, TypeNext, PTL DEF Spec

-----------------------------------------------------------------------------
(* timer_read.                                                             *)

\* A step that leaves c's call alone keeps what holds of it: the time only grows.
LEMMA ReadInvStays ==
    ASSUME TypeOK, TypeOK', NEW c \in Ctx, ReadInv(c),
           mtime' = mtime \/ (NotAfter(mtime, mtime') /\ mtime.h <= mtime'.h
                               /\ mtime' = Succ(mtime)),
           since'[c] = since[c], current'[c] = current[c],
           pc'[c] = pc[c] \/ {pc[c], pc'[c]} \cap Reading = {}
    PROVE  ReadInv(c)'
<1>1. /\ mtime \in Time /\ mtime' \in Time /\ since[c] \in Time /\ current[c] \in Time
  BY DEF TypeOK
<1>2. NotAfter(since[c], mtime)'
  BY <1>1 DEF ReadInv, NotAfter, Time, Word
<1>3. ASSUME pc'[c] \notin Reading
      PROVE  NotAfter(since[c], current[c])' /\ NotAfter(current[c], mtime)'
  <2>1. NotAfter(since[c], current[c]) /\ NotAfter(current[c], mtime)
    BY <1>3 DEF ReadInv
  <2>. QED BY <1>1, <2>1 DEF NotAfter, Time, Word
<1>4. ASSUME pc'[c] \in {"readl", "check"}
      PROVE  pc[c] = pc'[c] /\ since[c].h <= current[c].h /\ current[c].h <= mtime'.h
  <2>1. pc[c] = pc'[c]
    BY <1>4 DEF Reading
  <2>. QED BY <1>1, <1>4, <2>1 DEF ReadInv, Time
<1>5. ASSUME pc'[c] = "check", current'[c].h = mtime'.h
      PROVE  NotAfter(since[c], current[c])' /\ NotAfter(current[c], mtime)'
  <2>1. current[c].h = mtime.h
    BY <1>1, <1>4, <1>5 DEF ReadInv, Time
  <2>2. NotAfter(since[c], current[c]) /\ NotAfter(current[c], mtime)
    BY <1>4, <1>5, <2>1 DEF ReadInv
  <2>. QED BY <1>1, <2>2 DEF NotAfter, Time, Word
<1>. QED BY <1>2, <1>3, <1>4, <1>5 DEF ReadInv

\* The invariant of timer_read holds at the start ...
LEMMA ReadInit == Init => TimerInv
<1>1. Zero \in Time
  BY TimerAssumption DEF Zero, Time, Word
<1>2. ASSUME Init, NEW c \in Ctx PROVE ReadInv(c)
  BY <1>1, <1>2, NotAfterRefl DEF Init, ReadInv, Reading
<1>. QED BY <1>2, TypeInit DEF TimerInv

\* ... and every step keeps it.
LEMMA ReadNext == TimerInv /\ [Next]_vars => TimerInv'
<1>. SUFFICES ASSUME TimerInv, [Next]_vars PROVE TimerInv'
  OBVIOUS
<1>0. TypeOK /\ TypeOK' /\ \A c \in Ctx : ReadInv(c)
  BY TypeNext DEF TimerInv
<1>. SUFFICES ASSUME NEW d \in Ctx PROVE ReadInv(d)'
  BY <1>0 DEF TimerInv
<1>a. /\ mtime \in Time /\ mtime' \in Time
      /\ since[d] \in Time /\ current[d] \in Time /\ ReadInv(d)
      /\ DOMAIN pc = Ctx /\ since \in [Ctx -> Time] /\ current \in [Ctx -> Time]
      /\ mtime.h \in Nat /\ mtime.l \in Word
  BY <1>0 DEF TypeOK, Time
<1>1. CASE Tick
  BY <1>0, <1>1, <1>a, SuccTime, ReadInvStays DEF Tick, locals, history
<1>2. CASE Interrupt
  <2>1. CASE d = "irq"
    <3>1. pc'[d] = "readh" /\ since'[d] = mtime /\ mtime' = mtime
      BY <1>2, <1>a, <2>1 DEF Interrupt, Goto, EnterRead
    <3>. QED BY <3>1, <1>a, NotAfterRefl DEF ReadInv, Reading
  <2>2. CASE d # "irq"
    BY <1>0, <1>2, <1>a, <2>2, ReadInvStays DEF Interrupt, Goto, EnterRead
  <2>. QED BY <2>1, <2>2
<1>3. ASSUME NEW c \in Ctx, ReadHigh(c) PROVE ReadInv(d)'
  <2>1. CASE d = c
    <3>1. /\ pc[d] = "readh" /\ pc'[d] = "readl" /\ mtime' = mtime /\ since' = since
          /\ current'[d].h = mtime.h
      BY <1>3, <1>a, <2>1 DEF ReadHigh, Goto, device, history, Time
    <3>. QED BY <3>1, <1>a DEF ReadInv, Reading, NotAfter, Time
  <2>2. CASE d # c
    BY <1>0, <1>3, <1>a, <2>2, ReadInvStays DEF ReadHigh, Goto, device, history
  <2>. QED BY <2>1, <2>2
<1>4. ASSUME NEW c \in Ctx, ReadLow(c) PROVE ReadInv(d)'
  <2>1. CASE d = c
    <3>1. /\ pc[d] = "readl" /\ pc'[d] = "check" /\ mtime' = mtime /\ since' = since
          /\ current'[d].h = current[d].h /\ current'[d].l = mtime.l
      BY <1>4, <1>a, <2>1 DEF ReadLow, Goto, device, history, Time
    <3>. QED BY <3>1, <1>a DEF ReadInv, Reading, NotAfter, Time, Word
  <2>2. CASE d # c
    BY <1>0, <1>4, <1>a, <2>2, ReadInvStays DEF ReadLow, Goto, device, history
  <2>. QED BY <2>1, <2>2
<1>5. ASSUME NEW c \in Ctx, CheckHigh(c) PROVE ReadInv(d)'
  <2>1. CASE d = c /\ SameHigh(c)
    <3>1. /\ pc[d] = "check" /\ current[d].h = mtime.h
          /\ mtime' = mtime /\ since' = since /\ current' = current
          /\ pc'[d] \in {"inc", "done"}
      BY <1>0, <1>5, <1>a, <2>1 DEF CheckHigh, SameHigh, Goto, device, TypeOK
    <3>. QED BY <3>1, <1>a DEF ReadInv, Reading
  <2>2. CASE d = c /\ ~SameHigh(c)
    <3>1. pc'[d] = "readh" /\ mtime' = mtime /\ since' = since
      BY <1>5, <1>a, <2>2 DEF CheckHigh, Goto, device
    <3>. QED BY <3>1, <1>a DEF ReadInv, Reading
  <2>3. CASE d # c
    BY <1>0, <1>5, <1>a, <2>3, ReadInvStays DEF CheckHigh, Goto, device
  <2>. QED BY <2>1, <2>2, <2>3
<1>6. ASSUME NEW c \in Ctx, Increment(c) PROVE ReadInv(d)'
  BY <1>0, <1>6, <1>a, ReadInvStays DEF Increment, Goto, device, Reading
<1>7. ASSUME NEW c \in Ctx, WriteGuard(c) PROVE ReadInv(d)'
  BY <1>0, <1>7, <1>a, ReadInvStays DEF WriteGuard, Goto, Reading
<1>8. ASSUME NEW c \in Ctx, WriteHigh(c) PROVE ReadInv(d)'
  BY <1>0, <1>8, <1>a, ReadInvStays DEF WriteHigh, Goto, history, Reading
<1>9. ASSUME NEW c \in Ctx, WriteLow(c) PROVE ReadInv(d)'
  BY <1>0, <1>9, <1>a, ReadInvStays DEF WriteLow, Goto, Reading
<1>10. CASE HandlerReturn
  BY <1>0, <1>10, <1>a, ReadInvStays DEF HandlerReturn, Goto, history, Reading
<1>11. CASE CallRead
  <2>1. CASE d = "main"
    <3>1. pc'[d] = "readh" /\ since'[d] = mtime /\ mtime' = mtime
      BY <1>11, <1>a, <2>1 DEF CallRead, Call, Goto, EnterRead, device
    <3>. QED BY <3>1, <1>a, NotAfterRefl DEF ReadInv, Reading
  <2>2. CASE d # "main"
    BY <1>0, <1>11, <1>a, <2>2, ReadInvStays DEF CallRead, Call, Goto, EnterRead, device
  <2>. QED BY <2>1, <2>2
<1>12. CASE CallUpdate
  BY <1>0, <1>12, <1>a, ReadInvStays DEF CallUpdate, Call, Goto, device, Reading
<1>13. CASE CallEnable
  BY <1>0, <1>13, <1>a, ReadInvStays DEF CallEnable, Call, Goto, device, Reading
<1>14. CASE CallDisable
  BY <1>0, <1>14, <1>a, ReadInvStays DEF CallDisable, Call, Goto, Reading
<1>15. CASE CallElapsed
  BY <1>0, <1>15, <1>a, ReadInvStays DEF CallElapsed, Call, Goto, device, Reading
<1>16. CASE ElapsedHigh
  BY <1>0, <1>16, <1>a, ReadInvStays DEF ElapsedHigh, Goto, device, history, Reading
<1>17. CASE EnableStores
  BY <1>0, <1>17, <1>a, ReadInvStays DEF EnableStores, MainStep, Goto, device, history, Reading
<1>18. CASE EnableArms
  <2>1. CASE d = "main"
    <3>1. pc'[d] = "readh" /\ since'[d] = mtime /\ mtime' = mtime
      BY <1>18, <1>a, <2>1 DEF EnableArms, MainStep, Goto, EnterRead, device
    <3>. QED BY <3>1, <1>a, NotAfterRefl DEF ReadInv, Reading
  <2>2. CASE d # "main"
    BY <1>0, <1>18, <1>a, <2>2, ReadInvStays DEF EnableArms, MainStep, Goto, EnterRead, device
  <2>. QED BY <2>1, <2>2
<1>19. CASE EnableInterrupts
  BY <1>0, <1>19, <1>a, ReadInvStays DEF EnableInterrupts, MainStep, Goto, history, Reading
<1>20. CASE UNCHANGED vars
  BY <1>0, <1>20, ReadInvStays DEF vars, device, locals, history
<1>. QED
  BY <1>1, <1>2, <1>3, <1>4, <1>5, <1>6, <1>7, <1>8, <1>9, <1>10, <1>11, <1>12, <1>13,
     <1>14, <1>15, <1>16, <1>17, <1>18, <1>19, <1>20 DEF Next, Step, Main

\* timer_read returns a time of the call, in main and in the handler, for words
\* of any width and however often the time carries meanwhile.
THEOREM TimerReadCorrect == Spec => []ReadsAreTimes
<1>1. TimerInv => ReadsAreTimes
  BY DEF TimerInv, ReadInv, ReadsAreTimes, Reading
<1>. QED BY ReadInit, ReadNext, <1>1, PTL DEF Spec

-----------------------------------------------------------------------------
(* How often timer_read goes round: as often, at most, as the high word has *)
(* been counted up since the call began.                                   *)

RetryInv(c) ==
    /\ pc[c] = "readh" => retries[c] <= mtime.h - since[c].h
    /\ pc[c] \in {"readl", "check"} => retries[c] <= current[c].h - since[c].h

LEMMA RetryInit == Init => \A c \in Ctx : RetryInv(c)
BY DEF Init, RetryInv

\* A step that leaves c's call alone.
LEMMA RetryStays ==
    ASSUME TypeOK, TypeOK', NEW c \in Ctx, RetryInv(c), mtime.h <= mtime'.h,
           since'[c] = since[c], current'[c] = current[c], retries'[c] = retries[c],
           pc'[c] = pc[c] \/ pc'[c] \notin Reading
    PROVE  RetryInv(c)'
<1>1. /\ mtime.h \in Nat /\ mtime'.h \in Nat /\ since[c].h \in Nat /\ current[c].h \in Nat
      /\ retries[c] \in Nat
  BY DEF TypeOK, Time
<1>. QED BY <1>1 DEF RetryInv, Reading

LEMMA RetryNext ==
    ASSUME TimerInv, TypeOK', [Next]_vars, NEW d \in Ctx, RetryInv(d)
    PROVE  RetryInv(d)'
<1>0. TypeOK /\ ReadInv(d)
  BY DEF TimerInv
<1>a. /\ mtime.h \in Nat /\ mtime'.h \in Nat /\ mtime \in Time /\ mtime' \in Time
      /\ since[d].h \in Nat /\ current[d].h \in Nat /\ retries[d] \in Nat
      /\ DOMAIN pc = Ctx /\ since \in [Ctx -> Time] /\ current \in [Ctx -> Time]
      /\ current[d] \in Time /\ retries \in [Ctx -> Nat] /\ DOMAIN ret = Ctx
  BY <1>0 DEF TypeOK, Time
<1>r. mtime' = mtime => mtime.h <= mtime'.h
  BY <1>a
<1>1. CASE Tick
  BY <1>0, <1>1, <1>a, SuccTime, RetryStays DEF Tick, locals, history
<1>2. ASSUME mtime' = mtime, since'[d] = mtime, pc'[d] = "readh", retries'[d] = 0
      PROVE  RetryInv(d)'
  BY <1>2, <1>a DEF RetryInv
<1>3. CASE Interrupt
  <2>1. CASE d = "irq"
    BY <1>2, <1>3, <1>a, <2>1 DEF Interrupt, Goto, EnterRead
  <2>2. CASE d # "irq"
    BY <1>0, <1>3, <1>a, <1>r, <2>2, RetryStays DEF Interrupt, Goto, EnterRead
  <2>. QED BY <2>1, <2>2
<1>4. ASSUME NEW c \in Ctx, ReadHigh(c) PROVE RetryInv(d)'
  <2>1. CASE d = c
    <3>1. /\ pc[d] = "readh" /\ pc'[d] = "readl" /\ since' = since /\ retries' = retries
          /\ current'[d].h = mtime.h
      BY <1>4, <1>a, <2>1 DEF ReadHigh, Goto, history, Time
    <3>. QED BY <3>1, <1>a DEF RetryInv
  <2>2. CASE d # c
    BY <1>0, <1>4, <1>a, <1>r, <2>2, RetryStays DEF ReadHigh, Goto, device, history
  <2>. QED BY <2>1, <2>2
<1>5. ASSUME NEW c \in Ctx, ReadLow(c) PROVE RetryInv(d)'
  <2>1. CASE d = c
    <3>1. /\ pc[d] = "readl" /\ pc'[d] = "check" /\ since' = since /\ retries' = retries
          /\ current'[d].h = current[d].h
      BY <1>5, <1>a, <2>1 DEF ReadLow, Goto, history, Time
    <3>. QED BY <3>1, <1>a DEF RetryInv
  <2>2. CASE d # c
    BY <1>0, <1>5, <1>a, <1>r, <2>2, RetryStays DEF ReadLow, Goto, device, history
  <2>. QED BY <2>1, <2>2
<1>6. ASSUME NEW c \in Ctx, CheckHigh(c) PROVE RetryInv(d)'
  <2>1. CASE d = c /\ SameHigh(c)
    <3>1. pc'[d] \notin Reading
      BY <1>0, <1>6, <1>a, <2>1 DEF CheckHigh, Goto, TypeOK, Reading
    <3>. QED BY <3>1 DEF RetryInv, Reading
  <2>2. CASE d = c /\ ~SameHigh(c)
    \* The high word has gone on since it was read: one more round, one more carry.
    <3>1. /\ pc[d] = "check" /\ pc'[d] = "readh" /\ mtime' = mtime /\ since' = since
          /\ retries'[d] = retries[d] + 1
      BY <1>6, <1>a, <2>2 DEF CheckHigh, Goto, device
    <3>2. current[d].h < mtime.h
      BY <1>0, <1>a, <2>2, <3>1 DEF ReadInv, SameHigh
    <3>3. retries[d] <= current[d].h - since[d].h
      BY <3>1 DEF RetryInv
    <3>4. retries'[d] <= mtime.h - since[d].h
      BY <1>a, <3>1, <3>2, <3>3
    <3>. QED BY <3>1, <3>4 DEF RetryInv
  <2>3. CASE d # c
    BY <1>0, <1>6, <1>a, <1>r, <2>3, RetryStays DEF CheckHigh, Goto, device
  <2>. QED BY <2>1, <2>2, <2>3
<1>7. ASSUME NEW c \in Ctx, Increment(c) PROVE RetryInv(d)'
  BY <1>0, <1>7, <1>a, <1>r, RetryStays DEF Increment, Goto, device, Reading
<1>8. ASSUME NEW c \in Ctx, WriteGuard(c) PROVE RetryInv(d)'
  BY <1>0, <1>8, <1>a, <1>r, RetryStays DEF WriteGuard, Goto, Reading
<1>9. ASSUME NEW c \in Ctx, WriteHigh(c) PROVE RetryInv(d)'
  BY <1>0, <1>9, <1>a, <1>r, RetryStays DEF WriteHigh, Goto, history, Reading
<1>10. ASSUME NEW c \in Ctx, WriteLow(c) PROVE RetryInv(d)'
  BY <1>0, <1>10, <1>a, <1>r, RetryStays DEF WriteLow, Goto, Reading
<1>11. CASE HandlerReturn
  BY <1>0, <1>11, <1>a, <1>r, RetryStays DEF HandlerReturn, Goto, history, Reading
<1>12. CASE CallRead \/ EnableArms
  <2>1. CASE d = "main"
    BY <1>2, <1>12, <1>a, <2>1
    DEF CallRead, EnableArms, Call, MainStep, Goto, EnterRead, device
  <2>2. CASE d # "main"
    BY <1>0, <1>12, <1>a, <1>r, <2>2, RetryStays
    DEF CallRead, EnableArms, Call, MainStep, Goto, EnterRead, device
  <2>. QED BY <2>1, <2>2
<1>13. CASE CallUpdate
  BY <1>0, <1>13, <1>a, <1>r, RetryStays DEF CallUpdate, Call, Goto, device, Reading
<1>14. CASE CallEnable
  BY <1>0, <1>14, <1>a, <1>r, RetryStays DEF CallEnable, Call, Goto, device, Reading
<1>15. CASE CallDisable
  BY <1>0, <1>15, <1>a, <1>r, RetryStays DEF CallDisable, Call, Goto, Reading
<1>16. CASE CallElapsed
  BY <1>0, <1>16, <1>a, <1>r, RetryStays DEF CallElapsed, Call, Goto, device, Reading
<1>17. CASE ElapsedHigh
  BY <1>0, <1>17, <1>a, <1>r, RetryStays DEF ElapsedHigh, Goto, device, history, Reading
<1>18. CASE EnableStores
  BY <1>0, <1>18, <1>a, <1>r, RetryStays DEF EnableStores, MainStep, Goto, device, history, Reading
<1>19. CASE EnableInterrupts
  BY <1>0, <1>19, <1>a, <1>r, RetryStays DEF EnableInterrupts, MainStep, Goto, history, Reading
<1>20. CASE UNCHANGED vars
  BY <1>0, <1>20, <1>r, RetryStays DEF vars, device, locals, history
<1>. QED
  BY <1>1, <1>3, <1>4, <1>5, <1>6, <1>7, <1>8, <1>9, <1>10, <1>11, <1>12, <1>13,
     <1>14, <1>15, <1>16, <1>17, <1>18, <1>19, <1>20 DEF Next, Step, Main

\* timer_read repeats its loads of the two words no more often than the low word
\* has carried into the high one during the call, in main and in the handler.
THEOREM TimerRetriesBounded == Spec => []RetriesAreCarries
<1>. DEFINE Inv == TimerInv /\ \A c \in Ctx : RetryInv(c)
<1>1. Init => Inv
  BY ReadInit, RetryInit
<1>2. Inv /\ [Next]_vars => Inv'
  BY ReadNext, RetryNext DEF TimerInv
<1>3. Inv => RetriesAreCarries
  <2>. SUFFICES ASSUME Inv, NEW c \in Ctx, pc[c] \in Reading
                PROVE  retries[c] <= mtime.h - since[c].h
    BY DEF RetriesAreCarries, Reading
  <2>1. mtime.h \in Nat /\ since[c].h \in Nat /\ current[c].h \in Nat /\ retries[c] \in Nat
    BY DEF TimerInv, TypeOK, Time
  <2>2. RetryInv(c) /\ ReadInv(c)
    BY DEF TimerInv
  <2>. QED BY <2>1, <2>2 DEF RetryInv, ReadInv, Reading
<1>. QED BY <1>1, <1>2, <1>3, PTL DEF Spec

-----------------------------------------------------------------------------
(* timecmp_update.  An update stores the compare value in three pieces, and *)
(* the handler may make a whole update between two pieces of main's.  What *)
(* has to be carried along is where the compare value is then, relative to *)
(* the times asked for: at rest it is one of them, or at least not before  *)
(* one, because what the handler arms is not before main's new time once   *)
(* main's high word has been stored and its interrupt has come all the same. *)

Pending(c) == pc[c] \in {"guard", "high", "low"}
Late == \E t \in armed : NotAfter(t, mtimecmp)

\* What has been asked for, and when the handler may run at all.
AskedInv ==
    /\ \A c \in Ctx : Pending(c) => new_time[c] \in armed
    /\ mie \/ pc["main"] = "mie" => armed # {}
    /\ pc["irq"] # "idle" => mie /\ ret["irq"] = "inc"

\* The compare value while no update, or none past its first store, is under way.
RestInv ==
    /\ armed # {} /\ NobodyUpdates => Late /\ (~mixed => mtimecmp \in armed)
    /\ mie /\ pc["main"] \in {"guard", "high"} /\ ~Pending("irq") => Late

\* The compare value between the stores of main.
MainInv ==
    /\ Updating("main") /\ ~mixed => pc["irq"] = "idle" /\ mtimecmp.l = W - 1
    /\ pc["main"] = "low" =>
         /\ ~mixed => mtimecmp.h = new_time["main"].h
         /\ pc["irq"] \in {"idle", "done"} => new_time["main"].h <= mtimecmp.h
         /\ pc["irq"] \notin {"idle", "done"} => new_time["main"].h <= since["irq"].h

\* The compare value between the stores of the handler.
IrqInv ==
    /\ Pending("irq") => since["irq"].h <= new_time["irq"].h
    /\ pc["irq"] = "low" => mtimecmp.h = new_time["irq"].h

UpdateInv == AskedInv /\ RestInv /\ MainInv /\ IrqInv

LEMMA UpdateInit == Init => UpdateInv
BY DEF Init, UpdateInv, AskedInv, RestInv, MainInv, IrqInv, Pending, Updating, Ctx

\* A step that stores nothing and neither begins nor ends an update or the handler.
LEMMA QuietUpdate ==
    ASSUME UpdateInv, UNCHANGED <<mtimecmp, armed, mixed, new_time>>,
           ret'["irq"] = ret["irq"], since'["irq"] = since["irq"],
           pc'["irq"] = pc["irq"] \/ {pc["irq"], pc'["irq"]} \subseteq Reading \cup {"inc"},
           pc'["main"] = pc["main"] \/
             {pc["main"], pc'["main"]} \cap {"guard", "high", "low"} = {},
           pc'["main"] = "mie" => pc["main"] = "mie",
           mie' => mie \/ pc["main"] = "mie",
           mie /\ ~mie' => pc["irq"] = "idle",
           pc["main"] = "mie" => mie' \/ pc'["main"] = "mie"
    PROVE  UpdateInv'
<1>1. \A c \in Ctx : Pending(c)' <=> Pending(c)
  BY DEF Pending, Ctx, Reading
<1>2. (NobodyUpdates' <=> NobodyUpdates) /\ (Updating("main")' <=> Updating("main"))
      /\ (Late' <=> Late)
  BY <1>1 DEF NobodyUpdates, Updating, Late, Pending, Ctx
<1>3. /\ (pc'["irq"] = "idle" <=> pc["irq"] = "idle")
      /\ (pc'["irq"] = "low" <=> pc["irq"] = "low")
      /\ (pc'["irq"] \in {"idle", "done"} <=> pc["irq"] \in {"idle", "done"})
      /\ \A at \in {"guard", "high", "low"} : pc'["main"] = at <=> pc["main"] = at
  BY DEF Reading
<1>4. AskedInv'
  BY <1>1, <1>3 DEF UpdateInv, AskedInv
<1>5. RestInv'
  BY <1>1, <1>2, <1>3 DEF UpdateInv, RestInv, Ctx
<1>6. MainInv'
  BY <1>2, <1>3 DEF UpdateInv, MainInv
<1>7. IrqInv'
  BY <1>1, <1>3 DEF UpdateInv, IrqInv, Ctx
<1>. QED BY <1>4, <1>5, <1>6, <1>7 DEF UpdateInv

\* While main stores nothing, the interrupt comes at rest; between its stores it
\* comes when the time has reached the compare value, high word included.
LEMMA InterruptUpdate ==
    ASSUME TypeOK, UpdateInv, Interrupt
    PROVE  UpdateInv'
<1>1. /\ pc["irq"] = "idle" /\ pc'["irq"] = "readh" /\ pc'["main"] = pc["main"] /\ mie /\ mie'
      /\ UNCHANGED <<mtimecmp, armed, new_time>> /\ ret'["irq"] = "inc" /\ since'["irq"] = mtime
      /\ mixed' = (mixed \/ Updating("main")) /\ mtimecmp.h <= mtime.h
      /\ mtime.h \in Nat /\ mtimecmp.h \in Nat /\ new_time["main"].h \in Nat
  BY DEF Interrupt, Goto, EnterRead, NotAfter, TypeOK, Time, Ctx
<1>2. \A c \in Ctx : Pending(c)' <=> Pending(c)
  BY <1>1 DEF Pending, Ctx
<1>3. (NobodyUpdates' <=> NobodyUpdates) /\ (Updating("main")' <=> Updating("main"))
      /\ (Late' <=> Late)
  BY <1>1, <1>2 DEF NobodyUpdates, Updating, Late, Pending, Ctx
<1>4. AskedInv'
  BY <1>1, <1>2 DEF UpdateInv, AskedInv
<1>5. RestInv'
  BY <1>1, <1>2, <1>3 DEF UpdateInv, RestInv, Ctx
<1>6. MainInv'
  <2>1. Updating("main")' => mixed'
    BY <1>1, <1>3
  <2>2. pc["main"] = "low" => new_time["main"].h <= mtime.h
    BY <1>1 DEF UpdateInv, MainInv
  <2>. QED BY <1>1, <2>1, <2>2 DEF MainInv, Updating
<1>7. IrqInv'
  BY <1>1 DEF IrqInv, Pending
<1>. QED BY <1>4, <1>5, <1>6, <1>7 DEF UpdateInv

\* A new time is asked for: by main at rest, or by the handler.
LEMMA AskUpdate ==
    ASSUME TypeOK, TypeOK', UpdateInv, NEW c \in Ctx, ~Pending(c), Running(c),
           pc' = [pc EXCEPT ![c] = "guard"], new_time'[c] \in armed',
           \A d \in Ctx : d # c => new_time'[d] = new_time[d],
           armed' = armed \cup {new_time'[c]},
           UNCHANGED <<mtimecmp, mie, mixed, since>>, ret'["irq"] = ret["irq"],
           c = "irq" => pc["irq"] = "inc" /\ since["irq"].h <= new_time'["irq"].h
    PROVE  UpdateInv'
<1>1. DOMAIN pc = Ctx
  BY DEF TypeOK
<1>2. pc'[c] = "guard" /\ \A d \in Ctx : d # c => pc'[d] = pc[d]
  BY <1>1
<1>3. ~NobodyUpdates' /\ (Late => Late')
  BY <1>2 DEF NobodyUpdates, Late
<1>4. AskedInv'
  BY <1>2 DEF UpdateInv, AskedInv, Pending, Ctx
<1>5. CASE c = "main"
  <2>1. pc["irq"] = "idle" /\ pc'["irq"] = "idle"
    BY <1>2, <1>5 DEF Running, Ctx
  <2>2. mie' => Late'
    <3>1. NobodyUpdates
      BY <1>5, <2>1 DEF NobodyUpdates, Pending, Ctx
    <3>. QED BY <1>3, <3>1 DEF UpdateInv, AskedInv, RestInv
  <2>3. RestInv'
    BY <1>3, <2>2 DEF RestInv
  <2>4. MainInv' /\ IrqInv'
    BY <1>2, <1>5, <2>1 DEF MainInv, IrqInv, Updating, Pending
  <2>. QED BY <1>4, <2>3, <2>4 DEF UpdateInv
<1>6. CASE c = "irq"
  <2>1. pc'["irq"] = "guard" /\ pc'["main"] = pc["main"] /\ new_time'["main"] = new_time["main"]
    BY <1>2, <1>6 DEF Ctx
  <2>2. RestInv'
    BY <1>3, <2>1 DEF RestInv, Pending
  <2>3. MainInv' /\ IrqInv'
    BY <1>6, <2>1 DEF UpdateInv, MainInv, IrqInv, Updating, Pending
  <2>. QED BY <1>4, <2>2, <2>3 DEF UpdateInv
<1>. QED BY <1>5, <1>6 DEF Ctx

\* low := -1
LEMMA GuardUpdate ==
    ASSUME TypeOK, UpdateInv, NEW c \in Ctx, WriteGuard(c)
    PROVE  UpdateInv'
<1>1. /\ pc[c] = "guard" /\ Running(c) /\ pc'[c] = "high"
      /\ \A d \in Ctx : d # c => pc'[d] = pc[d]
      /\ mtimecmp' = [mtimecmp EXCEPT !.l = W - 1]
      /\ UNCHANGED <<armed, new_time, ret, since, mie>>
      /\ mixed' = (mixed /\ \E d \in Ctx \ {c} : Updating(d))
      /\ armed \subseteq Time /\ mtimecmp \in Time
  BY DEF WriteGuard, GuardWord, Goto, TypeOK
<1>2. mtimecmp'.h = mtimecmp.h /\ mtimecmp'.l = W - 1
  BY <1>1 DEF Time
<1>3. ~NobodyUpdates'
  BY <1>1 DEF NobodyUpdates
<1>4. Late => Late'
  <2>. SUFFICES ASSUME NEW t \in armed, NotAfter(t, mtimecmp) PROVE NotAfter(t, mtimecmp')
    BY <1>1 DEF Late
  <2>. QED BY <1>1, <1>2, TimerAssumption DEF NotAfter, Time, Word
<1>5. AskedInv'
  BY <1>1 DEF UpdateInv, AskedInv, Pending, Ctx
<1>6. CASE c = "main"
  <2>1. pc["main"] = "guard" /\ pc'["main"] = "high" /\ pc["irq"] = "idle" /\ pc'["irq"] = "idle"
    BY <1>1, <1>6 DEF Running, Ctx
  <2>2. RestInv'
    BY <1>1, <1>3, <1>4, <2>1 DEF UpdateInv, RestInv, Pending
  <2>3. MainInv' /\ IrqInv'
    BY <1>2, <2>1 DEF MainInv, IrqInv, Pending
  <2>. QED BY <1>5, <2>2, <2>3 DEF UpdateInv
<1>7. CASE c = "irq"
  <2>1. pc["irq"] = "guard" /\ pc'["irq"] = "high" /\ pc["main"] = pc'["main"]
    BY <1>1, <1>7 DEF Ctx
  <2>2. RestInv'
    BY <1>3, <2>1 DEF RestInv, Pending
  <2>3. MainInv'
    <3>1. Updating("main") => mixed /\ mixed'
      BY <1>1, <1>7, <2>1 DEF UpdateInv, MainInv, Ctx
    <3>. QED BY <1>1, <2>1, <3>1 DEF UpdateInv, MainInv, Updating
  <2>4. IrqInv'
    BY <1>1, <2>1 DEF UpdateInv, IrqInv, Pending
  <2>. QED BY <1>5, <2>2, <2>3, <2>4 DEF UpdateInv
<1>. QED BY <1>6, <1>7 DEF Ctx

\* The high word.
LEMMA HighUpdate ==
    ASSUME TypeOK, UpdateInv, NEW c \in Ctx, WriteHigh(c)
    PROVE  UpdateInv'
<1>1. /\ pc[c] = "high" /\ Running(c) /\ pc'[c] = "low"
      /\ \A d \in Ctx : d # c => pc'[d] = pc[d]
      /\ mtimecmp' = [mtimecmp EXCEPT !.h = new_time[c].h]
      /\ UNCHANGED <<armed, new_time, ret, since, mie, mixed>>
      /\ mtimecmp \in Time /\ new_time[c] \in Time
  BY DEF WriteHigh, Goto, history, TypeOK
<1>2. mtimecmp'.h = new_time[c].h /\ mtimecmp'.l = mtimecmp.l /\ new_time[c].h \in Nat
  BY <1>1 DEF Time
<1>3. ~NobodyUpdates'
  BY <1>1 DEF NobodyUpdates
<1>4. AskedInv'
  BY <1>1 DEF UpdateInv, AskedInv, Pending, Ctx
<1>5. CASE c = "main"
  <2>1. pc["main"] = "high" /\ pc'["main"] = "low" /\ pc["irq"] = "idle" /\ pc'["irq"] = "idle"
    BY <1>1, <1>5 DEF Running, Ctx
  <2>2. RestInv' /\ IrqInv'
    BY <1>3, <2>1 DEF RestInv, IrqInv, Pending
  <2>3. MainInv'
    BY <1>1, <1>2, <1>5, <2>1 DEF UpdateInv, MainInv, Updating
  <2>. QED BY <1>4, <2>2, <2>3 DEF UpdateInv
<1>6. CASE c = "irq"
  <2>1. pc["irq"] = "high" /\ pc'["irq"] = "low" /\ pc["main"] = pc'["main"]
    BY <1>1, <1>6 DEF Ctx
  <2>2. RestInv'
    BY <1>3, <2>1 DEF RestInv, Pending
  <2>3. MainInv' /\ IrqInv'
    BY <1>1, <1>2, <1>6, <2>1 DEF UpdateInv, MainInv, IrqInv, Updating, Pending
  <2>. QED BY <1>4, <2>2, <2>3 DEF UpdateInv
<1>. QED BY <1>5, <1>6 DEF Ctx

\* The low word: from here on the compare value is the new time, unless the handler
\* has come between the stores; then it is a later one.
LEMMA LowUpdate ==
    ASSUME TypeOK, TypeOK', UpdateInv, NEW c \in Ctx, WriteLow(c)
    PROVE  UpdateInv'
<1>1. /\ pc[c] = "low" /\ Running(c) /\ pc'[c] \in {"mie", "done"}
      /\ c = "irq" => pc'[c] = "done"
      /\ \A d \in Ctx : d # c => pc'[d] = pc[d]
      /\ mtimecmp' = [mtimecmp EXCEPT !.l = new_time[c].l]
      /\ armed' = {new_time[c]} \cup {new_time[d] : d \in {e \in Ctx \ {c} : Pending(e)}}
      /\ UNCHANGED <<new_time, ret, since, mie, mixed>>
      /\ mtimecmp \in Time /\ new_time \in [Ctx -> Time] /\ new_time[c] \in Time
  BY DEF WriteLow, LowWord, Goto, TypeOK, Pending
<1>2. /\ mtimecmp'.h = mtimecmp.h /\ mtimecmp'.l = new_time[c].l /\ mtimecmp.h \in Nat
      /\ new_time[c].h \in Nat /\ new_time[c].l \in Word /\ new_time[c] \in armed'
      /\ mtimecmp' \in Time
  BY <1>1 DEF Time, TypeOK
<1>3. new_time[c].h <= mtimecmp.h => Late'
  <2>1. new_time[c].h <= mtimecmp.h => NotAfter(new_time[c], mtimecmp')
    BY <1>2 DEF NotAfter, Word
  <2>. QED BY <1>2, <2>1 DEF Late
<1>4. new_time[c].h = mtimecmp.h => mtimecmp' = new_time[c]
  BY <1>1, <1>2 DEF Time
<1>5. AskedInv'
  <2>1. \A d \in Ctx : Pending(d)' => d # c /\ Pending(d)
    BY <1>1 DEF Pending, Ctx
  <2>2. \A d \in Ctx : Pending(d)' => new_time'[d] \in armed'
    BY <1>1, <2>1
  <2>3. armed' # {}
    BY <1>2
  <2>4. pc'["irq"] # "idle" => mie' /\ ret'["irq"] = "inc"
    BY <1>1 DEF UpdateInv, AskedInv, Ctx
  <2>. QED BY <2>2, <2>3, <2>4 DEF AskedInv
<1>6. CASE c = "main"
  <2>1. pc["main"] = "low" /\ pc'["main"] \notin {"guard", "high", "low"}
        /\ pc["irq"] = "idle" /\ pc'["irq"] = "idle"
    BY <1>1, <1>6 DEF Running, Ctx
  <2>2. new_time[c].h <= mtimecmp.h /\ (~mixed => mtimecmp.h = new_time[c].h)
    BY <1>6, <2>1 DEF UpdateInv, MainInv
  <2>3. RestInv'
    BY <1>1, <1>2, <1>3, <1>4, <2>1, <2>2 DEF RestInv
  <2>4. MainInv' /\ IrqInv'
    BY <2>1 DEF MainInv, IrqInv, Updating, Pending
  <2>. QED BY <1>5, <2>3, <2>4 DEF UpdateInv
<1>7. CASE c = "irq"
  <2>1. pc["irq"] = "low" /\ pc'["irq"] = "done" /\ pc["main"] = pc'["main"]
    BY <1>1, <1>7 DEF Ctx
  <2>2. mtimecmp.h = new_time["irq"].h /\ since["irq"].h <= new_time["irq"].h
    BY <2>1 DEF UpdateInv, IrqInv, Pending
  <2>3. Late' /\ mtimecmp' \in armed'
    BY <1>2, <1>3, <1>4, <1>7, <2>2
  <2>4. RestInv' /\ IrqInv'
    BY <2>1, <2>3 DEF RestInv, IrqInv, Pending
  <2>5. MainInv'
    <3>1. since["irq"].h \in Nat /\ new_time["main"].h \in Nat
      BY DEF TypeOK, Time, Ctx
    <3>2. pc["main"] = "low" => new_time["main"].h <= since["irq"].h /\ mixed
      BY <2>1 DEF UpdateInv, MainInv, Updating
    <3>3. Updating("main") => mixed
      BY <2>1 DEF UpdateInv, MainInv
    <3>4. pc["main"] = "low" => new_time["main"].h <= mtimecmp.h
      BY <1>2, <1>7, <2>2, <3>1, <3>2
    <3>. QED BY <1>1, <1>2, <2>1, <3>2, <3>3, <3>4 DEF MainInv, Updating
  <2>. QED BY <1>5, <2>4, <2>5 DEF UpdateInv
<1>. QED BY <1>6, <1>7 DEF Ctx

\* The handler returns.
LEMMA ReturnUpdate ==
    ASSUME TypeOK, UpdateInv, HandlerReturn
    PROVE  UpdateInv'
<1>1. /\ pc["irq"] = "done" /\ pc'["irq"] = "idle" /\ pc'["main"] = pc["main"] /\ mie' = mie
      /\ UNCHANGED <<mtimecmp, armed, new_time, ret, since, mixed>>
  BY DEF HandlerReturn, Goto, history, TypeOK, Ctx
<1>2. (\A c \in Ctx : Pending(c)' <=> Pending(c)) /\ (NobodyUpdates' <=> NobodyUpdates)
      /\ (Late' <=> Late)
  BY <1>1 DEF NobodyUpdates, Late, Pending, Ctx
<1>. QED BY <1>1, <1>2
     DEF UpdateInv, AskedInv, RestInv, MainInv, IrqInv, Updating, Ctx

LEMMA UpdateNext == TimerInv /\ UpdateInv /\ [Next]_vars => UpdateInv'
<1>. SUFFICES ASSUME TimerInv, UpdateInv, [Next]_vars PROVE UpdateInv'
  OBVIOUS
<1>0. TypeOK /\ TypeOK'
  BY TypeNext DEF TimerInv
<1>a. DOMAIN pc = Ctx /\ DOMAIN ret = Ctx /\ DOMAIN since = Ctx /\ DOMAIN new_time = Ctx
  BY <1>0 DEF TypeOK
<1>1. CASE Tick \/ UNCHANGED vars
  BY <1>1, QuietUpdate DEF Tick, vars, device, locals, globals, history
<1>2. ASSUME NEW c \in Ctx, ReadHigh(c) \/ ReadLow(c) PROVE UpdateInv'
  BY <1>2, <1>a, QuietUpdate DEF ReadHigh, ReadLow, Goto, device, history, Reading, Ctx
<1>3. ASSUME NEW c \in Ctx, CheckHigh(c) PROVE UpdateInv'
  <2>1. /\ pc[c] = "check" /\ pc'[c] \in {"readh", ret[c]}
        /\ \A d \in Ctx : d # c => pc'[d] = pc[d]
        /\ UNCHANGED <<mtimecmp, armed, mixed, new_time, ret, since, mie>>
    BY <1>3, <1>a DEF CheckHigh, Goto, device
  <2>2. ret[c] \in {"inc", "done"} /\ (c = "irq" => ret[c] = "inc")
    BY <1>0, <2>1 DEF TypeOK, UpdateInv, AskedInv
  <2>. QED BY <2>1, <2>2, QuietUpdate DEF Reading, Ctx
<1>4. ASSUME NEW c \in Ctx, Increment(c) PROVE UpdateInv'
  <2>1. /\ pc[c] = "inc" /\ Running(c) /\ pc' = [pc EXCEPT ![c] = "guard"]
        /\ new_time' = [new_time EXCEPT ![c] = Plus(current[c], base[c])]
        /\ armed' = armed \cup {new_time'[c]}
        /\ UNCHANGED <<mtimecmp, mie, mixed, since, ret>>
    BY <1>4 DEF Increment, Goto, device
  <2>2. since[c].h <= current[c].h
    <3>1. since[c].h \in Nat /\ current[c].h \in Nat
      BY <1>0 DEF TypeOK, Time
    <3>2. NotAfter(since[c], current[c])
      BY <2>1 DEF TimerInv, ReadInv, Reading
    <3>. QED BY <3>1, <3>2 DEF NotAfter
  <2>3. current[c].h <= Plus(current[c], base[c]).h
    BY <1>0 DEF TypeOK, Plus, Time
  <2>4. /\ since[c].h \in Nat /\ current[c].h \in Nat
        /\ Plus(current[c], base[c]).h \in Nat
    BY <1>0, PlusTime DEF TypeOK, Time
  <2>5. new_time'[c] = Plus(current[c], base[c])
        /\ \A d \in Ctx : d # c => new_time'[d] = new_time[d]
    BY <1>a, <2>1
  <2>6. since[c].h <= new_time'[c].h
    BY <2>2, <2>3, <2>4, <2>5
  <2>7. ~Pending(c) /\ new_time'[c] \in armed'
    BY <2>1 DEF Pending
  <2>. QED BY <1>0, <2>1, <2>5, <2>6, <2>7, AskUpdate
<1>5. CASE CallUpdate
  <2>1. PICK t \in Bases :
          /\ Call("guard") /\ new_time' = [new_time EXCEPT !["main"] = t]
          /\ armed' = armed \cup {t} /\ ret' = [ret EXCEPT !["main"] = "done"]
          /\ UNCHANGED <<device, mixed, since>>
    BY <1>5 DEF CallUpdate
  <2>2. /\ pc["main"] \in {"idle", "done"} /\ Running("main")
        /\ pc' = [pc EXCEPT !["main"] = "guard"]
    BY <2>1 DEF Call, Goto
  <2>3. /\ new_time'["main"] = t /\ ret'["irq"] = ret["irq"]
        /\ \A d \in Ctx : d # "main" => new_time'[d] = new_time[d]
        /\ UNCHANGED <<mtimecmp, mie, mixed, since>>
    BY <1>a, <2>1 DEF device, Ctx
  <2>4. ~Pending("main") /\ new_time'["main"] \in armed' /\ armed' = armed \cup {new_time'["main"]}
        /\ "main" \in Ctx /\ "main" # "irq"
    BY <2>1, <2>2, <2>3 DEF Pending, Ctx
  <2>. QED BY <1>0, <2>2, <2>3, <2>4, AskUpdate
<1>6. CASE CallRead \/ CallEnable \/ CallElapsed
  BY <1>6, <1>a, QuietUpdate
  DEF CallRead, CallEnable, CallElapsed, Call, Goto, EnterRead, device, Ctx
<1>7. CASE CallDisable
  BY <1>7, <1>a, QuietUpdate DEF CallDisable, Call, Running, Goto, Ctx
<1>8. CASE ElapsedHigh \/ EnableStores
  BY <1>8, <1>a, QuietUpdate
  DEF ElapsedHigh, EnableStores, MainStep, Goto, device, history, Ctx
<1>9. CASE EnableArms
  BY <1>9, <1>a, QuietUpdate DEF EnableArms, MainStep, EnterRead, Goto, device, Ctx
<1>10. CASE EnableInterrupts
  BY <1>10, <1>a, QuietUpdate DEF EnableInterrupts, MainStep, Goto, history, Ctx
<1>. QED
  BY <1>0, <1>1, <1>2, <1>3, <1>4, <1>5, <1>6, <1>7, <1>8, <1>9, <1>10,
     InterruptUpdate, GuardUpdate, HighUpdate, LowUpdate, ReturnUpdate
  DEF Next, Step, Main

\* When no update is under way, and the last one was not interrupted between its
\* stores, the compare registers hold a time that was asked for as a whole.
THEOREM CompareCorrect == Spec => []CompareIsArmed
<1>1. Init => TimerInv /\ UpdateInv
  BY ReadInit, UpdateInit
<1>2. TimerInv /\ UpdateInv /\ [Next]_vars => (TimerInv /\ UpdateInv)'
  BY ReadNext, UpdateNext
<1>3. UpdateInv => CompareIsArmed
  BY DEF UpdateInv, RestInv, CompareIsArmed
<1>. QED BY <1>1, <1>2, <1>3, PTL DEF Spec

\* The interrupt is not taken before a time that was asked for.
LEMMA InterruptLate ==
    ASSUME TypeOK, UpdateInv, Interrupt, ~mixed
    PROVE  \E t \in armed : NotAfter(t, mtime)
<1>1. /\ pc["irq"] = "idle" /\ mie /\ NotAfter(mtimecmp, mtime) /\ armed # {}
      /\ armed \subseteq Time /\ mtime \in Time /\ mtimecmp \in Time
  BY DEF Interrupt, UpdateInv, AskedInv, TypeOK
<1>2. Late
  <2>1. CASE pc["main"] = "low"
    <3>1. mtimecmp.h = new_time["main"].h /\ mtimecmp.l = W - 1
      BY <2>1 DEF UpdateInv, MainInv, Updating
    <3>2. new_time["main"] \in armed
      BY <2>1 DEF UpdateInv, AskedInv, Pending, Ctx
    <3>3. NotAfter(new_time["main"], mtimecmp)
      BY <1>1, <3>1, <3>2, TimerAssumption DEF NotAfter, Time, Word
    <3>. QED BY <3>2, <3>3 DEF Late
  <2>2. CASE pc["main"] \in {"guard", "high"}
    BY <1>1, <2>2 DEF UpdateInv, RestInv, Pending
  <2>3. CASE ~Pending("main")
    BY <1>1, <2>3 DEF UpdateInv, RestInv, NobodyUpdates, Pending, Ctx
  <2>. QED BY <2>1, <2>2, <2>3 DEF Pending
<1>. QED BY <1>1, <1>2, NotAfterTrans DEF Late

\* No interrupt is taken before a time that the program or the handler has asked
\* for, whatever the order in which the handler and the program's stores interleave.
THEOREM InterruptsInTime == Spec => NoEarlyInterrupt
<1>1. Init => TimerInv /\ UpdateInv
  BY ReadInit, UpdateInit
<1>2. TimerInv /\ UpdateInv /\ [Next]_vars => (TimerInv /\ UpdateInv)'
  BY ReadNext, UpdateNext
<1>3. TimerInv /\ UpdateInv /\ [Next]_vars =>
        [pc["irq"] = "idle" /\ pc'["irq"] = "readh" /\ ~mixed =>
           \E t \in armed : NotAfter(t, mtime)]_vars
  <2>. SUFFICES ASSUME TimerInv, UpdateInv, [Next]_vars,
                       pc["irq"] = "idle", pc'["irq"] = "readh", ~mixed
                PROVE  \E t \in armed : NotAfter(t, mtime)
    OBVIOUS
  <2>1. TypeOK /\ DOMAIN pc = Ctx
    BY DEF TimerInv, TypeOK
  <2>2. Interrupt
    <3>1. ~\E c \in Ctx : Step(c)
      BY <2>1 DEF Step, ReadHigh, ReadLow, CheckHigh, Increment, WriteGuard, WriteHigh, WriteLow,
                  Goto, Ctx
    <3>2. ~HandlerReturn /\ ~Tick /\ ~UNCHANGED vars
      BY DEF HandlerReturn, Tick, vars, locals
    <3>3. ~Main
      BY <2>1 DEF Main, CallRead, CallUpdate, CallEnable, CallDisable, CallElapsed, ElapsedHigh,
                  EnableStores, EnableArms, EnableInterrupts, Call, MainStep, Goto, Ctx
    <3>. QED BY <3>1, <3>2, <3>3 DEF Next
  <2>. QED BY <2>1, <2>2, InterruptLate
<1>. QED BY <1>1, <1>2, <1>3, PTL DEF Spec, NoEarlyInterrupt
=============================================================================
