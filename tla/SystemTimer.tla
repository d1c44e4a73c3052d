----------------------------- MODULE SystemTimer -----------------------------
(***************************************************************************)
(* The timer library of firmware/simple_system_common.c: a 64-bit time and *)
(* a 64-bit compare value, both reached through 32-bit device registers,   *)
(* read and written by the program ("main") and by the timer interrupt     *)
(* handler ("irq").                                                        *)
(*                                                                         *)
(* A 64-bit quantity is a record [h, l] of words below W (2^32 in the      *)
(* code), so that every device access, and every half of a 64-bit variable *)
(* on a 32-bit processor, is a step of its own between which the time goes *)
(* on and the interrupt may come.  The handler runs with interrupts        *)
(* disabled: while it runs, main does not.                                 *)
(*                                                                         *)
(* The timer device is not part of the repository.  It is taken to be what *)
(* the code expects: MTIME counts up and carries into MTIMEH, and the      *)
(* interrupt is requested while the time is at or past the compare value.  *)
(*                                                                         *)
(* since, retries, armed, before and mixed are history variables.          *)
(***************************************************************************)
EXTENDS Integers

CONSTANTS
    W,         \* words are 0..W-1
    LastHigh,  \* bound: the time ends at [h |-> LastHigh, l |-> W - 1]
    Bases,     \* the values of time_base main uses
    MaxCalls   \* bound: number of library calls main makes

VARIABLES
    mtime, mtimecmp,          \* the device's registers
    mie, mstatus,             \* timer interrupt enabled, interrupts enabled
    pc,                       \* where main and the handler are
    ret,                      \* what the timer_read under way is for
    current,                  \* current_timeh and current_time
    base, new_time,           \* parameters of increment_timecmp, timecmp_update
    time_elapsed, time_increment,
    got,                      \* the halves get_elapsed_time has read
    calls, since, retries, armed, before, mixed

device  == <<mtime, mtimecmp, mie, mstatus>>
locals  == <<pc, ret, current, base, new_time, got>>
globals == <<time_elapsed, time_increment>>
history == <<calls, since, retries, armed, before, mixed>>
vars    == <<device, locals, globals, history>>

Word == 0..(W - 1)
Time == [h : Nat, l : Word]
Ctx  == {"main", "irq"}
Zero == [h |-> 0, l |-> 0]

NotAfter(a, b) == a.h < b.h \/ (a.h = b.h /\ a.l <= b.l)
Succ(t) == IF t.l = W - 1 THEN [h |-> t.h + 1, l |-> 0] ELSE [t EXCEPT !.l = @ + 1]

Plus(a, b) ==
    IF a.l + b.l < W
    THEN [h |-> a.h + b.h, l |-> a.l + b.l]
    ELSE [h |-> a.h + b.h + 1, l |-> a.l + b.l - W]

ASSUME TimerAssumption ==
    /\ W \in Nat /\ W > 1
    /\ LastHigh \in Nat /\ MaxCalls \in Nat
    /\ Bases \subseteq Time

TypeOK ==
    /\ mtime \in Time /\ mtimecmp \in Time
    /\ mie \in BOOLEAN /\ mstatus \in BOOLEAN
    /\ pc \in [Ctx -> {"idle", "readh", "readl", "check", "inc", "guard", "high", "low",
                       "clearl", "clearh", "incl", "inch", "mie", "mstatus", "geth", "done"}]
    /\ ret \in [Ctx -> {"inc", "done"}]
    /\ current \in [Ctx -> Time] /\ base \in [Ctx -> Time] /\ new_time \in [Ctx -> Time]
    /\ time_elapsed \in Time /\ time_increment \in Time /\ got \in Time
    /\ since \in [Ctx -> Time] /\ retries \in [Ctx -> Nat]
    /\ armed \subseteq Time /\ before \in Time /\ calls \in Nat /\ mixed \in BOOLEAN

-----------------------------------------------------------------------------
(* The device and the processor's interrupt entry.                         *)

Tick ==
    /\ mtime.h < LastHigh \/ mtime.l < W - 1
    /\ mtime' = Succ(mtime)
    /\ UNCHANGED <<mtimecmp, mie, mstatus, locals, globals, history>>

Running(c) == c = "main" => pc["irq"] = "idle"
\* Between the first and the last store of timecmp_update.
Updating(c) == pc[c] \in {"high", "low"}

Goto(c, label) == pc' = [pc EXCEPT ![c] = label]

\* timer_read is entered: from main, from increment_timecmp, or by the handler.
EnterRead(c, purpose, b) ==
    /\ ret' = [ret EXCEPT ![c] = purpose]
    /\ base' = [base EXCEPT ![c] = b]
    /\ since' = [since EXCEPT ![c] = mtime]
    /\ retries' = [retries EXCEPT ![c] = 0]

Interrupt ==
    /\ pc["irq"] = "idle" /\ mstatus /\ mie /\ NotAfter(mtimecmp, mtime)
    /\ mstatus' = FALSE
    /\ mixed' = (mixed \/ Updating("main"))
    /\ Goto("irq", "readh")
    /\ EnterRead("irq", "inc", time_increment)
    /\ UNCHANGED <<mtime, mtimecmp, mie, current, new_time, got, globals, calls, armed, before>>

-----------------------------------------------------------------------------
(* timer_read: high word, low word, and the high word again.               *)

ReadHigh(c) ==
    /\ Running(c) /\ pc[c] = "readh"
    /\ current' = [current EXCEPT ![c].h = mtime.h]
    /\ Goto(c, "readl")
    /\ UNCHANGED <<device, ret, base, new_time, got, globals, history>>

ReadLow(c) ==
    /\ Running(c) /\ pc[c] = "readl"
    /\ current' = [current EXCEPT ![c].l = mtime.l]
    /\ Goto(c, "check")
    /\ UNCHANGED <<device, ret, base, new_time, got, globals, history>>

\* Faulty variants of the definitions below, which the properties must notice.
NoCheck(c)    == TRUE
SameLow(c)    == current[c].l = mtime.l
NoGuard(new)  == new.l
NoLow(new)    == W - 1

SameHigh(c) == current[c].h = mtime.h
GuardWord(new) == W - 1
LowWord(new) == new.l

\* "done" is where timer_read has returned to main and nothing else has run:
\* the value is in current and the time of the return is the time of the state.
CheckHigh(c) ==
    /\ Running(c) /\ pc[c] = "check"
    /\ IF SameHigh(c)
       THEN Goto(c, ret[c]) /\ UNCHANGED retries
       ELSE Goto(c, "readh") /\ retries' = [retries EXCEPT ![c] = @ + 1]
    /\ UNCHANGED <<device, ret, current, base, new_time, got, globals, calls, since, armed, before, mixed>>

-----------------------------------------------------------------------------
(* increment_timecmp, then timecmp_update: low := -1, high, low.           *)

Increment(c) ==
    /\ Running(c) /\ pc[c] = "inc"
    /\ new_time' = [new_time EXCEPT ![c] = Plus(current[c], base[c])]
    /\ Goto(c, "guard")
    /\ armed' = armed \cup {new_time'[c]}
    /\ UNCHANGED <<device, ret, current, base, got, globals, calls, since, retries, before, mixed>>

WriteGuard(c) ==
    /\ Running(c) /\ pc[c] = "guard"
    /\ mtimecmp' = [mtimecmp EXCEPT !.l = GuardWord(new_time[c])]
    /\ mixed' = (mixed /\ \E d \in Ctx \ {c} : Updating(d))
    /\ Goto(c, "high")
    /\ UNCHANGED <<mtime, mie, mstatus, ret, current, base, new_time, got, globals,
                   calls, since, retries, armed, before>>

WriteHigh(c) ==
    /\ Running(c) /\ pc[c] = "high"
    /\ mtimecmp' = [mtimecmp EXCEPT !.h = new_time[c].h]
    /\ Goto(c, "low")
    /\ UNCHANGED <<mtime, mie, mstatus, ret, current, base, new_time, got, globals, history>>

\* The last store: from here on the new time is the only one armed.
WriteLow(c) ==
    /\ Running(c) /\ pc[c] = "low"
    /\ mtimecmp' = [mtimecmp EXCEPT !.l = LowWord(new_time[c])]
    /\ armed' = {new_time[c]} \cup
                  {new_time[d] : d \in {e \in Ctx \ {c} : pc[e] \in {"guard", "high", "low"}}}
    /\ Goto(c, IF c = "main" /\ ret[c] = "inc" THEN "mie" ELSE "done")
    /\ UNCHANGED <<mtime, mie, mstatus, ret, current, base, new_time, got, globals,
                   calls, since, retries, before, mixed>>

\* time_elapsed++ and the return from the handler.
HandlerReturn ==
    /\ pc["irq"] = "done"
    /\ time_elapsed' = Succ(time_elapsed)
    /\ mstatus' = TRUE
    /\ Goto("irq", "idle")
    /\ UNCHANGED <<mtime, mtimecmp, mie, ret, current, base, new_time, got, time_increment, history>>

-----------------------------------------------------------------------------
(* The calls main makes, in any order.                                     *)

Call(label) ==
    /\ Running("main") /\ pc["main"] \in {"idle", "done"}
    /\ calls < MaxCalls
    /\ calls' = calls + 1
    /\ Goto("main", label)

CallRead ==
    /\ Call("readh")
    /\ EnterRead("main", "done", Zero)
    /\ UNCHANGED <<device, current, new_time, got, globals, armed, before, mixed>>

CallEnable ==
    \E b \in Bases :
        /\ Call("clearl")
        /\ base' = [base EXCEPT !["main"] = b]
        /\ UNCHANGED <<device, ret, current, new_time, got, globals, since, retries, armed, before, mixed>>

\* timecmp_update called with one of the values of Bases as the new time.
CallUpdate ==
    \E t \in Bases :
        /\ Call("guard")
        /\ ret' = [ret EXCEPT !["main"] = "done"]
        /\ new_time' = [new_time EXCEPT !["main"] = t]
        /\ armed' = armed \cup {t}
        /\ UNCHANGED <<device, current, base, got, globals, since, retries, before, mixed>>

CallDisable ==
    /\ Call("idle")
    /\ mie' = FALSE
    /\ UNCHANGED <<mtime, mtimecmp, mstatus, ret, current, base, new_time, got, globals,
                   since, retries, armed, before, mixed>>

\* get_elapsed_time: the low half is in the result register, the high half is not.
CallElapsed ==
    /\ Call("geth")
    /\ got' = [got EXCEPT !.l = time_elapsed.l]
    /\ before' = time_elapsed
    /\ UNCHANGED <<device, ret, current, base, new_time, globals, since, retries, armed, mixed>>

ElapsedHigh ==
    /\ Running("main") /\ pc["main"] = "geth"
    /\ got' = [got EXCEPT !.h = time_elapsed.h]
    /\ Goto("main", "idle")
    /\ UNCHANGED <<device, ret, current, base, new_time, globals, history>>

\* timer_enable stores 0 to time_elapsed and time_base to time_increment ...
MainStep(at, next) ==
    /\ Running("main") /\ pc["main"] = at
    /\ Goto("main", next)

EnableStores ==
    /\ \/ MainStep("clearl", "clearh") /\ time_elapsed' = [time_elapsed EXCEPT !.l = 0]
                                       /\ UNCHANGED time_increment
       \/ MainStep("clearh", "incl") /\ time_elapsed' = [time_elapsed EXCEPT !.h = 0]
                                     /\ UNCHANGED time_increment
       \/ MainStep("incl", "inch") /\ time_increment' = [time_increment EXCEPT !.l = base["main"].l]
                                   /\ UNCHANGED time_elapsed
    /\ UNCHANGED <<device, ret, current, base, new_time, got, history>>

\* ... arms the timer ...
EnableArms ==
    /\ MainStep("inch", "readh")
    /\ time_increment' = [time_increment EXCEPT !.h = base["main"].h]
    /\ EnterRead("main", "inc", base["main"])
    /\ UNCHANGED <<device, current, new_time, got, time_elapsed, calls, armed, before, mixed>>

\* ... and enables first the timer interrupt, then all interrupts.
EnableInterrupts ==
    /\ \/ MainStep("mie", "mstatus") /\ mie' = TRUE /\ UNCHANGED mstatus
       \/ MainStep("mstatus", "idle") /\ mstatus' = TRUE /\ UNCHANGED mie
    /\ UNCHANGED <<mtime, mtimecmp, ret, current, base, new_time, got, globals, history>>

-----------------------------------------------------------------------------
Init ==
    /\ mtime = Zero
    /\ mtimecmp = Zero             \* the device's reset value
    /\ mie = FALSE /\ mstatus = FALSE
    /\ pc = [c \in Ctx |-> "idle"] /\ ret = [c \in Ctx |-> "done"]
    /\ current = [c \in Ctx |-> Zero] /\ base = [c \in Ctx |-> Zero]
    /\ new_time = [c \in Ctx |-> Zero] /\ got = Zero
    /\ time_elapsed = Zero /\ time_increment = Zero
    /\ calls = 0 /\ since = [c \in Ctx |-> Zero] /\ retries = [c \in Ctx |-> 0]
    /\ armed = {} /\ before = Zero /\ mixed = FALSE

Step(c) ==
    \/ ReadHigh(c) \/ ReadLow(c) \/ CheckHigh(c)
    \/ Increment(c) \/ WriteGuard(c) \/ WriteHigh(c) \/ WriteLow(c)

Main ==
    \/ CallRead \/ CallUpdate \/ CallEnable \/ CallDisable \/ CallElapsed \/ ElapsedHigh
    \/ EnableStores \/ EnableArms \/ EnableInterrupts

Next ==
    \/ Tick
    \/ Interrupt
    \/ \E c \in Ctx : Step(c)
    \/ HandlerReturn
    \/ Main

Spec == Init /\ [][Next]_vars
-----------------------------------------------------------------------------
(* Properties.                                                             *)

\* timer_read returns a time that was the time at some moment of the call,
\* however the time and the handler move between its three accesses.
ReadsAreTimes ==
    \A c \in Ctx :
        (pc[c] = "inc" \/ (c = "main" /\ pc[c] = "done")) =>
            NotAfter(since[c], current[c]) /\ NotAfter(current[c], mtime)

\* timer_read goes round again only when the high word has changed since the
\* call began: never more often than it was carried into.
RetriesAreCarries ==
    \A c \in Ctx :
        pc[c] \in {"readh", "readl", "check"} => retries[c] <= mtime.h - since[c].h

\* No interrupt is taken before a time that the program or the handler has
\* asked for: the stores of timecmp_update never pass through a compare value
\* that is earlier than both the old and the new one.  (After an update that
\* was interrupted in the middle nothing is promised until the next one.)
NoEarlyInterrupt ==
    [][pc["irq"] = "idle" /\ pc'["irq"] = "readh" /\ ~mixed =>
        \E t \in armed : NotAfter(t, mtime)]_vars

NobodyUpdates == \A c \in Ctx : pc[c] \notin {"guard", "high", "low"}

\* When no update is under way, and the last one was not interrupted between
\* its stores, the device holds a time that was asked for as a whole.
CompareIsArmed == armed # {} /\ NobodyUpdates /\ ~mixed => mtimecmp \in armed

\* get_elapsed_time returns a count that time_elapsed has held during the call:
\* `Returns current global time value' (simple_system_common.h).
ElapsedIsACount ==
    [][pc["main"] = "geth" /\ pc'["main"] = "idle" =>
        NotAfter(before, got') /\ NotAfter(got', time_elapsed)]_vars
=============================================================================
