------------------------------ MODULE UserBram ------------------------------
(***************************************************************************)
(* The block RAM behind 0x380x_xxxx (rtl/user/user_proj_example.counter.v  *)
(* with rtl/user/bram.v): the firmware copies its .mprjram section into it *)
(* and executes from it.  A request is acknowledged DELAYS + 1 edges after *)
(* it appears; the RAM itself is enabled on each of those edges.           *)
(***************************************************************************)
EXTENDS LutRam

CONSTANTS DELAYS,      \* wait states (10 in the source)
          BramAddr     \* the offsets of the RAM

VARIABLES ready, delayed_count, bram, rdata

bramVars == <<ready, delayed_count, bram, rdata>>

\* Faulty variant of the definition below, which a property must notice.
NoDecode(bus)  == bus.req

Valid(bus) == bus.req /\ bus.region = "MPRJRAM"
DelayOver  == delayed_count = DELAYS

Access(bus) ==
    /\ bram'  = RamStore(bram, Valid(bus), bus.we, bus.off, bus.dat)
    /\ rdata' = RamOut(bram, Valid(bus), bus.off)

CountDelay(bus) ==
    /\ Valid(bus) /\ ~ready /\ ~DelayOver
    /\ Access(bus)
    /\ ready' = FALSE
    /\ delayed_count' = (delayed_count + 1) % 65536

AckAccess(bus) ==
    /\ Valid(bus) /\ ~ready /\ DelayOver
    /\ Access(bus)
    /\ ready' = TRUE
    /\ delayed_count' = 0

NoAccess(bus) ==
    /\ ~Valid(bus) \/ ready
    /\ Access(bus)
    /\ ready' = FALSE
    /\ UNCHANGED delayed_count

BramClock(bus) == CountDelay(bus) \/ AckAccess(bus) \/ NoAccess(bus)

BramInit == /\ ready = FALSE /\ delayed_count = 0
            /\ bram = [a \in BramAddr |-> X] /\ rdata = 0

\* The array has no reset: the first edge under reset still stores a pending
\* write; the following ones, without a request, clear the output register.
BramReset(bus) ==
    /\ bram' = RamStore(bram, Valid(bus), bus.we, bus.off, bus.dat)
    /\ rdata' = 0
    /\ ready' = FALSE
    /\ delayed_count' = 0
=============================================================================
