----------------------------- MODULE BusFabric -----------------------------
(***************************************************************************)
(* The bus of the management core (mgmt_core.v): the processor's           *)
(* instruction and data buses and the debug port share one Wishbone, whose *)
(* slaves are the regions firmware/mem.h tells the programs of.  An access *)
(* that no slave answers is ended by a time-out.                           *)
(*                                                                         *)
(* A slave's acknowledgement is not compared with the slave the access     *)
(* selected (line 4895): whichever slave acknowledges ends the access that *)
(* is on the bus.  That is right as long as slaves answer only what is     *)
(* still asked.  The housekeeping back door does not look at the request   *)
(* once it has started, and an SPI master can stall it for any time.       *)
(*                                                                         *)
(* Every step is one clock; addresses are word addresses.                  *)
(***************************************************************************)
EXTENDS Naturals, FiniteSets

CONSTANTS Masters,     \* 0 is ibus, 1 dbus, 2 dbg_uart
          Asked,       \* the addresses they access
          None,        \* no access
          Beats,       \* accesses of one line fill of the instruction cache (8)
          Lanes,       \* byte accesses of the back door (4)
          TimeOut      \* clocks (1000000)

FabricAssumption ==
    /\ Asked \subseteq Nat /\ None \notin Asked
    /\ Masters \in Nat \ {0} /\ Beats \in Nat \ {0} /\ Lanes \in Nat \ {0}
    \* The slowest slave, not stalled, answers before the time-out.
    /\ TimeOut \in Nat /\ TimeOut > 2 * Lanes + 2

VARIABLES
    req, left,        \* the access of each master, and how many follow it
    grant, count,     \* the arbiter, the time-out counter
    ack,              \* the quick slaves' acknowledgement register
    wbbd_state, lane, \* the back door
    asker, orphan     \* ghosts: whose access the back door works on, and
                      \* whether the time-out has ended it meanwhile

vars == <<req, left, grant, count, ack, wbbd_state, lane, asker, orphan>>

Master == 0..(Masters - 1)

-----------------------------------------------------------------------------
(* The memory map.  Numbers are word addresses, the byte address over 4.   *)

Slaves == {"VEXRISCV_DEBUG", "DFF", "DFF2", "FLASH", "MPRJ", "HK", "CSR"}

\* The regions of mem.h, base and size.
Region ==
    [VEXRISCV_DEBUG |-> [base |-> \h3C03C000, size |-> \h40],
     DFF            |-> [base |-> \h0,        size |-> \h100],
     DFF2           |-> [base |-> \h100,      size |-> \h80],
     FLASH          |-> [base |-> \h4000000,  size |-> \h400000],
     MPRJ           |-> [base |-> \hC000000,  size |-> \h4000000],
     HK             |-> [base |-> \h9800000,  size |-> \hC0000],
     CSR            |-> [base |-> \h3C000000, size |-> \h4000]]

InRegion(s, a) == a >= Region[s].base /\ a < Region[s].base + Region[s].size

\* The comparisons of the address decoder.
slave_sel(a) ==
    {s \in Slaves :
        CASE s = "VEXRISCV_DEBUG" -> a \div 2^6 = 15732480
          [] s = "DFF"            -> a \div 2^8 = 0
          [] s = "DFF2"           -> a \div 2^7 = 2
          [] s = "FLASH"          -> a \div 2^22 = 16
          [] s = "MPRJ"           -> a \div 2^26 = 3
          [] s = "HK"             -> a \div 2^20 = 152
          [] s = "CSR"            -> a \div 2^14 = 61440}

\* First and last word of every region, and the words next to it.
Borders ==
    UNION {{Region[s].base, Region[s].base + Region[s].size - 1,
            Region[s].base + Region[s].size} : s \in Slaves}
      \cup {Region[s].base - 1 : s \in Slaves \ {"DFF"}}

\* How the slave of an address behaves: the back door; no answer, from the
\* user project to a read and outside every region; or one clock later.
Behaviour(a) ==
    IF slave_sel(a) = {"HK"} THEN "door"
    ELSE IF slave_sel(a) \subseteq {"MPRJ"} THEN "never" ELSE "quick"

-----------------------------------------------------------------------------
(* The wires *)

shared_cyc == req[grant] # None
hk_ack == wbbd_state = "DONE"
done == count = 0
shared_ack == ack \/ hk_ack \/ done
wait_1 == shared_cyc /\ ~shared_ack
Answered(m) == grant = m /\ shared_ack
Selects(b) == shared_cyc /\ Behaviour(req[grant]) = b

-----------------------------------------------------------------------------
(* One clock of every part *)

\* The access a master makes is withdrawn when it is answered, except that a
\* line fill goes on with the line's next word.
Withdraws(m) == Answered(m) /\ (m = 0 => left = 0)
MayAsk(m) ==
    IF req[m] = None THEN Asked \cup {None}
    ELSE IF Withdraws(m) THEN {None} ELSE {req[m]}

MastersClock ==
    /\ req' \in [Master -> Asked \cup {None}]
    /\ \A m \in Master : req'[m] \in MayAsk(m)
    /\ left' = IF req[0] = None THEN (IF req'[0] = None THEN 0 ELSE Beats - 1)
               ELSE IF Answered(0) /\ left > 0 THEN left - 1 ELSE left

\* Faulty variants: a fixed priority; a grant taken away from a master.
LowestFirst(ms) == CHOOSE m \in ms : \A n \in ms : m <= n
GrantTakenAway ==
    LET others == {m \in Master \ {grant} : req[m] # None}
    IN  IF others = {} THEN grant ELSE LowestFirst(others)

\* The master that comes first after the granted one, going round.
Turns(m) == (m + Masters - grant) % Masters
NextInTurn(ms) == CHOOSE m \in ms : \A n \in ms : Turns(m) <= Turns(n)

\* The grant moves only when its master asks for nothing.
NextGrant ==
    LET asking == {m \in Master : req[m] # None}
    IN  IF shared_cyc \/ asking = {} THEN grant ELSE NextInTurn(asking)

NextCount == IF wait_1 THEN count - 1 ELSE TimeOut

\* The back door works off the lanes whether or not the access is still there;
\* in front of each it waits while the SPI is about to move a byte.
DoorClock ==
    \/ /\ wbbd_state = "IDLE"
       /\ wbbd_state' = IF Selects("door") THEN "SETUP" ELSE "IDLE"
       /\ lane' = 0
       /\ asker' = IF Selects("door") THEN grant ELSE asker
    \/ /\ wbbd_state = "SETUP"
       /\ wbbd_state' \in {"SETUP", "RW"}
       /\ UNCHANGED <<lane, asker>>
    \/ /\ wbbd_state = "RW"
       /\ wbbd_state' = IF lane = Lanes - 1 THEN "DONE" ELSE "SETUP"
       /\ lane' = (lane + 1) % Lanes
       /\ UNCHANGED asker
    \/ /\ wbbd_state = "DONE"
       /\ wbbd_state' = "IDLE"
       /\ UNCHANGED <<lane, asker>>

FabricClock ==
    /\ MastersClock
    /\ grant' = NextGrant
    /\ count' = NextCount
    /\ ack' = (Selects("quick") /\ ~ack)
    /\ DoorClock
    \* Until the back door, and the slave whose answer it forestalled, are done.
    /\ orphan' = /\ orphan \/ (wbbd_state \in {"SETUP", "RW"} /\ done /\ grant = asker)
                 /\ wbbd_state' # "IDLE" \/ ack'

Init ==
    /\ req = [m \in Master |-> None] /\ left = 0
    /\ grant = 0 /\ count = TimeOut
    /\ ack = FALSE
    /\ wbbd_state = "IDLE" /\ lane = 0 /\ asker = 0 /\ orphan = FALSE

\* The clock runs.
Spec == Init /\ [][FabricClock]_vars /\ WF_vars(FabricClock)

-----------------------------------------------------------------------------
\* Types; the time-out counter never passes zero.
TypeOK ==
    /\ req \in [Master -> Asked \cup {None}] /\ left \in 0..(Beats - 1)
    /\ grant \in Master /\ count \in 0..TimeOut
    /\ ack \in BOOLEAN
    /\ wbbd_state \in {"IDLE", "SETUP", "RW", "DONE"} /\ lane \in 0..(Lanes - 1)
    /\ asker \in Master /\ orphan \in BOOLEAN

\* The memory map the programs are compiled with is the one the hardware
\* decodes: an address of a region of mem.h selects that region's slave, and
\* no address selects two (their answers would be merged on the bus).
MapIsDecoded ==
    \A a \in Borders \cup Asked :
        /\ Cardinality(slave_sel(a)) <= 1
        /\ \A s \in Slaves : InRegion(s, a) => s \in slave_sel(a)

\* Every answer ends the access it was given for: an acknowledgement finds its
\* access on the bus, from the master that made it and to the slave that gives
\* it, although nothing compares them.  The exception is the access the
\* time-out ended while the stalled back door was still working on it: the
\* back door's late acknowledgement ends whatever access is on the bus then.
AnswersBelong ==
    ~orphan =>
        /\ ack => Selects("quick")
        /\ hk_ack => Selects("door") /\ grant = asker

\* No access waits for ever, whatever the slave does and however often the
\* other masters ask; a read of the user project or of no slave at all
\* included, and one of a housekeeping register while the SPI stalls.
AccessesEnd == \A m \in Master : req[m] # None ~> req[m] = None
=============================================================================
