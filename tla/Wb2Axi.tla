------------------------------- MODULE Wb2Axi -------------------------------
(***************************************************************************)
(* The bridge of rtl/user/wb2axi.v: writes that arrive on the Wishbone bus *)
(* become coefficient writes, the ap_start write, stream samples or status *)
(* polls of the FIR engine, depending on a four-state FSM which two data   *)
(* words, TAP_DONE and DATA_DONE, drive.                                   *)
(*                                                                         *)
(* One step per clock edge: BridgeClock(bus, wready, rvalid, rdata) with   *)
(* the Wishbone request and the engine's outputs sampled by the edge.      *)
(* A request is the record [req, we, region, off, dat]: req is cyc & stb,  *)
(* region the part of the user area the address selects ("FIR" is          *)
(* 0x3000_xxxx, "MPRJRAM" 0x380x_xxxx) and off the offset in it.           *)
(*                                                                         *)
(* invalidAddr (l.94) is true of every address outside MPRJRAM.  Line 119  *)
(* also tests the address against the data word TAP_DONE: no address of    *)
(* the user area has that value, so the test never fails and is left out.  *)
(***************************************************************************)
EXTENDS Integers

CONSTANTS TAP_DONE, DATA_DONE   \* the data words 0xF000_0000 and 0xFF00_0000

VARIABLES
    ps,
    wbs_ack_r, wbs_dat_r,                             \* Wishbone response
    awvalid_r, awaddr_r, wvalid_r, wdata_r, arvalid_r,\* AXI-Lite
    ss_tvalid_r, ss_tdata_r, ss_tlast_r               \* AXI-Stream

axiLite    == <<awvalid_r, awaddr_r, wvalid_r, wdata_r, arvalid_r>>
axiStream  == <<ss_tvalid_r, ss_tdata_r, ss_tlast_r>>
bridgeVars == <<ps, wbs_ack_r, wbs_dat_r, axiLite, axiStream>>

SS_LAST == 4                     \* the offset of 0x3000_0004
FIRDONE == 4                     \* the status word that ends a run

AxiLite(aw, a, d, ar) ==
    awvalid_r' = aw /\ wvalid_r' = aw /\ awaddr_r' = a /\ wdata_r' = d /\ arvalid_r' = ar
NoSample == ss_tvalid_r' = FALSE /\ ss_tlast_r' = FALSE /\ ss_tdata_r' = 0

WriteEn(bus)  == bus.req /\ bus.we
LastAddr(bus) == bus.region = "FIR" /\ bus.off = SS_LAST

\* Faulty variants of the definitions below, which the properties must notice.
BeatEveryEdge(bus) == WriteEn(bus) /\ bus.region # "MPRJRAM"
StaleBeat(bus)    == wbs_dat_r
DoneOnLast(bus)   == WriteEn(bus) /\ LastAddr(bus)
AnyStatus(rvalid, rdata)   == rvalid
StartStatus(rvalid, rdata) == rvalid /\ rdata = 1

InvalidAddr(bus) == bus.region # "MPRJRAM"
TapsDone(bus)    == WriteEn(bus) /\ bus.dat = TAP_DONE
DataDone(bus)    == WriteEn(bus) /\ bus.dat = DATA_DONE
RunDone(rvalid, rdata) == rvalid /\ rdata = FIRDONE
BeatData(bus) == bus.dat
NewAck(bus)  == WriteEn(bus) /\ ~wbs_ack_r
NewBeat(bus) == WriteEn(bus) /\ InvalidAddr(bus) /\ ~ss_tvalid_r

\* Every write is acknowledged one edge after it appears, in every state and
\* for every address; reads never are.
Acknowledge(bus) ==
    /\ wbs_ack_r' = NewAck(bus)
    /\ wbs_dat_r' = IF NewAck(bus) THEN bus.dat ELSE wbs_dat_r

\* TAP: an acknowledged word becomes the next coefficient, if the engine is
\* ready; the word TAP_DONE ends the state as soon as it appears on the bus.
InTap(bus) ==
    /\ ps = "TAP"
    /\ Acknowledge(bus)
    /\ ps' = IF TapsDone(bus) THEN "AP_START" ELSE "TAP"
    /\ NoSample

ForwardTap(bus, wready) ==
    /\ wbs_ack_r /\ wready /\ InvalidAddr(bus)
    /\ InTap(bus)
    /\ AxiLite(TRUE, (awaddr_r + 4) % 4096, wbs_dat_r, FALSE)

AwaitTap(bus, wready) ==
    /\ ~(wbs_ack_r /\ wready /\ InvalidAddr(bus))
    /\ InTap(bus)
    /\ AxiLite(FALSE, awaddr_r, wdata_r, FALSE)

StartEngine(bus) ==
    /\ ps = "AP_START"
    /\ Acknowledge(bus)
    /\ ps' = "DATA"
    /\ AxiLite(TRUE, 0, 1, FALSE)
    /\ NoSample

\* DATA: a write becomes one beat of the stream as soon as it appears, the
\* word DATA_DONE included; ss_tready is not consulted.
StreamData(bus) ==
    /\ ps = "DATA"
    /\ Acknowledge(bus)
    /\ ps' = IF DataDone(bus) THEN "DONE" ELSE "DATA"
    /\ AxiLite(FALSE, 0, 0, FALSE)
    /\ ss_tvalid_r' = NewBeat(bus)
    /\ ss_tdata_r' = IF NewBeat(bus) THEN BeatData(bus) ELSE ss_tdata_r
    /\ ss_tlast_r' = (WriteEn(bus) /\ LastAddr(bus))

\* DONE: the status register is polled until it reads FIRDONE.
PollStatus(bus, rvalid, rdata) ==
    /\ ps = "DONE"
    /\ Acknowledge(bus)
    /\ ps' = IF RunDone(rvalid, rdata) THEN "TAP" ELSE "DONE"
    /\ AxiLite(FALSE, 0, 0, TRUE)
    /\ NoSample

BridgeClock(bus, wready, rvalid, rdata) ==
    \/ ForwardTap(bus, wready) \/ AwaitTap(bus, wready)
    \/ StartEngine(bus)
    \/ StreamData(bus)
    \/ PollStatus(bus, rvalid, rdata)

BridgeInit ==
    /\ ps = "TAP"
    /\ wbs_ack_r = FALSE /\ wbs_dat_r = 0
    /\ awvalid_r = FALSE /\ awaddr_r = 28 /\ wvalid_r = FALSE /\ wdata_r = 0
    /\ arvalid_r = FALSE
    /\ ss_tvalid_r = FALSE /\ ss_tlast_r = FALSE /\ ss_tdata_r = 0

BridgeReset ==
    /\ ps' = "TAP"
    /\ wbs_ack_r' = FALSE /\ wbs_dat_r' = 0
    /\ AxiLite(FALSE, 28, 0, FALSE)
    /\ NoSample
=============================================================================
