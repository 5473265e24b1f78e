----------------------------- MODULE ApbBridge -----------------------------
(***************************************************************************)
(* busfabric/ahbl_to_apb.v and apb_splitter.v: the slave of the crossbar   *)
(* behind which the timer, the UART and the SD card host stand.            *)
(*                                                                         *)
(* A state is one clock cycle.  A transfer t has a device t.dev (what the  *)
(* splitter makes of the address; NoDevice if none), a register t.reg, a   *)
(* direction t.write and, for a write, t.data.  What the device answers in *)
(* a cycle is a parameter of the clock edge.                               *)
(***************************************************************************)
EXTENDS Naturals

CONSTANTS Transfer,    \* what the harts put in an address phase
          NoDevice, NoTransfer

VARIABLES apb_state,   \* its state
          dphase,      \* the transfer in data phase: apbm_paddr, hwdata
          apbm_pwdata, \* the data of a write, sampled
          ahbls_hrdata \* the data of a read

bridgeVars == <<apb_state, dphase, apbm_pwdata, ahbls_hrdata>>

BridgeState == {"IDLE", "RD0", "RD1", "RD2", "WR0", "WR1", "WR2", "WR3",
                "ERR0", "ERR1"}

BridgeInit(zero) ==
  /\ apb_state = "IDLE" /\ dphase = NoTransfer
  /\ apbm_pwdata = zero /\ ahbls_hrdata = 0

ahbls_hready_resp == apb_state \in {"IDLE", "RD2", "WR3", "ERR1"}
ahbls_hresp       == apb_state \in {"ERR0", "ERR1"}

(* Of the request lines a device looks at psel and penable together: they  *)
(* offer it a write for one cycle, and a read until it answers.            *)
Offered(d)   == apb_state \in {"RD1", "WR1"} /\ dphase.dev = d
bus_write(d) == Offered(d) /\ dphase.write
bus_read(d)  == Offered(d) /\ ~dphase.write

(* The splitter: an access to no device is answered at once, with an error.*)
apbs_pready(pready) == dphase.dev = NoDevice \/ pready

setup ==
  \E t \in Transfer \cup {NoTransfer} :
    /\ dphase' = t
    /\ apb_state' = IF t = NoTransfer THEN "IDLE" ELSE IF t.write THEN "WR0" ELSE "RD0"

Answered(done) == IF dphase.dev = NoDevice THEN "ERR0" ELSE done
AfterCycle(pready) ==
  CASE apb_state = "WR0"  -> "WR1"
    [] apb_state = "WR1"  -> "WR2"
    [] apb_state = "WR2"  -> IF apbs_pready(pready) THEN Answered("WR3") ELSE "WR2"
    [] apb_state = "RD0"  -> "RD1"
    [] apb_state = "RD1"  -> IF apbs_pready(pready) THEN Answered("RD2") ELSE "RD1"
    [] apb_state = "ERR0" -> "ERR1"

(* The clock edge, for the pready and prdata of the device addressed.      *)
BridgeTick(pready, prdata) ==
  /\ \/ ahbls_hready_resp /\ setup
     \/ /\ ~ahbls_hready_resp
        /\ apb_state' = AfterCycle(pready) /\ UNCHANGED dphase
  /\ apbm_pwdata' = IF apb_state = "WR0" THEN dphase.data ELSE apbm_pwdata
  /\ ahbls_hrdata' =
       IF apb_state = "RD1" /\ apbs_pready(pready)
       THEN IF dphase.dev = NoDevice THEN 0 ELSE prdata
       ELSE ahbls_hrdata
=============================================================================
