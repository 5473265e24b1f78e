----------------------------- MODULE DramConRV -----------------------------
(***************************************************************************)
(* mem/memorytn.v, module DRAM_conRV: the memory port of the cache and of  *)
(* the boot copier on top of the memory controller.  It slips a refresh of *)
(* the chip between requests; a request that arrives while the refresh is  *)
(* under way is captured (read_request, write_request) and served after.   *)
(*                                                                         *)
(* The port is a level handshake: the requester raises i_rd_en or i_wr_en  *)
(* when o_busy is low, holds it until it sees o_busy high, lowers it, and  *)
(* takes the word (for a read) when o_busy is low again.  Every requester  *)
(* of the port behaves like this: cache_laurwt.v states 1 to 3 and 10, 11, *)
(* and in maintn.v the zeroing, the copy from the SD card and the          *)
(* read-back.                                                              *)
(***************************************************************************)
EXTENDS MemoryController

CONSTANTS
  REFRESH_CNT,      (* cycles after which a refresh is due                 *)
  REFRESH_CNT_MAX,  (* cycles after which a refresh counts as late         *)
  NoReq             (* no request                                          *)

ASSUME RefreshAssumption ==
  /\ REFRESH_CNT \in Nat
  /\ REFRESH_CNT_MAX \in Nat

ReadRequest  == [op : {"read"}, addr : Addr, ctrl : SUBSET Lane]
WriteRequest == [op : {"write"}, addr : Addr, ctrl : SUBSET Lane, data : Word]
Request      == ReadRequest \cup WriteRequest

ASSUME NoReqAssumption == NoReq \notin Request

VARIABLES
  rq,             (* i_rd_en, i_wr_en, i_addr, i_data, i_ctrl              *)
  drState,        (* state                                                 *)
  r_rd, r_we,     (* commands to the controller                            *)
  r_refresh,
  r_stall,        (* o_busy                                                *)
  r_maddr, r_wdata_ui, r_ctrl,         (* the captured request             *)
  r_wdata, r_mask,                     (* the data of the write under way  *)
  read_request, write_request,         (* captured during a refresh        *)
  r_refreshcnt,
  r_late_refresh,
  r_dram_odata1,  (* o_data                                                *)
  refreshed       (* history: the first refresh has run                    *)

drVars == <<drState, r_rd, r_we, r_refresh, r_stall, r_maddr, r_wdata_ui,
            r_ctrl, r_wdata, r_mask, read_request, write_request,
            r_refreshcnt, r_late_refresh, r_dram_odata1, refreshed>>

vars == <<sdVars, mcVars, drVars, rq>>

DrFlagsOK ==
  /\ r_rd \in BOOLEAN /\ r_we \in BOOLEAN /\ r_refresh \in BOOLEAN
  /\ r_stall \in BOOLEAN
  /\ read_request \in BOOLEAN /\ write_request \in BOOLEAN
  /\ r_late_refresh \in BOOLEAN /\ refreshed \in BOOLEAN

DrTypeOK ==
  /\ DrFlagsOK
  /\ rq \in Request \cup {NoReq}
  /\ drState \in {0, 10, 11, 20, 21, 22, 50, 51, 100}
  /\ r_maddr \in Addr /\ r_wdata_ui \in Word /\ r_ctrl \in SUBSET Lane
  /\ r_wdata \in Word /\ r_mask \in SUBSET Lane
  /\ r_refreshcnt \in Nat
  /\ r_dram_odata1 \in Word \cup {Junk}

DrInit ==
  /\ rq = NoReq
  /\ drState = 0
  /\ r_rd = FALSE /\ r_we = FALSE /\ r_refresh = FALSE /\ r_stall = FALSE
  /\ r_maddr \in Addr /\ r_wdata_ui \in Word /\ r_ctrl = {}
  /\ r_wdata = r_wdata_ui /\ r_mask = {}
  /\ read_request = FALSE /\ write_request = FALSE
  /\ r_refreshcnt = 0 /\ r_late_refresh = FALSE
  /\ r_dram_odata1 = Junk
  /\ refreshed = FALSE

Init == SdInit /\ McInit /\ DrInit

i_rd_en == rq # NoReq /\ rq.op = "read"
i_wr_en == rq # NoReq /\ rq.op = "write"
w_busy  == mcBusy
o_busy  == r_stall

(* prepare_read_base and prepare_write_base: capture the request.          *)
CaptureRead ==
  /\ r_maddr' = rq.addr /\ r_ctrl' = rq.ctrl /\ r_stall' = TRUE
  /\ UNCHANGED r_wdata_ui
CaptureWrite_keeps_data == CaptureRead  \* mutant: data not captured
CaptureWrite ==
  /\ r_maddr' = rq.addr /\ r_ctrl' = rq.ctrl /\ r_stall' = TRUE
  /\ r_wdata_ui' = rq.data
CaptureNothing == UNCHANGED <<r_maddr, r_ctrl, r_stall, r_wdata_ui>>

(* prepare_read_end and prepare_write_end.                                 *)
StartRead  == drState' = 10 /\ r_rd' = TRUE
StartWrite == drState' = 20 /\ UNCHANGED r_rd

Unserved == UNCHANGED <<r_we, r_wdata, r_mask, r_dram_odata1>>

(* State 0: a request first, otherwise a refresh that is due.  The test of *)
(* line 185 compares r_refresh, one bit wide, with REFRESH_CNT_MAX.        *)
RefreshDue_max == r_refreshcnt > REFRESH_CNT_MAX  \* mutant: the wrong limit
RefreshDue == r_refreshcnt > REFRESH_CNT
LateTest == (IF r_refresh THEN 1 ELSE 0) > REFRESH_CNT_MAX

Idle ==
  /\ drState = 0
  /\ \/ /\ i_rd_en /\ ~w_busy
        /\ CaptureRead /\ StartRead
        /\ UNCHANGED <<r_refresh, r_late_refresh>>
     \/ /\ i_wr_en /\ ~w_busy
        /\ CaptureWrite /\ StartWrite
        /\ UNCHANGED <<r_refresh, r_late_refresh>>
     \/ /\ rq = NoReq /\ RefreshDue /\ ~w_busy
        /\ drState' = 50 /\ r_refresh' = TRUE
        /\ r_late_refresh' = (r_late_refresh \/ LateTest)
        /\ CaptureNothing /\ UNCHANGED r_rd
     \/ /\ w_busy \/ (rq = NoReq /\ ~RefreshDue)
        /\ CaptureNothing
        /\ UNCHANGED <<drState, r_rd, r_refresh, r_late_refresh>>
  /\ Unserved
  /\ UNCHANGED <<read_request, write_request>>

(* A request that arrives during a refresh is captured once.               *)
CaptureLater_forgets ==   \* mutant: captured but not remembered
  /\ IF i_rd_en THEN CaptureRead
     ELSE IF i_wr_en THEN CaptureWrite ELSE CaptureNothing
  /\ UNCHANGED <<read_request, write_request>>
CaptureLater ==
  \/ /\ ~read_request /\ i_rd_en
     /\ CaptureRead /\ read_request' = TRUE /\ UNCHANGED write_request
  \/ /\ ~(~read_request /\ i_rd_en) /\ ~write_request /\ i_wr_en
     /\ CaptureWrite /\ write_request' = TRUE /\ UNCHANGED read_request
  \/ /\ ~(~read_request /\ i_rd_en) /\ ~(~write_request /\ i_wr_en)
     /\ CaptureNothing /\ UNCHANGED <<read_request, write_request>>

(* State 50: the refresh command is held until the controller takes it.    *)
AskRefresh ==
  /\ drState = 50
  /\ CaptureLater
  /\ IF w_busy THEN r_refresh' = FALSE /\ drState' = 51
               ELSE UNCHANGED <<r_refresh, drState>>
  /\ Unserved
  /\ UNCHANGED <<r_rd, r_late_refresh>>

(* State 51: the refresh runs; at its end the captured request, or one     *)
(* that arrives in this very cycle, is started.                            *)
AwaitRefresh ==
  /\ drState = 51
  /\ \/ /\ w_busy
        /\ CaptureLater
        /\ UNCHANGED <<drState, r_rd>>
     \/ /\ ~w_busy /\ read_request
        /\ read_request' = FALSE /\ UNCHANGED write_request
        /\ CaptureNothing /\ StartRead
     \/ /\ ~w_busy /\ ~read_request /\ write_request
        /\ write_request' = FALSE /\ UNCHANGED read_request
        /\ CaptureNothing /\ StartWrite
     \/ /\ ~w_busy /\ ~read_request /\ ~write_request
        /\ \/ i_rd_en /\ CaptureRead /\ StartRead
           \/ i_wr_en /\ CaptureWrite /\ StartWrite
           \/ rq = NoReq /\ drState' = 0 /\ CaptureNothing /\ UNCHANGED r_rd
        /\ UNCHANGED <<read_request, write_request>>
  /\ Unserved
  /\ UNCHANGED <<r_refresh, r_late_refresh>>

Unrequested ==
  UNCHANGED <<r_maddr, r_wdata_ui, r_ctrl, read_request, write_request,
              r_refresh, r_late_refresh>>

(* States 10 and 11: the read command, then the wait for its word.         *)
AskRead ==
  /\ drState = 10
  /\ IF w_busy THEN r_rd' = FALSE /\ drState' = 11
               ELSE UNCHANGED <<r_rd, drState>>
  /\ UNCHANGED <<r_stall, r_we, r_wdata, r_mask, r_dram_odata1>>
  /\ Unrequested

AwaitRead ==
  /\ drState = 11
  /\ IF w_busy THEN UNCHANGED <<drState, r_stall, r_dram_odata1>>
               ELSE drState' = 0 /\ r_stall' = FALSE /\ r_dram_odata1' = DoutA
  /\ UNCHANGED <<r_rd, r_we, r_wdata, r_mask>>
  /\ Unrequested

(* States 20, 21, 22 and 100: the write command, its wait, the release.    *)
AskWrite ==
  /\ drState = 20
  /\ r_mask' = r_ctrl /\ r_wdata' = r_wdata_ui
  /\ r_we' = TRUE /\ drState' = 21
  /\ UNCHANGED <<r_rd, r_stall, r_dram_odata1>>
  /\ Unrequested

HoldWrite ==
  /\ drState = 21
  /\ IF w_busy THEN r_we' = FALSE /\ drState' = 22
               ELSE UNCHANGED <<r_we, drState>>
  /\ UNCHANGED <<r_rd, r_stall, r_wdata, r_mask, r_dram_odata1>>
  /\ Unrequested

AwaitWrite ==
  /\ drState = 22
  /\ drState' = IF w_busy THEN 22 ELSE 100
  /\ UNCHANGED <<r_rd, r_we, r_stall, r_wdata, r_mask, r_dram_odata1>>
  /\ Unrequested

Release ==
  /\ drState = 100
  /\ drState' = 0 /\ r_stall' = FALSE
  /\ UNCHANGED <<r_rd, r_we, r_wdata, r_mask, r_dram_odata1>>
  /\ Unrequested

(* r_refreshcnt runs in every state and is cleared in state 51.            *)
RefreshCounter == r_refreshcnt' = IF drState = 51 THEN 0 ELSE r_refreshcnt + 1

DramTick ==
  /\ \/ Idle \/ AskRefresh \/ AwaitRefresh
     \/ AskRead \/ AwaitRead
     \/ AskWrite \/ HoldWrite \/ AwaitWrite \/ Release
  /\ RefreshCounter
  /\ refreshed' = (refreshed \/ drState = 51)

(* What the port asks the controller: read wins over write over refresh.   *)
CommandOut == CASE r_rd -> "read"
                [] ~r_rd /\ r_we -> "write"
                [] ~r_rd /\ ~r_we /\ r_refresh -> "refresh"
                [] OTHER -> "none"

(* The requester: it may raise a request whenever the port is not busy and *)
(* none is raised, and lowers it in the cycle it sees the port busy.       *)
RaiseRequest == rq = NoReq /\ ~o_busy /\ ~mcInit /\ rq' \in Request
HoldRequest  == rq # NoReq /\ ~o_busy /\ UNCHANGED rq
LowerRequest == rq # NoReq /\ o_busy /\ rq' = NoReq
StayQuiet    == rq = NoReq /\ UNCHANGED rq

RequesterTick == RaiseRequest \/ HoldRequest \/ LowerRequest \/ StayQuiet

(* One rising edge of clk for the whole stack.                             *)
Tick ==
  /\ DramTick
  /\ McTick(CommandOut, r_maddr, r_wdata, r_mask)
  /\ RequesterTick

Spec == Init /\ [][Tick]_vars
(* The clock does not stop.                                                *)
FairSpec == Spec /\ WF_vars(Tick)
-----------------------------------------------------------------------------
(* Types of the whole stack.                                               *)
TypeOK == SdTypeOK /\ McTypeOK /\ DrTypeOK

(* The controller is not busy only when the sequencer is in IDLE: the      *)
(* cycle counting of memory_controller.v agrees with the sequences of      *)
(* sdram.v, so that no command ever meets a sequencer that ignores it.     *)
NoCommandLost == ~mcBusy => sdState = "IDLE"

(* memory_controller.v:27, "timing mistake or sdram malfunction detected": *)
(* every read is latched in the cycle in which the data is on the bus.     *)
NoTimingFail == ~fail

(* memorytn.v:225: when a refresh ends with nothing to serve, no requester *)
(* is held off ("TN_DRAM_REFRESH bug r_stall not null").                   *)
NoStallWithoutRequest ==
  drState \in {0, 50, 51} =>
    (r_stall <=> read_request \/ write_request)

(* Once the first refresh has run, the next one starts at most REFRESH_LAG *)
(* cycles after it is due, whatever the requester does: the port lets a    *)
(* refresh in between any two requests.                                    *)
REFRESH_LAG == WRITE_LEN + 10
RefreshInTime == refreshed => r_refreshcnt <= REFRESH_CNT + REFRESH_LAG

(* The name and the comment of memorytn.v:140-142 (15us = 405 periods):    *)
(* a refresh asked for after more than REFRESH_CNT_MAX cycles is reported  *)
(* by r_late_refresh.  It does not hold: line 185 compares the one-bit      *)
(* r_refresh with the limit.                                               *)
LateRefreshReported ==
  [][(drState = 0 /\ drState' = 50 /\ r_refreshcnt > REFRESH_CNT_MAX)
       => r_late_refresh']_vars

(* The strengthening of NoCommandLost and NoTimingFail: while an operation  *)
(* runs, the controller and the sequencer count the same cycles.           *)
CtrlInv ==
  /\ mcInit => /\ mcBusy /\ mcPulse = "none" /\ ~mcReadA
               /\ sdState \in {"INIT", "CONFIG", "IDLE"}
  /\ ~mcBusy => sdState = "IDLE" /\ mcPulse = "none" /\ ~mcReadA
  /\ mcBusy /\ ~mcInit =>
       \/ /\ mcOp = "read" /\ sdState = "READ" /\ mcReadA
          /\ mcCycles \in 1 .. READ_LEN /\ sdCycle = mcCycles
       \/ /\ mcOp = "refresh" /\ ~mcReadA /\ mcCycles \in 1 .. 4
          /\ \/ sdState = "REFRESH" /\ sdCycle = mcCycles /\ mcCycles <= T_RC
             \/ sdState = "IDLE" /\ mcCycles > 1 /\ mcPulse = "none"
       \/ /\ mcOp = "write" /\ ~mcReadA
          /\ \/ /\ sdState = "WRITE" /\ sdCycle \in 1 .. WRITE_LEN
                /\ mcWcycles = IF sdCycle < 5 THEN sdCycle ELSE 5
             \/ sdState = "IDLE" /\ mcWcycles = 5 /\ mcPulse = "none"
  /\ mcPulse # "none" => mcCycles = 1
  /\ sdBusy <=> sdState # "IDLE"
  /\ sdReady <=> sdState = "READ" /\ sdCycle = READ_LEN
  /\ ~fail

(* What the controller does in each state of the port, and which of the    *)
(* port's flags are up.                                                    *)
PortInv ==
  /\ drState = 0 => ~r_stall /\ (mcBusy => mcInit)
  /\ drState # 0 => ~mcInit
  /\ (read_request \/ write_request) => drState \in {50, 51} /\ r_stall
  /\ ~(read_request /\ write_request)
  /\ drState \in {50, 51} =>
       /\ r_stall => read_request \/ write_request
       /\ mcBusy => mcOp = "refresh"
       /\ read_request /\ rq # NoReq => rq.op = "read"
       /\ write_request /\ rq # NoReq => rq.op = "write"
  /\ drState = 50 => (mcBusy => mcCycles = 1)
  /\ drState \in {10, 11, 20, 21, 22, 100} => r_stall
  /\ drState \in {10, 11} => (mcBusy => mcOp = "read")
  /\ drState = 10 => (mcBusy => mcCycles = 1)
  /\ drState \in {20, 100} => ~mcBusy
  /\ drState \in {21, 22} => (mcBusy => mcOp = "write")
  /\ drState = 21 => (mcBusy => mcWcycles = 1 /\ sdState = "WRITE")
  /\ r_rd <=> drState = 10
  /\ r_we <=> drState = 21
  /\ r_refresh <=> drState = 50
  /\ drState \in {11, 22, 100} => rq = NoReq

(* The strengthening of RefreshInTime: how far past the due time each      *)
(* state of the port can be.                                               *)
Lag == CASE drState = 0   -> IF rq = NoReq THEN WRITE_LEN + 7 ELSE 1
         [] drState = 10  -> IF mcBusy THEN 3 ELSE 2
         [] drState = 11  -> IF mcBusy THEN 2 + mcCycles ELSE 7
         [] drState = 20  -> 2
         [] drState = 21  -> IF mcBusy THEN 4 ELSE 3
         [] drState = 22  -> IF ~mcBusy THEN WRITE_LEN + 5
                             ELSE IF sdState = "WRITE" THEN 3 + sdCycle
                             ELSE WRITE_LEN + 4
         [] drState = 100 -> WRITE_LEN + 6
         [] drState = 50  -> IF mcBusy THEN WRITE_LEN + 9 ELSE WRITE_LEN + 8
         [] OTHER         -> REFRESH_LAG

LagInv == refreshed => ~mcInit /\ r_refreshcnt <= REFRESH_CNT + Lag

IInv == TypeOK /\ CtrlInv /\ PortInv /\ LagInv

(* The strengthening for the refinement below: the controller and the       *)
(* sequencer work at the captured request, and the word of a read is that   *)
(* of its cell as soon as it is there.                                      *)
Selected == mcAddr = r_maddr /\ sdSel[1] = r_maddr[1]

DataInv ==
  /\ drState \in {10, 11} /\ mcBusy =>
       /\ Selected
       /\ sdCycle > T_RCD => sdSel = r_maddr
       /\ sdCycle = READ_LEN => dq = mem[r_maddr]
  /\ drState = 11 /\ ~mcBusy => mcDa = mem[r_maddr]
  /\ drState \in {21, 22, 100} => r_mask = r_ctrl /\ r_wdata = r_wdata_ui
  /\ drState \in {21, 22} /\ mcBusy /\ sdState = "WRITE" =>
       Selected /\ mcDin = r_wdata

(* A raised request is served: the port is released with the request done. *)
RequestServed == (rq # NoReq) ~> (rq = NoReq /\ ~o_busy)

(* The port implements the abstract memory port.  A captured request is    *)
(* pending from the cycle o_busy rises; a write counts as done once the    *)
(* sequencer has given the chip its data.                                  *)
CONSTANT Written

Captured ==
  IF read_request \/ drState \in {10, 11}
  THEN [op |-> "read", addr |-> r_maddr, ctrl |-> r_ctrl]
  ELSE [op |-> "write", addr |-> r_maddr, ctrl |-> r_ctrl, data |-> r_wdata_ui]

WriteReached ==
  drState = 100 \/ (drState = 22 /\ (sdState = "WRITE" => sdCycle > T_RCD))

pendBar ==
  IF ~r_stall THEN NoReq
  ELSE IF WriteReached THEN Written ELSE Captured

Port == INSTANCE MemPort WITH
          rq <- rq, pend <- pendBar, odata <- r_dram_odata1
PortSpec == Port!Spec
=============================================================================
