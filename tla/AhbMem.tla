------------------------------- MODULE AhbMem -------------------------------
(***************************************************************************)
(* mem/ahb_laur_mem.v, module ahb_sync_sram: the bus slave in front of the *)
(* cache, with the monitor of the exclusive accesses (LR/SC and AMO) of    *)
(* the harts.                                                              *)
(*                                                                         *)
(* The bus is pipelined: the address phase of a transfer overlaps the data *)
(* phase of the one before, and is taken in a cycle in which hready is     *)
(* high.  xfer is the transfer in its data phase.  While there is none,    *)
(* hready is high whatever the slave says (ahbl_splitter.v:180,            *)
(* ahbl_arbiter.v:186): this is how the first fetch after reset is taken   *)
(* long before the memory is ready for it.                                 *)
(***************************************************************************)
EXTENDS CacheCtrl

CONSTANTS
  Hart,
  Xfer,      (* the transfers the harts make                               *)
  NoXfer

ReadXfer  == [op : {"read"}, addr : CpuAddr, hart : Hart, excl : BOOLEAN]
WriteXfer == [op : {"write"}, addr : CpuAddr, hart : Hart, excl : BOOLEAN,
              mask : SUBSET Lane \ {{}}, data : Word]

ASSUME XferAssumption ==
  Xfer \subseteq ReadXfer \cup WriteXfer /\ NoXfer \notin ReadXfer \cup WriteXfer

VARIABLES
  xfer,          (* the transfer in its data phase                         *)
  early,         (* history: it was taken before the memory was ready      *)
  aState,        (* state: 0, 22, 20, 21 write, 30, 31 refused             *)
  r_ahbls_haddr, r_mask, r_ahbls_hwdata,
  a_dram_wr,     (* r_dram_wr of ahb_sync_sram                             *)
  r_ahbls_hexokay,
  r_excl_addr, r_excl_addr_valid,    (* by hart                            *)
  overwritten    (* history, by hart: the kinds of write ("plain",         *)
                 (* "exclusive") by which other harts have written the     *)
                 (* word it reserved since it reserved it                  *)

ahbVars == <<aState, r_ahbls_haddr, r_mask, r_ahbls_hwdata, a_dram_wr,
             r_ahbls_hexokay, r_excl_addr, r_excl_addr_valid>>
vars == <<cacheVars, portVars, w_init_done, xfer, early, ahbVars, overwritten>>

AhbFlagsOK == early \in BOOLEAN /\ a_dram_wr \in BOOLEAN /\ r_ahbls_hexokay \in BOOLEAN

TypeOK ==
  /\ CacheTypeOK /\ AhbFlagsOK
  /\ xfer \in Xfer \cup {NoXfer}
  /\ aState \in {0, 20, 21, 22, 30, 31}
  /\ r_ahbls_haddr \in CpuAddr /\ r_mask \in SUBSET Lane
  /\ r_ahbls_hwdata \in Word
  /\ r_excl_addr \in [Hart -> CpuAddr]
  /\ r_excl_addr_valid \in [Hart -> BOOLEAN]
  /\ overwritten \in [Hart -> SUBSET {"plain", "exclusive"}]

(* The reset state; r_excl_addr and r_ahbls_haddr have no reset value.     *)
Init ==
  /\ CacheInit
  /\ xfer = NoXfer /\ early = FALSE
  /\ aState = 0 /\ r_mask = {} /\ r_ahbls_hwdata = r_dram_idata
  /\ r_ahbls_haddr = r_dram_addr
  /\ a_dram_wr = FALSE /\ r_ahbls_hexokay = TRUE
  /\ r_excl_addr = [h \in Hart |-> r_dram_addr]
  /\ r_excl_addr_valid = [h \in Hart |-> FALSE]
  /\ overwritten = [h \in Hart |-> {}]

(* ahbls_hready_resp and the hready of the bus.                            *)
hready_resp == (aState \in {0, 21} /\ ~o_busy) \/ aState = 31
hready      == xfer = NoXfer \/ hready_resp

IsWrite(t) == t # NoXfer /\ t.op = "write"
IsRead(t)  == t # NoXfer /\ t.op = "read"

(* hwdata belongs to the data phase.                                       *)
hwdata == IF IsWrite(xfer) THEN xfer.data ELSE r_ahbls_hwdata

(* The inputs of the cache in a cycle whose address phase is t (NoXfer:    *)
(* none is taken).  The mask of a read is left out, the port ignores it.   *)
(* The address lines show anything while no address phase is taken; what   *)
(* the cache reads there is never used, and the last address stands for    *)
(* it.                                                                     *)
wmask(t)  == IF IsWrite(t) THEN t.mask ELSE {}
w_addr(t) == IF aState \in {20, 22} THEN r_ahbls_haddr
             ELSE IF t = NoXfer THEN r_dram_addr ELSE t.addr
w_cache_mask(t) == IF aState = 0 \/ (aState = 22 /\ ~o_busy)
                   THEN wmask(t) ELSE r_mask

(* The monitor.                                                            *)
Reserved_any(t) ==     \* mutant: a reservation of any address will do
  r_excl_addr_valid[t.hart]
Reserved(t) == r_excl_addr_valid[t.hart] /\ r_excl_addr[t.hart] = t.addr

Reserve(t) ==
  /\ r_excl_addr' = [r_excl_addr EXCEPT ![t.hart] = t.addr]
  /\ r_excl_addr_valid' = [r_excl_addr_valid EXCEPT ![t.hart] = TRUE]

ClearReserved_own(t) ==     \* mutant: only the writer's reservation is cleared
  /\ r_excl_addr_valid' = [r_excl_addr_valid EXCEPT ![t.hart] = FALSE]
  /\ UNCHANGED r_excl_addr
ClearReserved(t) ==
  /\ r_excl_addr_valid' =
       [h \in Hart |-> r_excl_addr_valid[h] /\ r_excl_addr[h] # t.addr]
  /\ UNCHANGED r_excl_addr

KeepReserved == UNCHANGED <<r_excl_addr, r_excl_addr_valid>>

(* check_new_req.                                                          *)
TakeRead(t) ==
  /\ IsRead(t)
  /\ aState' = 0
  /\ r_mask' = wmask(t)
  /\ r_ahbls_hexokay' = TRUE
  /\ IF t.excl THEN Reserve(t) ELSE KeepReserved
  /\ UNCHANGED <<r_ahbls_haddr, r_ahbls_hwdata, a_dram_wr>>

StartWrite(t) ==
  /\ aState' = 22
  /\ r_ahbls_haddr' = t.addr /\ r_mask' = wmask(t)
  /\ r_ahbls_hwdata' = hwdata
  /\ UNCHANGED a_dram_wr

TakeWrite(t) ==
  /\ IsWrite(t) /\ ~t.excl
  /\ StartWrite(t)
  /\ r_ahbls_hexokay' = FALSE
  /\ KeepReserved

TakeExclusiveWrite(t) ==
  /\ IsWrite(t) /\ t.excl /\ Reserved(t)
  /\ StartWrite(t)
  /\ r_ahbls_hexokay' = TRUE
  /\ ClearReserved(t)

RefuseExclusiveWrite(t) ==
  /\ IsWrite(t) /\ t.excl /\ ~Reserved(t)
  /\ aState' = 30
  /\ r_ahbls_hexokay' = FALSE
  /\ KeepReserved
  /\ UNCHANGED <<r_ahbls_haddr, r_mask, r_ahbls_hwdata, a_dram_wr>>

TakeNothing(t) ==
  /\ t = NoXfer
  /\ aState' = 0
  /\ r_ahbls_hexokay' = TRUE
  /\ KeepReserved
  /\ UNCHANGED <<r_ahbls_haddr, r_mask, r_ahbls_hwdata, a_dram_wr>>

CheckNewReq(t) ==
  \/ TakeRead(t)
  \/ TakeWrite(t)
  \/ TakeExclusiveWrite(t)
  \/ RefuseExclusiveWrite(t)
  \/ TakeNothing(t)

(* States 0, 21 and 31 take the next transfer, 21 once the write is done.  *)
Ready(t) ==
  /\ aState \in {0, 31} \/ (aState = 21 /\ ~o_busy)
  /\ CheckNewReq(t)

AwaitWritten ==
  /\ aState = 21 /\ o_busy
  /\ r_ahbls_hexokay' = TRUE
  /\ UNCHANGED <<aState, r_ahbls_haddr, r_mask, r_ahbls_hwdata, a_dram_wr>>
  /\ KeepReserved

(* State 22: the first cycle of a write's data phase.                      *)
TakeData_stale ==     \* mutant: the data of the address phase is kept
  /\ aState = 22
  /\ aState' = 20 /\ a_dram_wr' = TRUE
  /\ r_ahbls_hexokay' = TRUE
  /\ UNCHANGED <<r_ahbls_haddr, r_mask, r_ahbls_hwdata>>
  /\ KeepReserved
TakeData ==
  /\ aState = 22
  /\ r_ahbls_hwdata' = hwdata
  /\ aState' = 20 /\ a_dram_wr' = TRUE
  /\ r_ahbls_hexokay' = TRUE
  /\ UNCHANGED <<r_ahbls_haddr, r_mask>>
  /\ KeepReserved

(* State 20: the write command is held until the cache takes it.           *)
HoldCommand ==
  /\ aState = 20
  /\ IF o_busy THEN aState' = 21 /\ a_dram_wr' = FALSE
               ELSE UNCHANGED <<aState, a_dram_wr>>
  /\ r_ahbls_hexokay' = TRUE
  /\ UNCHANGED <<r_ahbls_haddr, r_mask, r_ahbls_hwdata>>
  /\ KeepReserved

Refuse ==
  /\ aState = 30
  /\ aState' = 31
  /\ r_ahbls_hexokay' = FALSE
  /\ UNCHANGED <<r_ahbls_haddr, r_mask, r_ahbls_hwdata, a_dram_wr>>
  /\ KeepReserved

(* The history of the reservations.                                        *)
Kind(t) == IF t.excl THEN "exclusive" ELSE "plain"
Overwritten(t) ==
  IF IsRead(t) /\ t.excl THEN [overwritten EXCEPT ![t.hart] = {}]
  ELSE IF IsWrite(t) /\ (t.excl => Reserved(t))
  THEN [h \in Hart |->
          IF h # t.hart /\ r_excl_addr_valid[h] /\ r_excl_addr[h] = t.addr
          THEN overwritten[h] \cup {Kind(t)} ELSE overwritten[h]]
  ELSE overwritten

(* One clock edge.  t is the transfer whose address phase is taken: one    *)
(* can be taken only in a cycle in which hready is high.  The first of a   *)
(* hart is an instruction fetch, which is answered only when the memory is *)
(* ready.                                                                  *)
Tick(t) ==
  /\ t # NoXfer => hready /\ (w_init_done \/ (IsRead(t) /\ ~t.excl))
  /\ Ready(t) \/ AwaitWritten \/ TakeData \/ HoldCommand \/ Refuse
  /\ CacheTick(IsRead(t), a_dram_wr, w_addr(t), w_cache_mask(t), r_ahbls_hwdata)
  /\ MemTick
  /\ xfer' = IF hready THEN t ELSE xfer
  /\ early' = IF hready THEN t # NoXfer /\ ~w_init_done ELSE early
  /\ overwritten' = Overwritten(t)

Next == \E t \in Xfer \cup {NoXfer} : Tick(t)

Spec == Init /\ [][Next]_vars

(* The clock runs, the boot copier finishes and the memory port serves.    *)
FairSpec ==
  /\ Spec
  /\ WF_vars(Next)
  /\ WF_vars(Next /\ w_init_done')
  /\ WF_vars(Next /\ Port!Serve)
-----------------------------------------------------------------------------
(* ahb_laur_mem.v:207: no address phase is taken in the first cycle of a   *)
(* write's data phase.                                                     *)
NoPhaseInWrite == aState = 22 => ~hready

(* The cache keeps the rules of the memory port: one request at a time,    *)
(* held until it is accepted and then lowered.                             *)
PortRules == [][w_init_done => Port!Requester]_vars

(* The word a hart reads is the word the memory holds.                     *)
ReadCoherent ==
  IsRead(xfer) /\ hready_resp /\ ~early => o_data = mem[Cell(xfer.addr)]

(* hazard3_config.vh:24 "RESET_VECTOR: Address of first instruction        *)
(* executed": the first fetch, too, returns the word at its address.  It   *)
(* does not hold: the cache drops a request while the memory is filled.    *)
FirstFetchCoherent ==
  IsRead(xfer) /\ hready_resp => o_data = mem[Cell(xfer.addr)]

(* Of the exclusive writes alone: one of them takes the reservations of    *)
(* its word from every other hart, so that no two harts that read the same *)
(* value both write.                                                       *)
Performed(t) == aState # 22 /\ aState' = 22 /\ t.excl
OneExclusiveWriter ==
  [][Performed(xfer') => "exclusive" \notin overwritten[xfer'.hart]]_vars

(* hazard3_config.vh:41 "Support for atomic read/modify/write              *)
(* instructions": an exclusive write is not performed if another hart has  *)
(* written the word, in whatever way, since the exclusive read.            *)
AtomicReadModifyWrite ==
  [][Performed(xfer') => overwritten[xfer'.hart] = {}]_vars

(* A transfer that is taken ends.                                          *)
EveryTransferEnds == (xfer # NoXfer) ~> hready_resp

(* How the slave stands to its transfer and to the cache, state by state.  *)
PhaseInv ==
  /\ xfer = NoXfer => aState = 0 /\ cState = 0
  /\ IsRead(xfer)  => aState = 0
  /\ IsWrite(xfer) => aState # 0
  /\ aState = 0 => cState \in {0, 1, 2, 3, 4} /\ r_ahbls_hexokay
  /\ aState \in {22, 30, 31} => cState = 0
  /\ aState = 31 => ~r_ahbls_hexokay
  /\ aState = 20 => a_dram_wr /\ (cState = 0 \/ (cState = 10 /\ c_clr))
  /\ aState # 20 => ~a_dram_wr
  /\ aState = 21 => cState \in {0, 10, 11} /\ r_ahbls_hexokay
  /\ early => IsRead(xfer) /\ cState = 0
  /\ ~w_init_done => xfer = NoXfer \/ early

(* The cache and the port work for the transfer in its data phase.         *)
TransferInv ==
  /\ aState \in {20, 22} => r_ahbls_haddr = xfer.addr /\ r_mask = xfer.mask
  /\ aState = 20 => r_ahbls_hwdata = xfer.data
  /\ aState = 21 \/ cState = 10 =>
       r_dram_addr = xfer.addr /\ r_dram_mask = xfer.mask /\ r_dram_idata = xfer.data
  /\ IsRead(xfer) /\ ~early =>
       IF cState = 0 THEN odata = mem[Cell(xfer.addr)] ELSE r_dram_addr = xfer.addr

(* No valid reservation has been overwritten by an exclusive write.        *)
ReservationInv ==
  \A h \in Hart : r_excl_addr_valid[h] => "exclusive" \notin overwritten[h]

BusInv == CacheInv /\ LinesCoherent /\ PhaseInv /\ TransferInv /\ ReservationInv

(* The slave, its cache and the memory port implement BusMemory.           *)
Stored ==
  \/ cState = 10 /\ pend = Written
  \/ cState = 11 /\ pend \in {Written, NoReq}
  \/ aState = 21 /\ cState = 0

fate ==
  IF xfer = NoXfer THEN "none"
  ELSE IF aState \in {30, 31} THEN "refused"
  ELSE IF early THEN "early"
  ELSE IF xfer.op = "read" THEN "read"
  ELSE IF Stored THEN "stored" ELSE "pending"

Bus == INSTANCE BusMemory WITH
         booted <- w_init_done,
         reserved <- {<<h, r_excl_addr[h]>> : h \in {g \in Hart : r_excl_addr_valid[g]}},
         ready <- hready_resp, rdata <- o_data, okay <- r_ahbls_hexokay
BusSpec == Bus!Spec
=============================================================================
