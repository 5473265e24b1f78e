------------------------------ MODULE SdDriver ------------------------------
(***************************************************************************)
(* The block driver of NuttX (mmcsd_read and mmcsd_write, in               *)
(* src/nuttx-patch-12.8.0.patch) over the bridge and the SD card host.     *)
(* The lock of the slot lets one call at a time through; a call moves one  *)
(* sector or several, here one operation each.  An access is issued any    *)
(* time after the one before has ended.                                    *)
(***************************************************************************)
EXTENDS ApbBridge, SdHost

CONSTANTS Sd,          \* the device behind the bridge
          NoOp, Op     \* operations: see BlockDevice

VARIABLES op, pc,      \* the operation, and where the driver is in it
          i,           \* its loop variable
          buffer,      \* the bytes it has read
          result       \* what the last read has returned

drvVars == <<op, pc, i, buffer, result>>
vars    == <<bridgeVars, hostVars, drvVars>>

Init ==
  /\ BridgeInit(0) /\ HostInit
  /\ op = NoOp /\ pc = "idle" /\ i = 0
  /\ buffer = [j \in Index |-> 0] /\ result = NoOp

Load(r)     == [dev |-> Sd, reg |-> r, write |-> FALSE, data |-> 0]
Store(r, v) == [dev |-> Sd, reg |-> r, write |-> TRUE, data |-> v]

(* The access that the driver makes next.                                  *)
Access ==
  CASE pc \in {"wait", "waitdone"} -> Load(RDBLK)
    [] pc = "command" -> Store(IF op.kind = "read" THEN RDBLK ELSE WRBLK, op.block)
    [] pc = "fill"    -> Store(BLOCKADDR + i, op.data[i])
    [] pc = "copy"    -> Load(BLOCKADDR + i)

Transfers ==
  {Load(RDBLK)} \cup {Store(r, b) : r \in {RDBLK, WRBLK}, b \in Block}
  \cup {Load(BLOCKADDR + j) : j \in Index}
  \cup {Store(BLOCKADDR + j, v) : j \in Index, v \in Byte}

ASSUME DriverAssumption ==
  /\ Sd # NoDevice /\ NoTransfer \notin Transfers /\ NoOp \notin Op
  /\ \A o \in Op : o.kind \in {"read", "write"} /\ o.block \in Block
  /\ \A o \in Op : o.kind = "write" => o.data \in [Index -> Byte]

Start ==
  /\ pc = "idle" /\ op' \in Op /\ pc' = "wait"
  /\ UNCHANGED <<i, buffer, result>>

(* wait_not_busy: status & 0x100ff, which is the busy bit of sdspi_status. *)
not_busy(s) == s % 2 = 0
WaitNotBusy ==
  /\ pc \in {"wait", "waitdone"} /\ i' = 0 /\ UNCHANGED <<op, buffer, result>>
  /\ pc' = IF ~not_busy(ahbls_hrdata) THEN pc
           ELSE IF pc = "wait" THEN IF op.kind = "read" THEN "command" ELSE "fill"
           ELSE IF op.kind = "read" THEN "copy" ELSE "done"

Commanding_nowait ==     \* mutant: the block is not waited for
  /\ pc = "command" /\ UNCHANGED <<op, i, buffer, result>>
  /\ pc' = IF op.kind = "read" THEN "copy" ELSE "done"
Commanding ==
  /\ pc = "command" /\ pc' = "waitdone" /\ UNCHANGED <<op, i, buffer, result>>

Moved ==
  /\ pc \in {"fill", "copy"} /\ i' = i + 1
  /\ buffer' = IF pc = "fill" THEN buffer ELSE [buffer EXCEPT ![i] = ahbls_hrdata]
  /\ pc' = IF i + 1 < BLOCKSIZE THEN pc ELSE IF pc = "fill" THEN "command" ELSE "done"
  /\ UNCHANGED <<op, result>>

(* A call with sectors left goes on with the next, which here may be any:  *)
(* it does not wait again before it fills the memory or commands.          *)
Continue ==
  /\ pc \in {"read", "write"}
  /\ op' \in {o \in Op : o.kind = pc}
  /\ pc' = IF pc = "read" THEN "command" ELSE "fill"
  /\ UNCHANGED <<i, buffer, result>>

Return ==
  /\ pc = "done" /\ pc' \in {"idle", op.kind} /\ op' = NoOp
  /\ result' = IF op.kind = "read" THEN buffer ELSE result
  /\ i' = 0 /\ UNCHANGED buffer

Between == {"idle", "read", "write", "done"}
Ended == ahbls_hready_resp /\ dphase # NoTransfer

DriverStep ==
  \/ ~Ended /\ (Start \/ Continue \/ Return)
  \/ Ended /\ (WaitNotBusy \/ Commanding \/ Moved)
  \/ ~Ended /\ UNCHANGED drvVars

Tick ==
  /\ DriverStep
  /\ ahbls_hready_resp =>
       dphase' \in {NoTransfer} \cup (IF pc' \in Between THEN {} ELSE {Access'})
  /\ BridgeTick(pready /\ dphase.dev = Sd, prdata)
  /\ HostTick(bus_write(Sd), bus_read(Sd), dphase.reg, apbm_pwdata)

Spec == Init /\ [][Tick]_vars

(* The clock runs, the card answers, and the driver goes on.               *)
FairSpec ==
  /\ Spec
  /\ WF_vars(Tick /\ <<cst, byte_counter>>' # <<cst, byte_counter>>)
  /\ WF_vars(Tick /\ <<apb_state, pc>>' # <<apb_state, pc>>)
  /\ []<><<TRUE>>_vars
-----------------------------------------------------------------------------
TypeOK ==
  /\ HostTypeOK
  /\ apb_state \in BridgeState /\ dphase \in Transfers \cup {NoTransfer}
  /\ op \in Op \cup {NoOp}
  /\ pc \in Between \cup {"wait", "command", "waitdone", "fill", "copy"}
  /\ i \in 0 .. BLOCKSIZE /\ buffer \in [Index -> Byte]

(* A command meets an idle machine and an idle controller: it is answered  *)
(* either way, so that one that did not would be lost unseen.              *)
NoCommandLost == ctrlstate \in {2, 12} => state = 0 /\ ~sd_busy

(* The two machines never want the block memory in the same cycle.         *)
OneMemoryUser ==
  /\ ~((mr1 \/ mw1) /\ mw2)
  /\ ~((mr1 \/ mw1) /\ state = 16)

(* The controller works on the block that was commanded last.              *)
AddressHeld ==
  cst \notin {"INIT", "IDLE", "IDLE2"} /\ (sdsrd \/ sdswr) => address = sdsbaddr

(* What every state of sd.v under mmcsd_read and mmcsd_write owes: ranges   *)
(* that no counter leaves (sd.v:273), no command lost, no two users of the *)
(* block memory, and the address held.                                     *)
Inv == TypeOK /\ NoCommandLost /\ OneMemoryUser /\ AddressHeld

(* The card and the driver are a disk: a block that the driver returns is  *)
(* the one of the card, whole, and a block that it wrote is on the card,   *)
(* unless the error bit of the status is set.                              *)
Disk == INSTANCE BlockDevice WITH
  disk <- card, error <- sd_error, Content <- [Block -> Content]
BlockSpec == Disk!Spec

(* Every read and write of a block returns, unless the card does not       *)
(* answer, or answers the command or the request for data with an error:   *)
(* then the host waits for a byte of a controller that waits for the host. *)
Stuck == cst = "NO_R1" \/ (sd_error /\ state \in {2, 12})
EveryOperationReturns == op # NoOp ~> (op = NoOp \/ Stuck)

(* nuttx-patch-12.8.0.patch:14221 "On success, return the number of        *)
(* sectors transfer": a read that returns has read the block.  It does not *)
(* hold: the driver masks the error bits of the status (:14138).           *)
ReadReturnsBlock ==
  pc = "done" /\ op.kind = "read" => buffer = card[op.block]
=============================================================================
