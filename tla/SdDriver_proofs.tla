--------------------------- MODULE SdDriver_proofs ---------------------------
(***************************************************************************)
(* The driver, the bridge, the SD card host and the controller: no command *)
(* is lost, the block memory has one user, and the blocks are moved whole, *)
(* for every size and number of blocks and every fault of the card.        *)
(***************************************************************************)
EXTENDS SdDriver, SequenceTheorems, TLAPS

(* The driver, and the access that it makes.                               *)
Polling == pc \in {"wait", "waitdone"}
DriverInv ==
  /\ pc \in Between \cup {"wait", "command", "waitdone", "fill", "copy"}
  /\ op \in Op \cup {NoOp}
  /\ op = NoOp <=> pc \in {"idle", "read", "write"}
  /\ i \in 0 .. BLOCKSIZE
  /\ pc = "fill" => i < BLOCKSIZE /\ op.kind = "write"
  /\ pc = "copy" => i < BLOCKSIZE /\ op.kind = "read"
  /\ pc \in {"read", "write"} => i = 0

AccessInv ==
  /\ apb_state \in {"IDLE", "RD0", "RD1", "RD2", "WR0", "WR1", "WR2", "WR3"}
  /\ apb_state = "IDLE" <=> dphase = NoTransfer
  /\ apb_state # "IDLE" => pc \notin Between /\ dphase = Access
  /\ apb_state \in {"RD0", "RD1", "RD2"} => pc \in {"wait", "waitdone", "copy"}
  /\ apb_state \in {"WR0", "WR1", "WR2", "WR3"} => pc \in {"command", "fill"}
  /\ apb_state = "WR1" => apbm_pwdata = dphase.data

(* The first machine of the host serves it.                                *)
ServeInv ==
  /\ apb_state \notin {"RD1", "WR2"} => ctrlstate = 0 /\ ~pready
  /\ apb_state = "WR2" =>
       \/ ctrlstate = 0 /\ pready
       \/ ctrlstate \in {5, 6} /\ ~pready /\ pc = "fill"
       \/ ctrlstate \in {2, 12} /\ ~pready /\ pc = "command"
  /\ apb_state = "RD1" =>
       \/ ctrlstate = 0
       \/ ctrlstate = 1 /\ ~pready /\ Polling
       \/ ctrlstate \in {15, 16} /\ ~pready /\ pc = "copy"
  /\ ctrlstate = 2 => op.kind = "read"
  /\ ctrlstate = 12 => op.kind = "write"
  /\ (mw1 => ctrlstate = 5) /\ (ctrlstate = 5 => mw1)
  /\ (mr1 => ctrlstate = 15) /\ (ctrlstate = 15 => mr1)
  /\ ctrlstate \in {5, 15} => maddr1 = i
  /\ ctrlstate = 5 => midata1 = op.data[i]
  /\ pc = "waitdone" \/ (pc = "command" /\ apb_state \in {"WR2", "WR3"})
       => sdsbaddr = op.block
PathInv == DriverInv /\ AccessInv /\ ServeInv
-----------------------------------------------------------------------------
LEMMA Size == BLOCKSIZE \in Nat /\ BLOCKSIZE > 0 /\ Index = 0 .. BLOCKSIZE - 1
BY SdAssumption DEF Index

LEMMA OpKind ==
  ASSUME NEW o \in Op
  PROVE  /\ o.kind \in {"read", "write"} /\ o.block \in Block /\ o # NoOp
         /\ o.kind = "write" => o.data \in [Index -> Byte]
BY DriverAssumption

LEMMA AccessKind ==
  ASSUME DriverInv, pc \notin Between
  PROVE  /\ Access \in Transfers /\ Access # NoTransfer /\ Access.dev = Sd
         /\ Polling => Access.reg = 0 /\ ~Access.write
         /\ pc = "command" => /\ Access.reg = IF op.kind = "read" THEN 0 ELSE 4
                              /\ Access.write /\ Access.data = op.block /\ op.block \in Block
         /\ pc = "fill" => /\ Access.reg = 8 + i /\ Access.write
                           /\ Access.data = op.data[i] /\ op.data[i] \in Byte
         /\ pc = "copy" => Access.reg = 8 + i /\ ~Access.write
<1>1. pc \in {"wait", "command", "waitdone", "fill", "copy"} /\ op \in Op
  BY DEF DriverInv, Between
<1>2. i \in Nat
  BY Size DEF DriverInv
<1>3. CASE Polling
  BY <1>1, <1>3, DriverAssumption DEF Polling, Access, Load, Transfers, RDBLK
<1>4. CASE pc = "command"
  <2>1. op.block \in Block /\ op.kind \in {"read", "write"}
    BY <1>1, OpKind
  <2>2. Access = Store(IF op.kind = "read" THEN RDBLK ELSE WRBLK, op.block)
    BY <1>4 DEF Access
  <2>3. Access \in Transfers
    <3>1. (IF op.kind = "read" THEN RDBLK ELSE WRBLK) \in {RDBLK, WRBLK}
      OBVIOUS
    <3>2. Access \in {Store(r, b) : r \in {RDBLK, WRBLK}, b \in Block}
      BY <2>1, <2>2, <3>1
    <3>. QED BY <3>2 DEF Transfers
  <2>. QED BY <1>4, <2>1, <2>2, <2>3, DriverAssumption DEF Polling, Store, RDBLK, WRBLK
<1>5. CASE pc = "fill"
  <2>1. op.data[i] \in Byte /\ i \in Index
    <3>1. op.kind = "write" /\ i \in Index
      BY <1>5, Size DEF DriverInv
    <3>2. op.data \in [Index -> Byte]
      BY <1>1, <3>1, OpKind
    <3>. QED BY <3>1, <3>2
  <2>2. Access = Store(BLOCKADDR + i, op.data[i])
    BY <1>5 DEF Access
  <2>3. Access \in Transfers
    <3>1. Access \in {Store(BLOCKADDR + j, v) : j \in Index, v \in Byte}
      BY <2>1, <2>2
    <3>. QED BY <3>1 DEF Transfers
  <2>. QED BY <1>5, <2>1, <2>2, <2>3, DriverAssumption DEF Polling, Store, BLOCKADDR
<1>6. CASE pc = "copy"
  <2>1. i \in Index
    BY <1>6, Size DEF DriverInv
  <2>2. Access = Load(BLOCKADDR + i)
    BY <1>6 DEF Access
  <2>3. Access \in Transfers
    BY <2>1, <2>2 DEF Transfers
  <2>. QED BY <1>6, <2>1, <2>2, <2>3, DriverAssumption DEF Polling, Load, BLOCKADDR
<1>. QED BY <1>1, <1>3, <1>4, <1>5, <1>6 DEF Polling

LEMMA AccessDirection ==
  DriverInv /\ pc \notin Between =>
    /\ Access # NoTransfer
    /\ Polling => ~Access.write
    /\ pc = "command" => Access.write
    /\ pc = "fill" => Access.write
    /\ pc = "copy" => ~Access.write
<1>. SUFFICES ASSUME DriverInv, pc \notin Between
              PROVE  /\ Access # NoTransfer
                     /\ Polling => ~Access.write
                     /\ pc = "command" => Access.write
                     /\ pc = "fill" => Access.write
                     /\ pc = "copy" => ~Access.write
  OBVIOUS
<1>. QED BY AccessKind

(* The driver rests while an access is under way.                          *)
LEMMA DriverRests ==
  ASSUME PathInv, Tick, apb_state \in {"RD0", "RD1", "WR0", "WR1", "WR2"}
  PROVE  UNCHANGED drvVars /\ dphase' = dphase /\ ~ahbls_hready_resp
<1>1. ~ahbls_hready_resp
  BY DEF ahbls_hready_resp
<1>2. pc \notin Between
  BY DEF PathInv, AccessInv
<1>3. UNCHANGED drvVars
  BY <1>1, <1>2 DEF Tick, DriverStep, Ended, Start, Continue, Return, Between
<1>4. dphase' = dphase
  BY <1>1 DEF Tick, BridgeTick
<1>. QED BY <1>1, <1>3, <1>4

(* An edge of the bridge, by its state.                                    *)
LEMMA BridgeEdge ==
  ASSUME PathInv, Tick
  PROVE  /\ apb_state = "RD0" => apb_state' = "RD1"
         /\ apb_state = "WR0" => apb_state' = "WR1" /\ apbm_pwdata' = dphase.data
         /\ apb_state = "WR1" => apb_state' = "WR2"
         /\ apb_state = "RD1" => apb_state' = IF pready THEN "RD2" ELSE "RD1"
         /\ apb_state = "RD1" /\ pready => ahbls_hrdata' = prdata
         /\ apb_state = "WR2" => apb_state' = IF pready THEN "WR3" ELSE "WR2"
         /\ apb_state \in {"IDLE", "RD2", "WR3"} =>
              /\ dphase' \in {NoTransfer} \cup (IF pc' \in Between THEN {} ELSE {Access'})
              /\ apb_state' = IF dphase' = NoTransfer THEN "IDLE"
                              ELSE IF dphase'.write THEN "WR0" ELSE "RD0"
<1>1. BridgeTick(pready /\ dphase.dev = Sd, prdata)
  BY DEF Tick
<1>2. apb_state \in {"IDLE", "RD2", "WR3"} <=> ahbls_hready_resp
  BY DEF PathInv, AccessInv, ahbls_hready_resp
<1>3. apb_state # "IDLE" => dphase.dev = Sd /\ dphase.dev # NoDevice
  BY AccessKind, DriverAssumption DEF PathInv, AccessInv
<1>4. CASE ahbls_hready_resp
  <2>1. setup
    BY <1>1, <1>4 DEF BridgeTick
  <2>2. apb_state' = IF dphase' = NoTransfer THEN "IDLE"
                     ELSE IF dphase'.write THEN "WR0" ELSE "RD0"
    BY <2>1 DEF setup
  <2>3. dphase' \in {NoTransfer} \cup (IF pc' \in Between THEN {} ELSE {Access'})
    BY <1>4 DEF Tick
  <2>. QED BY <1>2, <1>4, <2>2, <2>3
<1>5. CASE ~ahbls_hready_resp
  <2>1. apb_state' = AfterCycle(pready /\ dphase.dev = Sd)
    BY <1>1, <1>5 DEF BridgeTick
  <2>2. apb_state = "WR0" => apbm_pwdata' = dphase.data
    BY <1>1 DEF BridgeTick
  <2>3. apb_state \in {"RD1", "WR2"} =>
          (apbs_pready(pready /\ dphase.dev = Sd) <=> pready)
    BY <1>3 DEF apbs_pready
  <2>4. apb_state = "RD1" => apb_state' = IF pready THEN "RD2" ELSE "RD1"
    BY <1>3, <2>1, <2>3 DEF AfterCycle, Answered
  <2>5. apb_state = "WR2" => apb_state' = IF pready THEN "WR3" ELSE "WR2"
    BY <1>3, <2>1, <2>3 DEF AfterCycle, Answered
  <2>6. apb_state = "RD1" /\ pready => ahbls_hrdata' = prdata
    BY <1>1, <1>3, <2>3 DEF BridgeTick
  <2>7. apb_state \in {"RD0", "WR0", "WR1"} =>
          apb_state' = CASE apb_state = "RD0" -> "RD1" [] apb_state = "WR0" -> "WR1"
                         [] apb_state = "WR1" -> "WR2"
    BY <2>1 DEF AfterCycle
  <2>. QED BY <1>2, <1>5, <2>2, <2>4, <2>5, <2>6, <2>7
<1>. QED BY <1>4, <1>5

(* The driver keeps its invariant.                                         *)
LEMMA DriverKept ==
  ASSUME PathInv, Tick
  PROVE  DriverInv'
<1>1. DriverInv
  BY DEF PathInv
<1>. USE Size DEF Between
<1>2. CASE Start
  BY <1>1, <1>2, DriverAssumption DEF Start, DriverInv
<1>3. CASE Continue
  BY <1>1, <1>3, DriverAssumption DEF Continue, DriverInv
<1>4. CASE Return
  <2>1. op \in Op /\ op.kind \in {"read", "write"}
    <3>1. op \in Op
      BY <1>1, <1>4 DEF Return, DriverInv
    <3>. QED BY <3>1, OpKind
  <2>2. pc' \in {"idle", "read", "write"} /\ op' = NoOp /\ i' = 0
    BY <1>4, <2>1 DEF Return
  <2>. QED BY <2>2 DEF DriverInv
<1>5. CASE WaitNotBusy
  <2>1. op \in Op /\ op # NoOp /\ op.kind \in {"read", "write"}
    <3>1. op \in Op
      BY <1>1, <1>5 DEF WaitNotBusy, DriverInv
    <3>. QED BY <3>1, OpKind
  <2>2. /\ op' = op /\ i' = 0 /\ pc' \in {"wait", "waitdone", "command", "fill", "copy", "done"}
        /\ pc' = "fill" => op.kind = "write"
        /\ pc' = "copy" => op.kind = "read"
    BY <1>5, <2>1 DEF WaitNotBusy
  <2>. QED BY <2>1, <2>2 DEF DriverInv
<1>6. CASE Commanding
  BY <1>1, <1>6, DriverAssumption DEF Commanding, DriverInv
<1>7. CASE Moved
  BY <1>1, <1>7, DriverAssumption DEF Moved, DriverInv
<1>8. CASE UNCHANGED drvVars
  BY <1>1, <1>8 DEF drvVars, DriverInv
<1>. QED BY <1>2, <1>3, <1>4, <1>5, <1>6, <1>7, <1>8 DEF Tick, DriverStep

LEMMA AccessKept ==
  ASSUME PathInv, Tick
  PROVE  AccessInv'
<1>1. AccessInv /\ DriverInv'
  BY DriverKept DEF PathInv
<1>2. CASE apb_state \in {"RD0", "RD1", "WR0", "WR1", "WR2"}
  <2>1. UNCHANGED drvVars /\ dphase' = dphase
    BY <1>2, DriverRests
  <2>2. UNCHANGED <<pc, op, i>> /\ Access' = Access
    BY <2>1 DEF drvVars, Access
  <2>3. apb_state' \in {"RD1", "RD2", "WR1", "WR2", "WR3"}
    BY <1>2, BridgeEdge
  <2>4. apb_state' \in {"RD1", "RD2"} <=> apb_state \in {"RD0", "RD1"}
    BY <1>2, BridgeEdge
  <2>5. apb_state' = "WR1" => apbm_pwdata' = dphase'.data
    BY <1>2, <2>1, BridgeEdge
  <2>. QED BY <1>1, <1>2, <2>1, <2>2, <2>3, <2>4, <2>5 DEF AccessInv
<1>3. CASE apb_state \in {"IDLE", "RD2", "WR3"}
  <2>1. /\ dphase' \in {NoTransfer} \cup (IF pc' \in Between THEN {} ELSE {Access'})
        /\ apb_state' = IF dphase' = NoTransfer THEN "IDLE"
                        ELSE IF dphase'.write THEN "WR0" ELSE "RD0"
    BY <1>3, BridgeEdge
  <2>2. CASE dphase' = NoTransfer
    BY <2>1, <2>2 DEF AccessInv
  <2>3. CASE dphase' # NoTransfer
    <3>1. pc' \notin Between /\ dphase' = Access'
      BY <2>1, <2>3
    <3>2. (DriverInv /\ pc \notin Between =>
             /\ Access # NoTransfer
             /\ Polling => ~Access.write
             /\ pc = "command" => Access.write
             /\ pc = "fill" => Access.write
             /\ pc = "copy" => ~Access.write)'
      BY AccessDirection, PTL
    <3>3. pc' \in {"wait", "command", "waitdone", "fill", "copy"}
      BY <1>1, <3>1 DEF DriverInv, Between
    <3>4. CASE dphase'.write
      <4>1. apb_state' = "WR0" /\ pc' \in {"command", "fill"}
        BY <1>1, <2>1, <2>3, <3>1, <3>2, <3>3, <3>4 DEF Polling
      <4>. QED BY <2>3, <3>1, <4>1 DEF AccessInv
    <3>5. CASE ~dphase'.write
      <4>1. apb_state' = "RD0" /\ pc' \in {"wait", "waitdone", "copy"}
        BY <1>1, <2>1, <2>3, <3>1, <3>2, <3>3, <3>5 DEF Polling
      <4>. QED BY <2>3, <3>1, <4>1 DEF AccessInv
    <3>. QED BY <3>4, <3>5
  <2>. QED BY <2>2, <2>3
<1>. QED BY <1>1, <1>2, <1>3 DEF AccessInv

LEMMA Offers ==
  ASSUME PathInv
  PROVE  /\ bus_write(Sd) <=> apb_state = "WR1"
         /\ bus_read(Sd) <=> apb_state = "RD1"
<1>1. apb_state # "IDLE" => dphase = Access /\ pc \notin Between /\ dphase.dev = Sd
  BY AccessKind DEF PathInv, AccessInv
<1>2. CASE apb_state = "WR1"
  <2>1. pc \in {"command", "fill"}
    BY <1>2 DEF PathInv, AccessInv
  <2>2. dphase.write
    BY <1>1, <1>2, <2>1, AccessKind DEF PathInv
  <2>. QED BY <1>1, <1>2, <2>2 DEF bus_write, bus_read, Offered
<1>3. CASE apb_state = "RD1"
  <2>1. pc \in {"wait", "waitdone", "copy"}
    BY <1>3 DEF PathInv, AccessInv
  <2>2. ~dphase.write
    BY <1>1, <1>3, <2>1, AccessKind DEF PathInv, Polling
  <2>. QED BY <1>1, <1>3, <2>2 DEF bus_write, bus_read, Offered
<1>. QED BY <1>2, <1>3 DEF bus_write, bus_read, Offered

(* An edge of the first machine, by what it sees.                          *)
LEMMA WhenServing ==
  ASSUME PathInv, Tick, ctrlstate # 0
  PROVE  /\ ctrlstate' = CASE ctrlstate = 5 -> 6 [] ctrlstate = 15 -> 16 [] OTHER -> 0
         /\ ctrlstate \notin {5, 15} => pready'
         /\ ctrlstate \in {5, 15} => ~pready'
         /\ ctrlstate = 1 => prdata' = sdspi_status
         /\ ctrlstate = 16 => prdata' = mout
         /\ ctrlstate \notin {1, 16} => prdata' = prdata
         /\ ~mw1' /\ ~mr1' /\ UNCHANGED <<maddr1, midata1, sdsbaddr>>
<1>1. Serve
  BY DEF Tick, HostTick, Idle
<1>2. /\ (mw1 => ctrlstate = 5) /\ (mr1 => ctrlstate = 15)
  BY DEF PathInv, ServeInv
<1>3. ~mw1' /\ ~mr1'
  BY <1>1, <1>2 DEF Serve
<1>4. ctrlstate \notin {5, 15} => pready'
  BY <1>1 DEF Serve
<1>5. ctrlstate \in {5, 15} => ~pready'
  BY <1>1 DEF Serve
<1>6. /\ ctrlstate' = CASE ctrlstate = 5 -> 6 [] ctrlstate = 15 -> 16 [] OTHER -> 0
      /\ UNCHANGED <<maddr1, midata1, sdsbaddr>>
  BY <1>1 DEF Serve
<1>7. prdata' = CASE ctrlstate = 1 -> sdspi_status [] ctrlstate = 16 -> mout
               [] OTHER -> prdata
  BY <1>1 DEF Serve
<1>. QED BY <1>3, <1>4, <1>5, <1>6, <1>7

LEMMA WhenIdle ==
  ASSUME PathInv, Tick, ctrlstate = 0, pready \/ apb_state \notin {"RD1", "WR1"}
  PROVE  /\ ctrlstate' = 0 /\ ~pready' /\ prdata' = prdata
         /\ ~mw1' /\ ~mr1' /\ UNCHANGED <<maddr1, midata1, sdsbaddr>>
<1>1. Idle(bus_write(Sd), bus_read(Sd), dphase.reg, apbm_pwdata)
  BY DEF Tick, HostTick, Serve
<1>2. ~mw1 /\ ~mr1
  BY DEF PathInv, ServeInv
<1>3. pready \/ ~(bus_write(Sd) \/ bus_read(Sd))
  BY Offers
<1>. QED BY <1>1, <1>2, <1>3 DEF Idle

LEMMA WhenWritten ==
  ASSUME PathInv, Tick, apb_state = "WR1"
  PROVE  /\ ~pready' /\ ~mr1' /\ prdata' = prdata
         /\ pc = "command" =>
              /\ ctrlstate' = IF op.kind = "read" THEN 2 ELSE 12
              /\ sdsbaddr' = op.block /\ ~mw1'
              /\ UNCHANGED <<maddr1, midata1>>
         /\ pc = "fill" =>
              /\ ctrlstate' = 5 /\ mw1' /\ maddr1' = i /\ midata1' = op.data[i]
              /\ sdsbaddr' = sdsbaddr
<1>1. /\ ctrlstate = 0 /\ ~pready /\ pc \in {"command", "fill"}
      /\ dphase = Access /\ apbm_pwdata = Access.data /\ pc \notin Between
      /\ ~mw1 /\ ~mr1 /\ i \in Nat
  BY Size DEF PathInv, ServeInv, AccessInv, DriverInv
<1>2. bus_write(Sd) /\ ~bus_read(Sd)
  BY Offers
<1>3. Idle(bus_write(Sd), bus_read(Sd), dphase.reg, apbm_pwdata)
  BY <1>1 DEF Tick, HostTick, Serve
<1>4. ~pready'
  BY <1>3 DEF Idle
<1>5. CASE pc = "command"
  <2>1. /\ dphase.reg = IF op.kind = "read" THEN 0 ELSE 4
        /\ apbm_pwdata = op.block
    BY <1>1, <1>5, AccessKind DEF PathInv
  <2>2. /\ dphase.reg < 8 /\ ~(dphase.reg >= 8)
        /\ (IF dphase.reg = 0 THEN 2 ELSE IF dphase.reg = 4 THEN 12 ELSE 0)
             = IF op.kind = "read" THEN 2 ELSE 12
    BY <2>1
  <2>3. /\ sdsbaddr' = apbm_pwdata
        /\ ctrlstate' = IF dphase.reg = 0 THEN 2 ELSE IF dphase.reg = 4 THEN 12 ELSE 0
        /\ UNCHANGED <<prdata, maddr1, midata1, mw1, mr1>>
    BY <1>1, <1>2, <1>3, <2>2 DEF Idle, RDBLK, WRBLK, BLOCKADDR
  <2>. QED BY <1>1, <1>4, <1>5, <2>1, <2>2, <2>3
<1>6. CASE pc = "fill"
  <2>1. dphase.reg = 8 + i /\ apbm_pwdata = op.data[i]
    BY <1>1, <1>6, AccessKind DEF PathInv
  <2>2. ~(dphase.reg < 8) /\ dphase.reg >= 8 /\ dphase.reg - 8 = i
    BY <1>1, <2>1
  <2>3. /\ ctrlstate' = 5
        /\ midata1' = apbm_pwdata /\ maddr1' = dphase.reg - 8 /\ mw1' = TRUE
        /\ UNCHANGED <<prdata, mr1, sdsbaddr>>
    BY <1>1, <1>2, <1>3, <2>2 DEF Idle, BLOCKADDR
  <2>. QED BY <1>1, <1>4, <1>6, <2>1, <2>2, <2>3
<1>. QED BY <1>1, <1>5, <1>6

LEMMA WhenRead ==
  ASSUME PathInv, Tick, apb_state = "RD1", ctrlstate = 0, ~pready
  PROVE  /\ ~pready' /\ ~mw1' /\ sdsbaddr' = sdsbaddr
         /\ Polling => ctrlstate' = 1 /\ ~mr1'
         /\ pc = "copy" => ctrlstate' = 15 /\ mr1' /\ maddr1' = i
<1>1. /\ pc \in {"wait", "waitdone", "copy"} /\ dphase = Access /\ pc \notin Between
      /\ ~mw1 /\ ~mr1 /\ i \in Nat
  BY Size DEF PathInv, ServeInv, AccessInv, DriverInv
<1>2. ~bus_write(Sd) /\ bus_read(Sd)
  BY Offers
<1>3. Idle(bus_write(Sd), bus_read(Sd), dphase.reg, apbm_pwdata)
  BY <1>1 DEF Tick, HostTick, Serve
<1>4. ~pready'
  BY <1>3 DEF Idle
<1>5. CASE Polling
  <2>1. dphase.reg = 0
    BY <1>1, <1>5, AccessKind DEF PathInv
  <2>2. dphase.reg < 8 /\ ~(dphase.reg >= 8)
    BY <2>1
  <2>3. ctrlstate' = 1 /\ UNCHANGED <<prdata, maddr1, midata1, mw1, mr1, sdsbaddr>>
    BY <1>2, <1>3, <2>2 DEF Idle, BLOCKADDR
  <2>. QED BY <1>1, <1>4, <1>5, <2>3 DEF Polling
<1>6. CASE pc = "copy"
  <2>1. dphase.reg = 8 + i
    BY <1>1, <1>6, AccessKind DEF PathInv
  <2>2. ~(dphase.reg < 8) /\ dphase.reg >= 8 /\ dphase.reg - 8 = i
    BY <1>1, <2>1
  <2>3. /\ ctrlstate' = 15 /\ maddr1' = dphase.reg - 8 /\ mr1' = TRUE
        /\ UNCHANGED <<midata1, mw1, sdsbaddr>>
    BY <1>2, <1>3, <2>2 DEF Idle, BLOCKADDR
  <2>. QED BY <1>1, <1>4, <1>6, <2>2, <2>3 DEF Polling
<1>. QED BY <1>1, <1>5, <1>6 DEF Polling

LEMMA ServeKept ==
  ASSUME PathInv, Tick
  PROVE  ServeInv'
<1>1. /\ DriverInv' /\ AccessInv' /\ ServeInv /\ AccessInv
  BY DriverKept, AccessKept DEF PathInv
<1>2. CASE apb_state \in {"IDLE", "RD2", "WR3"}
  <2>1. /\ ctrlstate' = 0 /\ ~pready' /\ ~mw1' /\ ~mr1' /\ sdsbaddr' = sdsbaddr
    BY <1>1, <1>2, WhenIdle DEF ServeInv
  <2>2. apb_state' \in {"IDLE", "WR0", "RD0"}
    BY <1>2, BridgeEdge
  <2>3. pc' = "waitdone" => sdsbaddr' = op'.block
    <3>1. CASE apb_state = "IDLE"
      <4>1. ~Ended
        BY <1>1, <3>1 DEF AccessInv, Ended
      <4>2. pc' = "waitdone" => pc = "waitdone" /\ op' = op
        <5>1. CASE Start BY <5>1 DEF Start
        <5>2. CASE Continue BY <5>2 DEF Continue
        <5>3. CASE Return
          <6>1. op \in Op
            BY <5>3 DEF Return, PathInv, DriverInv
          <6>. QED BY <5>3, <6>1, OpKind DEF Return
        <5>4. CASE UNCHANGED drvVars BY <5>4 DEF drvVars
        <5>. QED BY <4>1, <5>1, <5>2, <5>3, <5>4 DEF Tick, DriverStep
      <4>. QED BY <1>1, <2>1, <4>2 DEF ServeInv
    <3>2. CASE apb_state # "IDLE"
      <4>1. Ended
        BY <1>1, <1>2, <3>2 DEF AccessInv, Ended, ahbls_hready_resp
      <4>2. pc' = "waitdone" =>
              op' = op /\ (pc = "waitdone" \/ (pc = "command" /\ apb_state = "WR3"))
        <5>1. CASE WaitNotBusy BY <5>1 DEF WaitNotBusy
        <5>2. CASE Commanding BY <1>1, <1>2, <3>2, <5>2 DEF Commanding, AccessInv
        <5>3. CASE Moved BY <5>3 DEF Moved
        <5>. QED BY <4>1, <5>1, <5>2, <5>3 DEF Tick, DriverStep
      <4>. QED BY <1>1, <2>1, <4>2 DEF ServeInv
    <3>. QED BY <3>1, <3>2
  <2>. QED BY <2>1, <2>2, <2>3 DEF ServeInv
<1>3. CASE apb_state \notin {"IDLE", "RD2", "WR3"}
  <2>1. pc' = pc /\ op' = op /\ i' = i /\ (Polling' <=> Polling)
    BY <1>1, <1>3, DriverRests DEF AccessInv, drvVars, Polling
  <2>2. CASE apb_state \in {"RD0", "WR0"}
    <3>1. /\ ctrlstate' = 0 /\ ~pready' /\ ~mw1' /\ ~mr1' /\ sdsbaddr' = sdsbaddr
      BY <1>1, <2>2, WhenIdle DEF ServeInv
    <3>2. apb_state' \in {"RD1", "WR1"}
      BY <2>2, BridgeEdge
    <3>. QED BY <1>1, <2>1, <3>1, <3>2 DEF ServeInv
  <2>3. CASE apb_state = "WR1"
    <3>1. apb_state' = "WR2" /\ pc \in {"command", "fill"} /\ op \in Op /\ pc # "waitdone"
      BY <1>1, <2>3, BridgeEdge DEF AccessInv, PathInv, DriverInv
    <3>2. op.kind \in {"read", "write"}
      BY <3>1, OpKind
    <3>3. CASE pc = "command"
      BY <2>1, <2>3, <3>1, <3>2, <3>3, WhenWritten DEF ServeInv
    <3>4. CASE pc = "fill"
      <4>1. /\ ~pready' /\ ~mr1' /\ ctrlstate' = 5 /\ mw1' /\ maddr1' = i
            /\ midata1' = op.data[i]
        BY <2>3, <3>4, WhenWritten
      <4>. QED BY <2>1, <3>1, <3>4, <4>1 DEF ServeInv
    <3>. QED BY <3>1, <3>3, <3>4
  <2>4. CASE apb_state = "WR2"
    <3>0. pc # "waitdone" /\ (pc = "command" => sdsbaddr = op.block)
      BY <1>1, <2>4 DEF AccessInv, ServeInv
    <3>1. CASE ctrlstate = 0
      <4>1. /\ ctrlstate' = 0 /\ ~pready' /\ ~mw1' /\ ~mr1' /\ sdsbaddr' = sdsbaddr
        BY <1>1, <2>4, <3>1, WhenIdle
      <4>2. apb_state' = "WR3"
        BY <1>1, <2>4, <3>1, BridgeEdge DEF ServeInv
      <4>. QED BY <2>1, <3>0, <4>1, <4>2 DEF ServeInv
    <3>2. CASE ctrlstate # 0
      <4>1. apb_state' = "WR2" /\ ctrlstate \in {5, 6, 2, 12}
        BY <1>1, <2>4, <3>2, BridgeEdge DEF ServeInv
      <4>2. /\ ctrlstate' = IF ctrlstate = 5 THEN 6 ELSE 0
            /\ ~mw1' /\ ~mr1' /\ sdsbaddr' = sdsbaddr
            /\ ctrlstate # 5 => pready'
            /\ ctrlstate = 5 => ~pready'
        BY <3>2, <4>1, WhenServing
      <4>3. ctrlstate = 5 => pc = "fill"
        BY <1>1, <2>4 DEF ServeInv
      <4>. QED BY <2>1, <3>0, <4>1, <4>2, <4>3 DEF ServeInv
    <3>. QED BY <3>1, <3>2
  <2>5. CASE apb_state = "RD1"
    <3>0. pc \in {"wait", "waitdone", "copy"} /\ (pc = "waitdone" => sdsbaddr = op.block)
      BY <1>1, <2>5 DEF AccessInv, ServeInv
    <3>1. CASE ctrlstate = 0 /\ pready
      <4>1. /\ ctrlstate' = 0 /\ ~pready' /\ ~mw1' /\ ~mr1' /\ sdsbaddr' = sdsbaddr
        BY <2>5, <3>1, WhenIdle
      <4>2. apb_state' = "RD2"
        BY <2>5, <3>1, BridgeEdge
      <4>. QED BY <2>1, <3>0, <4>1, <4>2 DEF ServeInv
    <3>2. CASE ctrlstate = 0 /\ ~pready
      <4>1. apb_state' = "RD1"
        BY <2>5, <3>2, BridgeEdge
      <4>2. CASE Polling
        <5>1. ctrlstate' = 1 /\ ~pready' /\ ~mw1' /\ ~mr1' /\ sdsbaddr' = sdsbaddr
          BY <2>5, <3>2, <4>2, WhenRead
        <5>. QED BY <2>1, <3>0, <4>1, <4>2, <5>1 DEF ServeInv
      <4>3. CASE pc = "copy"
        <5>1. ctrlstate' = 15 /\ ~pready' /\ ~mw1' /\ mr1' /\ maddr1' = i
          BY <2>5, <3>2, <4>3, WhenRead
        <5>. QED BY <2>1, <4>1, <4>3, <5>1 DEF ServeInv
      <4>. QED BY <3>0, <4>2, <4>3 DEF Polling
    <3>3. CASE ctrlstate # 0
      <4>1. apb_state' = "RD1" /\ ctrlstate \in {1, 15, 16}
        BY <1>1, <2>5, <3>3, BridgeEdge DEF ServeInv
      <4>2. /\ ctrlstate' = IF ctrlstate = 15 THEN 16 ELSE 0
            /\ ~mw1' /\ ~mr1' /\ sdsbaddr' = sdsbaddr
            /\ ctrlstate = 15 => ~pready'
        BY <3>3, <4>1, WhenServing
      <4>3. ctrlstate = 15 => pc = "copy"
        BY <1>1, <2>5 DEF ServeInv
      <4>. QED BY <2>1, <3>0, <4>1, <4>2, <4>3 DEF ServeInv
    <3>. QED BY <3>1, <3>2, <3>3
  <2>. QED BY <1>1, <1>3, <2>2, <2>3, <2>4, <2>5 DEF AccessInv
<1>. QED BY <1>2, <1>3

LEMMA PathKept == PathInv /\ [Tick]_vars => PathInv'
<1>1. ASSUME PathInv, Tick PROVE PathInv'
  BY <1>1, DriverKept, AccessKept, ServeKept DEF PathInv
<1>2. ASSUME PathInv, UNCHANGED vars PROVE PathInv'
  <2>1. /\ UNCHANGED <<pc, op, i, apb_state, dphase, apbm_pwdata, ctrlstate, pready,
                       mw1, mr1, maddr1, midata1, sdsbaddr>>
        /\ Access' = Access /\ Polling' = Polling
    BY <1>2 DEF vars, bridgeVars, hostVars, busVars, drvVars, Access, Polling
  <2>2. DriverInv' /\ AccessInv'
    BY <1>2, <2>1 DEF PathInv, DriverInv, AccessInv
  <2>3. ServeInv'
    BY <1>2, <2>1 DEF PathInv, ServeInv
  <2>. QED BY <2>2, <2>3 DEF PathInv
<1>. QED BY <1>1, <1>2

LEMMA PathInit == Init => PathInv
<1>. SUFFICES ASSUME Init PROVE PathInv
  OBVIOUS
<1>1. DriverInv /\ AccessInv
  BY Size DEF Init, BridgeInit, DriverInv, AccessInv, Between
<1>2. ServeInv
  BY DEF Init, BridgeInit, HostInit, ServeInv
<1>. QED BY <1>1, <1>2 DEF PathInv

-----------------------------------------------------------------------------
(* The second machine of the host and the controller, hand in hand.        *)
Quiet   == state = 0 /\ ~sd_busy
Resting == ~sdsrd /\ ~sdsdout_taken /\ ~mw2 /\ ~dout_avail
NoDin   == ~sdsdin_valid /\ ~last_din_valid /\ ~din_latch /\ ~din_taken
Mute    == ~sdswr /\ NoDin
Ready   == cst = "IDLE2" /\ ~sd_busy
Free(S) == cst \in S /\ (~sd_busy => cst = "IDLE2")

(* k bytes of the block have been handed to the host.                      *)
CardSent(k) ==
  /\ cst \in {"READ_DATA", "READ_CRC", "READ_FINISH"} /\ sd_busy
  /\ byte_counter = BLOCKSIZE - k
  /\ cst = "READ_DATA" <=> k # BLOCKSIZE
  /\ cst # "READ_FINISH" => ~sd_error

(* k bytes of the block have been taken from the host.                     *)
Late == {"WRITE_BYTE", "WRITE_DATA", "WRITE_RESPONSE", "WRITE_WAIT", "WRITE_FINISH"}
CardGot(k) ==
  /\ cst \in Late /\ sd_busy /\ Len(wbuf) = k /\ ~corrupt
  /\ byte_counter = IF cst = "WRITE_BYTE" THEN BLOCKSIZE - k + 1 ELSE BLOCKSIZE - k
  /\ cst = "WRITE_BYTE" => k > 0
  /\ cst \notin {"WRITE_BYTE", "WRITE_DATA"} => k = BLOCKSIZE
  /\ cst \notin {"WRITE_WAIT", "WRITE_FINISH"} => ~sd_error

InIdle  == Resting /\ Mute /\ Free({"INIT", "IDLE", "IDLE2", "NO_R1"})
InStart == Resting /\ Mute /\ Ready /\ oecnt = 0
InRead  ==
  /\ Mute /\ sdsrd /\ ~sdsdout_taken /\ ~mw2 /\ oecnt < BLOCKSIZE
  /\ \/ Ready /\ oecnt = 0 /\ ~dout_avail
     \/ /\ cst \in {"READ_CMD", "READ_WAIT"} /\ sd_busy /\ ~sd_error /\ ~dout_avail
        /\ oecnt = 0 /\ (cst = "READ_WAIT" => byte_counter = BLOCKSIZE)
     \/ ~dout_avail /\ CardSent(oecnt)
     \/ dout_avail /\ CardSent(oecnt + 1) /\ ~sd_error
     \/ cst \in {"READ_FINISH", "NO_R1"} /\ sd_busy /\ sd_error /\ ~dout_avail
InPut ==
  /\ Mute /\ sdsrd /\ ~sdsdout_taken /\ ~mw2 /\ dout_avail /\ oecnt < BLOCKSIZE
  /\ CardSent(oecnt + 1)
InNext ==
  /\ Mute
  /\ \/ sdsrd /\ sdsdout_taken /\ CardSent(oecnt) /\ oecnt > 0
     \/ /\ Resting /\ oecnt = BLOCKSIZE
        /\ CardSent(oecnt) \/ Free({"IDLE", "IDLE2"})
InFetch ==
  /\ Resting /\ NoDin
  /\ \/ oecnt = 0 /\ ~sdswr /\ Ready
     \/ oecnt > 0 /\ sdswr /\ CardGot(oecnt)
     \/ /\ oecnt = BLOCKSIZE /\ ~sdswr
        /\ CardGot(oecnt) \/ Free({"IDLE", "IDLE2"})
InOffer ==
  /\ Resting /\ sdswr /\ sdsdin_valid /\ oecnt < BLOCKSIZE
  /\ \/ din_taken /\ last_din_valid /\ ~din_latch /\ CardGot(oecnt + 1)
     \/ /\ ~din_taken /\ (last_din_valid <=> din_latch)
        /\ \/ oecnt = 0 /\ Ready
           \/ oecnt = 0 /\ cst = "WRITE_CMD" /\ sd_busy /\ ~sd_error
           \/ cst \in {"WRITE_FINISH", "NO_R1"} /\ sd_busy /\ sd_error
           \/ cst \in {"WRITE_BYTE", "WRITE_DATA"} /\ CardGot(oecnt)
InTaken ==
  /\ Resting /\ sdswr /\ ~sdsdin_valid /\ ~din_latch /\ oecnt < BLOCKSIZE
  /\ din_taken <=> last_din_valid
  /\ CardGot(oecnt + 1)

MoveInv ==
  /\ state \in {0, 1, 2, 3, 4, 10, 11, 12, 13, 16} /\ oecnt \in 0 .. BLOCKSIZE
  /\ state = 0 => InIdle
  /\ state = 1 => InStart
  /\ state = 2 => InRead
  /\ state = 3 => InPut
  /\ state = 4 => InNext
  /\ state \in {10, 11, 16} => InFetch
  /\ state \in {11, 16} => oecnt < BLOCKSIZE
  /\ state = 12 => InOffer
  /\ state = 13 => InTaken


(* An edge of the controller: its flags, and its state.                    *)
LEMMA CtrlFlags ==
  ASSUME Tick
  PROVE  /\ sd_busy' <=> ~(cst = "IDLE2" /\ ~sdsrd /\ ~sdswr)
         /\ dout_avail' <=> \/ cst = "READ_DATA" /\ sdsrd /\ byte_counter' # byte_counter
                            \/ dout_avail /\ ~sdsdout_taken
         /\ last_din_valid' <=> sdsdin_valid
         /\ din_latch' <=> /\ sdsdin_valid /\ sdswr
                           /\ ~last_din_valid \/ (din_latch /\ ~TakeByte(sdswr))
         /\ din_taken' <=> /\ sdsdin_valid /\ sdswr /\ last_din_valid
                           /\ din_taken \/ TakeByte(sdswr)
<1>1. CtrlTick(sdsrd, sdswr, sdsbaddr, sdsdin, sdsdin_valid, sdsdout_taken)
  BY DEF Tick, HostTick
<1>2. DinTick(sdswr, sdsdin_valid)
  BY <1>1 DEF CtrlTick
<1>3. sd_busy' <=> ~(cst = "IDLE2" /\ ~sdsrd /\ ~sdswr)
  BY <1>1 DEF CtrlTick
<1>4. dout_avail' <=> \/ cst = "READ_DATA" /\ sdsrd /\ byte_counter' # byte_counter
                      \/ dout_avail /\ ~sdsdout_taken
  <2>1. dout_avail' = (\/ cst = "READ_DATA" /\ sdsrd /\ byte_counter' # byte_counter
                       \/ dout_avail /\ ~sdsdout_taken)
    BY <1>1 DEF CtrlTick
  <2>. QED BY <2>1, Zenon
<1>5. last_din_valid' <=> sdsdin_valid
  <2>1. last_din_valid' = sdsdin_valid
    BY <1>2 DEF DinTick
  <2>. QED BY <2>1
<1>. DEFINE take == TakeByte(sdswr)
<1>6. /\ din_latch' = (~(~sdsdin_valid \/ ~sdswr)
                        /\ ((sdsdin_valid /\ ~last_din_valid) \/ (din_latch /\ ~take)))
      /\ din_taken' = (~(~sdsdin_valid \/ ~sdswr)
                        /\ ~(sdsdin_valid /\ ~last_din_valid) /\ (din_taken \/ take))
  BY <1>2 DEF DinTick
<1>. HIDE DEF take
<1>7. din_latch' <=> /\ sdsdin_valid /\ sdswr
                     /\ ~last_din_valid \/ (din_latch /\ ~take)
  BY <1>6
<1>8. din_taken' <=> sdsdin_valid /\ sdswr /\ last_din_valid /\ (din_taken \/ take)
  BY <1>6
<1>. QED BY <1>3, <1>4, <1>5, <1>7, <1>8 DEF take

Kept == Keep /\ sd_error' = sd_error /\ dout' = dout

LEMMA CtrlMove ==
  ASSUME Tick
  PROVE  /\ cst = "INIT" => /\ cst' \in {"INIT", "IDLE", "NO_R1"} /\ Keep /\ dout' = dout
         /\ cst = "IDLE" => cst' \in {"IDLE", "IDLE2"} /\ Kept
         /\ cst = "IDLE2" =>
              IF sdsrd \/ sdswr
              THEN /\ cst' = IF sdsrd THEN "READ_CMD" ELSE "WRITE_CMD"
                   /\ ~sd_error' /\ address' = sdsbaddr
                   /\ UNCHANGED <<byte_counter, corrupt, wbuf, card, dout>>
              ELSE cst' = "IDLE2" /\ Kept
         /\ cst = "NO_R1" => cst' = "NO_R1" /\ Kept
         /\ cst \in {"READ_CMD", "WRITE_CMD"} =>
              /\ address' = address /\ card' = card /\ dout' = dout
              /\ \/ cst' = cst /\ Kept
                 \/ /\ cst' = IF cst = "READ_CMD" THEN "READ_WAIT" ELSE "WRITE_DATA"
                    /\ sd_error' = sd_error
                    /\ byte_counter' = BLOCKSIZE /\ ~corrupt' /\ wbuf' = <<>>
                 \/ /\ cst' \in {IF cst = "READ_CMD" THEN "READ_FINISH" ELSE "WRITE_FINISH",
                                 "NO_R1"}
                    /\ sd_error' /\ Keep
         /\ cst = "READ_WAIT" /\ sdsrd =>
              /\ Keep /\ dout' = dout
              /\ \/ cst' \in {"READ_WAIT", "READ_DATA"} /\ sd_error' = sd_error
                 \/ cst' = "READ_FINISH" /\ sd_error'
         /\ cst = "READ_DATA" /\ sdsrd =>
              /\ sd_error' = sd_error
              /\ \/ cst' = "READ_DATA" /\ Kept
                 \/ /\ ~dout_avail /\ ~sdsdout_taken
                    /\ byte_counter' = byte_counter - 1
                    /\ cst' = IF byte_counter = 1 THEN "READ_CRC" ELSE "READ_DATA"
                    /\ \/ dout' = Sent /\ corrupt' = corrupt
                       \/ dout' \in Byte /\ corrupt'
                    /\ UNCHANGED <<address, wbuf, card>>
         /\ cst = "READ_CRC" =>
              /\ Keep /\ dout' = dout
              /\ \/ cst' = "READ_CRC" /\ sd_error' = sd_error
                 \/ cst' = "READ_FINISH" /\ (sd_error' <=> sd_error \/ corrupt)
         /\ cst = "READ_FINISH" =>
              Kept /\ (cst' = "READ_FINISH" \/ (cst' = "IDLE" /\ ~sdsrd))
<1>1. CtrlTick(sdsrd, sdswr, sdsbaddr, sdsdin, sdsdin_valid, sdsdout_taken)
  BY DEF Tick, HostTick
<1>. USE DEF CtrlTick, GoTo, Fail, Keep, Kept, Moving, ReadByte, Initialise, Accept, Command,
             AwaitToken, CheckCrc, Finish, WriteData, TakeByte, WriteByte, WriteResponse,
             WriteWait, Stay
<1>2. cst = "INIT" => /\ cst' \in {"INIT", "IDLE", "NO_R1"} /\ Keep /\ dout' = dout
  BY <1>1
<1>3. cst = "IDLE" => cst' \in {"IDLE", "IDLE2"} /\ Kept
  BY <1>1
<1>4. cst = "IDLE2" =>
        IF sdsrd \/ sdswr
        THEN /\ cst' = IF sdsrd THEN "READ_CMD" ELSE "WRITE_CMD"
             /\ ~sd_error' /\ address' = sdsbaddr
             /\ UNCHANGED <<byte_counter, corrupt, wbuf, card, dout>>
        ELSE cst' = "IDLE2" /\ Kept
  BY <1>1
<1>5. cst = "NO_R1" => cst' = "NO_R1" /\ Kept
  BY <1>1
<1>6. cst \in {"READ_CMD", "WRITE_CMD"} =>
        /\ address' = address /\ card' = card /\ dout' = dout
        /\ \/ cst' = cst /\ Kept
           \/ /\ cst' = IF cst = "READ_CMD" THEN "READ_WAIT" ELSE "WRITE_DATA"
              /\ sd_error' = sd_error
              /\ byte_counter' = BLOCKSIZE /\ ~corrupt' /\ wbuf' = <<>>
           \/ /\ cst' \in {IF cst = "READ_CMD" THEN "READ_FINISH" ELSE "WRITE_FINISH",
                           "NO_R1"}
              /\ sd_error' /\ Keep
  BY <1>1
<1>7. cst = "READ_WAIT" /\ sdsrd =>
        /\ Keep /\ dout' = dout
        /\ \/ cst' \in {"READ_WAIT", "READ_DATA"} /\ sd_error' = sd_error
           \/ cst' = "READ_FINISH" /\ sd_error'
  BY <1>1
<1>8. cst = "READ_DATA" /\ sdsrd =>
        /\ sd_error' = sd_error
        /\ \/ cst' = "READ_DATA" /\ Kept
           \/ /\ ~dout_avail /\ ~sdsdout_taken
              /\ byte_counter' = byte_counter - 1
              /\ cst' = IF byte_counter = 1 THEN "READ_CRC" ELSE "READ_DATA"
              /\ \/ dout' = Sent /\ corrupt' = corrupt
                 \/ dout' \in Byte /\ corrupt'
              /\ UNCHANGED <<address, wbuf, card>>
  BY <1>1 DEF Handed
<1>9. cst = "READ_CRC" =>
        /\ Keep /\ dout' = dout
        /\ \/ cst' = "READ_CRC" /\ sd_error' = sd_error
           \/ cst' = "READ_FINISH" /\ (sd_error' <=> sd_error \/ corrupt)
  BY <1>1
<1>10. cst = "READ_FINISH" =>
        Kept /\ (cst' = "READ_FINISH" \/ (cst' = "IDLE" /\ ~sdsrd))
  BY <1>1
<1>. QED BY <1>2, <1>3, <1>4, <1>5, <1>6, <1>7, <1>8, <1>9, <1>10

LEMMA CtrlWrite ==
  ASSUME Tick
  PROVE  /\ cst = "WRITE_DATA" =>
              /\ UNCHANGED <<address, byte_counter, card, sd_error, dout>>
              /\ \/ /\ cst' = "WRITE_DATA" /\ UNCHANGED <<corrupt, wbuf>>
                    /\ byte_counter # 0 /\ sdswr /\ ~TakeByte(sdswr)
                 \/ /\ cst' = "WRITE_RESPONSE" /\ wbuf' = wbuf /\ ~TakeByte(sdswr)
                    /\ byte_counter = 0 => ~corrupt'
                    /\ byte_counter = 0 \/ ~sdswr
                 \/ /\ TakeByte(sdswr) /\ cst' = "WRITE_BYTE"
                    /\ wbuf' = Append(wbuf, sdsdin) /\ corrupt' = corrupt
         /\ cst = "WRITE_BYTE" =>
              /\ UNCHANGED <<address, card, sd_error, dout, corrupt, wbuf>>
              /\ \/ cst' = "WRITE_BYTE" /\ byte_counter' = byte_counter
                 \/ cst' = "WRITE_DATA" /\ byte_counter' = byte_counter - 1
         /\ cst = "WRITE_RESPONSE" =>
              /\ UNCHANGED <<address, byte_counter, corrupt, wbuf, dout>>
              /\ \/ cst' = "WRITE_RESPONSE" /\ UNCHANGED <<card, sd_error>>
                 \/ /\ cst' = "WRITE_WAIT" /\ sd_error' = sd_error
                    /\ card' = [card EXCEPT ![address] = [j \in Index |-> wbuf[j + 1]]]
                 \/ cst' = "WRITE_FINISH" /\ sd_error' /\ card' = card
         /\ cst = "WRITE_WAIT" =>
              /\ Keep /\ dout' = dout
              /\ \/ cst' \in {"WRITE_WAIT", "WRITE_FINISH"} /\ sd_error' = sd_error
                 \/ cst' = "WRITE_FINISH" /\ sd_error'
         /\ cst = "WRITE_FINISH" =>
              Kept /\ (cst' = "WRITE_FINISH" \/ (cst' = "IDLE" /\ ~sdswr))
<1>1. CtrlTick(sdsrd, sdswr, sdsbaddr, sdsdin, sdsdin_valid, sdsdout_taken)
  BY DEF Tick, HostTick
<1>. USE DEF CtrlTick, GoTo, Fail, Keep, Kept, Moving, ReadByte, Initialise, Accept, Command,
             AwaitToken, CheckCrc, Finish, TakeByte, WriteByte, WriteResponse,
             WriteWait, Stay
<1>2. CASE cst = "WRITE_DATA"
  <2>1. WriteData(sdswr, sdsdin) \/ Stay(sdsrd, sdswr)
    BY <1>1, <1>2
  <2>2. dout' = dout
    BY <1>1, <1>2
  <2>3. CASE Stay(sdsrd, sdswr)
    BY <1>2, <2>2, <2>3
  <2>4. CASE WriteData(sdswr, sdsdin)
    <3>1. byte_counter = 0 => ~TakeByte(sdswr)
      OBVIOUS
    <3>2. ~sdswr => ~TakeByte(sdswr)
      OBVIOUS
    <3>3. cst' = "WRITE_RESPONSE" /\ byte_counter = 0 => ~corrupt'
      BY <2>4 DEF WriteData
    <3>. QED BY <1>2, <2>2, <2>4, <3>1, <3>2, <3>3 DEF WriteData
  <2>. QED BY <1>2, <2>1, <2>3, <2>4
<1>3. CASE cst = "WRITE_BYTE"
  BY <1>1, <1>3 DEF WriteData
<1>4. CASE cst = "WRITE_RESPONSE"
  BY <1>1, <1>4 DEF WriteData
<1>5. CASE cst = "WRITE_WAIT"
  BY <1>1, <1>5 DEF WriteData
<1>6. CASE cst = "WRITE_FINISH"
  BY <1>1, <1>6 DEF WriteData
<1>. QED BY <1>2, <1>3, <1>4, <1>5, <1>6

(* An edge of the second machine, by its state.                            *)
LEMMA Mover ==
  ASSUME Tick
  PROVE  /\ state = 0 =>
              /\ oecnt' = 0
              /\ UNCHANGED <<maddr2, midata2, mw2, sdsrd, sdswr, sdsdin, sdsdin_valid,
                             sdsdout_taken>>
              /\ state' = IF ctrlstate = 2 /\ ~sd_busy THEN 1
                          ELSE IF ctrlstate = 12 /\ ~sd_busy THEN 10 ELSE 0
         /\ state = 1 =>
              /\ sdsrd' /\ state' = 2
              /\ UNCHANGED <<oecnt, maddr2, midata2, mw2, sdswr, sdsdin_valid, sdsdout_taken>>
         /\ state = 2 =>
              /\ IF dout_avail /\ ~sd_error THEN outbyte' = dout /\ state' = 3
                                            ELSE outbyte' = outbyte /\ state' = 2
              /\ UNCHANGED <<oecnt, maddr2, midata2, mw2, sdsrd, sdswr, sdsdin_valid,
                             sdsdout_taken>>
         /\ state = 3 =>
              /\ state' = 4 /\ sdsdout_taken' /\ oecnt' = oecnt + 1
              /\ mw2' /\ maddr2' = oecnt /\ midata2' = outbyte
              /\ UNCHANGED <<sdsrd, sdswr, sdsdin_valid>>
         /\ state = 4 =>
              /\ ~mw2' /\ (sdsdout_taken' <=> sdsdout_taken /\ dout_avail)
              /\ dout_avail => state' = 4 /\ sdsrd' = sdsrd
              /\ ~dout_avail => /\ sdsrd' <=> oecnt < BLOCKSIZE
                                /\ state' = IF oecnt < BLOCKSIZE THEN 2
                                            ELSE IF sd_busy THEN 4 ELSE 0
              /\ UNCHANGED <<oecnt, maddr2, midata2, sdswr, sdsdin_valid>>
         /\ state = 10 =>
              /\ IF oecnt < BLOCKSIZE
                 THEN maddr2' = oecnt /\ state' = 16 /\ sdswr' = sdswr /\ oecnt' = oecnt
                 ELSE /\ ~sdswr' /\ maddr2' = maddr2
                      /\ IF sd_busy THEN state' = 10 /\ oecnt' = oecnt
                                    ELSE state' = 0 /\ oecnt' = 0
              /\ UNCHANGED <<mw2, midata2, sdsrd, sdsdin, sdsdin_valid, sdsdout_taken>>
         /\ state = 16 =>
              /\ state' = 11
              /\ UNCHANGED <<oecnt, maddr2, midata2, mw2, sdsrd, sdswr, sdsdin, sdsdin_valid,
                             sdsdout_taken>>
         /\ state = 11 =>
              /\ state' = 12 /\ sdswr' /\ sdsdin' = mout /\ sdsdin_valid'
              /\ UNCHANGED <<oecnt, maddr2, midata2, mw2, sdsrd, sdsdout_taken>>
         /\ state = 12 =>
              /\ oecnt' = oecnt /\ (sdsdin_valid' <=> sdsdin_valid /\ ~din_taken)
              /\ state' = IF din_taken THEN 13 ELSE 12
              /\ UNCHANGED <<maddr2, midata2, mw2, sdsrd, sdswr, sdsdin, sdsdout_taken>>
         /\ state = 13 =>
              /\ sdsdin_valid' = sdsdin_valid
              /\ oecnt' = IF din_taken THEN oecnt ELSE oecnt + 1
              /\ state' = IF din_taken THEN 13 ELSE 10
              /\ UNCHANGED <<maddr2, midata2, mw2, sdsrd, sdswr, sdsdin, sdsdout_taken>>
<1>1. \/ Await \/ StartRead \/ GetByte \/ PutByte \/ NextRead
      \/ NextWrite \/ OfferByte \/ ByteTaken
  BY DEF Tick, HostTick
<1>. USE <1>1 DEF Await, StartRead, GetByte, PutByte, NextRead, NextWrite, OfferByte, ByteTaken
<1>2. CASE state = 0
  BY <1>2 DEF Commanded
<1>3. CASE state = 1
  BY <1>3
<1>4. CASE state = 2
  <2>1. GetByte
    BY <1>4
  <2>2. dout_avail /\ ~sd_error => outbyte' = dout /\ state' = 3
    BY <2>1, Zenon
  <2>3. ~(dout_avail /\ ~sd_error) => outbyte' = outbyte /\ state' = state
    BY <2>1, Zenon
  <2>. QED BY <1>4, <2>1, <2>2, <2>3
<1>5. CASE state = 3
  BY <1>5
<1>6. CASE state = 4
  <2>1. NextRead
    BY <1>6
  <2>2. sdsdout_taken' <=> sdsdout_taken /\ dout_avail
    BY <2>1, Zenon
  <2>3. dout_avail => state' = 4 /\ sdsrd' = sdsrd
    BY <2>1
  <2>4. ~dout_avail => sdsrd' = (oecnt < BLOCKSIZE)
    BY <2>1, Zenon
  <2>5. ~dout_avail => (sdsrd' <=> oecnt < BLOCKSIZE)
    BY <2>4
  <2>6. ~dout_avail => state' = IF oecnt < BLOCKSIZE THEN 2 ELSE IF sd_busy THEN 4 ELSE 0
    BY <2>1
  <2>. QED BY <1>6, <2>1, <2>2, <2>3, <2>5, <2>6
<1>7. CASE state = 10
  BY <1>7
<1>8. CASE state = 16
  BY <1>8
<1>9. CASE state = 11
  BY <1>9
<1>10. CASE state = 12
  <2>1. ByteTaken
    BY <1>10
  <2>2. sdsdin_valid' <=> sdsdin_valid /\ ~din_taken
    <3>1. state # 13
      BY <1>10
    <3>2. sdsdin_valid' = (sdsdin_valid /\ ~din_taken)
      BY <2>1, <3>1, Zenon
    <3>. QED BY <3>2, Zenon
  <2>. QED BY <1>10, <2>1, <2>2
<1>11. CASE state = 13
  BY <1>11
<1>. QED BY <1>2, <1>3, <1>4, <1>5, <1>6, <1>7, <1>8, <1>9, <1>10, <1>11

(* What the controller has sent or got stays, or it is one byte more.      *)
LEMMA SentKept ==
  ASSUME Tick, NEW k \in 1 .. BLOCKSIZE, CardSent(k), sdsrd, dout_avail \/ sdsdout_taken
  PROVE  CardSent(k)' /\ (cst = cst' \/ cst = "READ_CRC")
         /\ ((sd_error' <=> sd_error) \/ cst = "READ_CRC")
BY Size, CtrlMove, CtrlFlags DEF CardSent, Kept, Keep

LEMMA SentMore ==
  ASSUME Tick, NEW k \in 0 .. BLOCKSIZE - 1, CardSent(k), sdsrd, ~dout_avail, ~sdsdout_taken
  PROVE  /\ cst = "READ_DATA" /\ ~sd_error'
         /\ \/ CardSent(k)' /\ ~dout_avail' /\ Kept
            \/ /\ CardSent(k + 1)' /\ dout_avail' /\ cst' \in {"READ_DATA", "READ_CRC"}
               /\ \/ dout' = Sent /\ corrupt' = corrupt
                  \/ dout' \in Byte /\ corrupt'
               /\ UNCHANGED <<address, wbuf, card>>
<1>1. cst = "READ_DATA" /\ ~sd_error /\ byte_counter = BLOCKSIZE - k
  BY Size DEF CardSent
<1>2. sd_busy' /\ (dout_avail' <=> byte_counter' # byte_counter) /\ ~sd_error'
  BY <1>1, CtrlFlags, CtrlMove
<1>3. CASE cst' = "READ_DATA" /\ Kept
  BY <1>1, <1>2, <1>3, Size DEF CardSent, Kept, Keep
<1>4. CASE /\ byte_counter' = byte_counter - 1
           /\ cst' = IF byte_counter = 1 THEN "READ_CRC" ELSE "READ_DATA"
           /\ \/ dout' = Sent /\ corrupt' = corrupt
              \/ dout' \in Byte /\ corrupt'
           /\ UNCHANGED <<address, wbuf, card>>
  <2>1. CardSent(k + 1)' /\ dout_avail'
    BY <1>1, <1>2, <1>4, Size DEF CardSent
  <2>2. cst' \in {"READ_DATA", "READ_CRC"}
    BY <1>4
  <2>. QED BY <1>1, <1>2, <1>4, <2>1, <2>2
<1>. QED BY <1>1, <1>3, <1>4, CtrlMove

LEMMA GotKept ==
  ASSUME Tick, NEW k \in 1 .. BLOCKSIZE, CardGot(k), ~TakeByte(sdswr), sdswr \/ k = BLOCKSIZE
  PROVE  /\ sd_busy' /\ wbuf' = wbuf
         /\ \/ CardGot(k)'
            \/ k = BLOCKSIZE /\ ~sdswr /\ cst' = "IDLE" /\ cst = "WRITE_FINISH"
<1>0. sd_busy' /\ k \in Nat /\ k > 0 /\ k <= BLOCKSIZE
  BY Size, CtrlFlags DEF CardGot, Late
<1>1. CASE cst = "WRITE_DATA"
  <2>1. byte_counter = BLOCKSIZE - k /\ ~(byte_counter # 0 /\ ~sdswr)
    BY <1>0, <1>1, Size DEF CardGot
  <2>2. byte_counter = 0 => ~corrupt /\ k = BLOCKSIZE
    BY <1>0, <1>1, <2>1, Size DEF CardGot
  <2>3. \/ cst' = "WRITE_DATA" /\ UNCHANGED <<corrupt, wbuf>>
        \/ cst' = "WRITE_RESPONSE" /\ wbuf' = wbuf /\ ~corrupt' /\ k = BLOCKSIZE
    BY <1>1, <2>1, <2>2, CtrlWrite
  <2>4. UNCHANGED <<byte_counter, sd_error>>
    BY <1>1, CtrlWrite
  <2>. QED BY <1>0, <1>1, <2>1, <2>3, <2>4, Size DEF CardGot, Late
<1>2. CASE cst = "WRITE_BYTE"
  BY <1>0, <1>2, CtrlWrite, Size DEF CardGot, Late
<1>3. CASE cst = "WRITE_RESPONSE"
  BY <1>0, <1>3, CtrlWrite, Size DEF CardGot, Late
<1>4. CASE cst = "WRITE_WAIT"
  BY <1>0, <1>4, CtrlWrite, Size DEF CardGot, Late, Keep
<1>5. CASE cst = "WRITE_FINISH"
  BY <1>0, <1>5, CtrlWrite, Size DEF CardGot, Late, Kept, Keep
<1>. QED BY <1>1, <1>2, <1>3, <1>4, <1>5 DEF CardGot, Late

LEMMA GotMore ==
  ASSUME Tick, NEW k \in 0 .. BLOCKSIZE - 1, CardGot(k), sdswr, wbuf \in Seq(Byte), sdsdin \in Byte
  PROVE  /\ sd_busy' /\ cst \in {"WRITE_BYTE", "WRITE_DATA"}
         /\ \/ CardGot(k)' /\ ~TakeByte(sdswr) /\ wbuf' = wbuf
            \/ CardGot(k + 1)' /\ TakeByte(sdswr) /\ wbuf' = Append(wbuf, sdsdin)
<1>0. sd_busy' /\ k \in Nat /\ k < BLOCKSIZE /\ cst \in {"WRITE_BYTE", "WRITE_DATA"}
  BY Size, CtrlFlags DEF CardGot, Late
<1>1. CASE cst = "WRITE_DATA"
  <2>1. byte_counter = BLOCKSIZE - k /\ byte_counter # 0
    BY <1>0, <1>1, Size DEF CardGot
  <2>2. Len(Append(wbuf, sdsdin)) = k + 1
    BY <1>0, AppendProperties DEF CardGot
  <2>3. CASE TakeByte(sdswr)
    <3>1. /\ UNCHANGED <<address, byte_counter, card, sd_error, dout, corrupt>>
          /\ cst' = "WRITE_BYTE" /\ wbuf' = Append(wbuf, sdsdin)
      BY <1>1, <2>3, CtrlWrite
    <3>2. CardGot(k + 1)'
      BY <1>0, <1>1, <2>1, <2>2, <3>1, Size DEF CardGot, Late
    <3>. QED BY <1>0, <2>3, <3>1, <3>2
  <2>4. CASE ~TakeByte(sdswr)
    <3>1. /\ UNCHANGED <<address, byte_counter, card, sd_error, dout, corrupt, wbuf>>
          /\ cst' = "WRITE_DATA"
      BY <1>1, <2>1, <2>4, CtrlWrite
    <3>. QED BY <1>0, <1>1, <2>1, <2>4, <3>1, Size DEF CardGot, Late
  <2>. QED BY <2>3, <2>4
<1>2. CASE cst = "WRITE_BYTE"
  <2>1. ~TakeByte(sdswr)
    BY <1>2 DEF TakeByte
  <2>2. /\ UNCHANGED <<sd_error, corrupt, wbuf>>
        /\ \/ cst' = "WRITE_BYTE" /\ byte_counter' = byte_counter
           \/ cst' = "WRITE_DATA" /\ byte_counter' = byte_counter - 1
    BY <1>2, CtrlWrite
  <2>3. byte_counter = BLOCKSIZE - k + 1 /\ Len(wbuf) = k /\ ~corrupt /\ ~sd_error
    BY <1>2 DEF CardGot
  <2>4. CardGot(k)'
    BY <1>0, <2>2, <2>3, Size DEF CardGot, Late
  <2>. QED BY <1>0, <2>1, <2>2, <2>4
<1>. QED BY <1>0, <1>1, <1>2

(* The bytes that are on their way are bytes.                              *)
BytesInv ==
  /\ m \in [Index -> Byte] /\ mout \in Byte
  /\ outbyte \in Byte /\ dout \in Byte /\ sdsdin \in Byte /\ wbuf \in Seq(Byte)
  /\ maddr1 \in Index /\ midata1 \in Byte /\ maddr2 \in Index /\ midata2 \in Byte
  /\ address \in Block /\ sdsbaddr \in Block /\ card \in [Block -> [Index -> Byte]]
  /\ byte_counter \in 0 .. BLOCKSIZE /\ Len(wbuf) <= BLOCKSIZE

(* The two machines keep in step, whatever the state of the second.        *)
LEMMA MoveIdle ==
  ASSUME Tick, state = 0, MoveInv
  PROVE  MoveInv'
<1>1. InIdle
  BY DEF MoveInv
<1>2. /\ ~sdsrd /\ ~sdsdout_taken /\ ~mw2 /\ ~dout_avail /\ ~sdswr
      /\ ~sdsdin_valid /\ ~last_din_valid /\ ~din_latch /\ ~din_taken
      /\ cst \in {"INIT", "IDLE", "IDLE2", "NO_R1"} /\ (~sd_busy => cst = "IDLE2")
  BY <1>1 DEF InIdle, Resting, Mute, NoDin, Free
<1>3. /\ cst' \in {"INIT", "IDLE", "IDLE2", "NO_R1"} /\ (~sd_busy' => cst' = "IDLE2")
      /\ cst = "IDLE2" => Ready'
  BY <1>2, CtrlFlags, CtrlMove DEF Ready
<1>4. Resting' /\ Mute'
  BY <1>2, CtrlFlags, Mover DEF Resting, Mute, NoDin
<1>5. state' \in {0, 1, 10} /\ oecnt' = 0 /\ (state' # 0 => ~sd_busy)
  BY Mover
<1>6. CASE state' = 0
  BY <1>3, <1>4, <1>5, <1>6, Size DEF MoveInv, InIdle, Free
<1>7. CASE state' = 1
  BY <1>2, <1>3, <1>4, <1>5, <1>7, Size DEF MoveInv, InStart
<1>8. CASE state' = 10
  BY <1>2, <1>3, <1>4, <1>5, <1>8, Size DEF MoveInv, InFetch, Mute
<1>. QED BY <1>5, <1>6, <1>7, <1>8

LEMMA MoveStart ==
  ASSUME Tick, state = 1, MoveInv
  PROVE  MoveInv'
<1>1. InStart
  BY DEF MoveInv
<1>2. /\ ~sdsrd /\ ~sdsdout_taken /\ ~mw2 /\ ~dout_avail /\ ~sdswr
      /\ ~sdsdin_valid /\ ~last_din_valid /\ ~din_latch /\ ~din_taken
      /\ cst = "IDLE2" /\ ~sd_busy /\ oecnt = 0
  BY <1>1 DEF InStart, Resting, Mute, NoDin, Ready
<1>3. Ready' /\ Mute' /\ ~dout_avail'
  BY <1>2, CtrlFlags, CtrlMove, Mover DEF Ready, Mute, NoDin
<1>4. state' = 2 /\ sdsrd' /\ ~sdsdout_taken' /\ ~mw2' /\ oecnt' = 0
  BY <1>2, Mover
<1>5. InRead'
  BY <1>3, <1>4, Size DEF InRead
<1>. QED BY <1>4, <1>5, Size DEF MoveInv

LEMMA MoveRead ==
  ASSUME Tick, state = 2, MoveInv
  PROVE  MoveInv'
<1>1. InRead /\ oecnt \in 0 .. BLOCKSIZE - 1
  BY Size DEF MoveInv, InRead
<1>2. /\ sdsrd /\ ~sdsdout_taken /\ ~mw2 /\ ~sdswr
      /\ ~sdsdin_valid /\ ~last_din_valid /\ ~din_latch /\ ~din_taken
  BY <1>1 DEF InRead, Mute, NoDin
<1>3. /\ Mute' /\ sdsrd' /\ ~sdsdout_taken' /\ ~mw2' /\ oecnt' = oecnt /\ sd_busy'
      /\ state' = IF dout_avail /\ ~sd_error THEN 3 ELSE 2
  BY <1>2, CtrlFlags, Mover DEF Mute, NoDin
<1>4. InRead' /\ state' = 2 => MoveInv'
  BY <1>1, <1>3, Size DEF MoveInv
<1>5. CASE ~dout_avail
  <2>1. state' = 2
    BY <1>3, <1>5
  <2>2. CASE cst \in {"IDLE2", "READ_CMD", "READ_WAIT", "READ_FINISH", "NO_R1"}
    <3>1. ~dout_avail'
      BY <1>5, <2>2, CtrlFlags
    <3>2. CASE cst = "IDLE2"
      <4>1. cst' = "READ_CMD" /\ ~sd_error'
        BY <1>2, <3>2, CtrlMove
      <4>2. oecnt = 0
        BY <1>1, <3>2 DEF InRead, CardSent
      <4>. QED BY <1>1, <1>3, <1>4, <2>1, <3>1, <4>1, <4>2 DEF InRead
    <3>3. CASE cst = "READ_CMD"
      <4>1. oecnt = 0 /\ ~sd_error
        BY <1>1, <3>3 DEF InRead, CardSent, Ready
      <4>2. \/ cst' = "READ_CMD" /\ ~sd_error'
            \/ cst' = "READ_WAIT" /\ ~sd_error' /\ byte_counter' = BLOCKSIZE
            \/ cst' \in {"READ_FINISH", "NO_R1"} /\ sd_error'
        BY <3>3, <4>1, CtrlMove DEF Kept
      <4>. QED BY <1>1, <1>3, <1>4, <2>1, <3>1, <4>1, <4>2 DEF InRead
    <3>4. CASE cst = "READ_WAIT"
      <4>1. oecnt = 0 /\ ~sd_error /\ byte_counter = BLOCKSIZE
        BY <1>1, <3>4 DEF InRead, CardSent, Ready
      <4>2. /\ byte_counter' = BLOCKSIZE
            /\ \/ cst' \in {"READ_WAIT", "READ_DATA"} /\ ~sd_error'
               \/ cst' = "READ_FINISH" /\ sd_error'
        BY <1>2, <3>4, <4>1, CtrlMove DEF Keep
      <4>3. cst' = "READ_DATA" => CardSent(oecnt)'
        BY <1>3, <4>1, <4>2, Size DEF CardSent
      <4>. QED BY <1>1, <1>3, <1>4, <2>1, <3>1, <4>1, <4>2, <4>3 DEF InRead
    <3>5. CASE cst = "READ_FINISH"
      <4>1. sd_error
        BY <1>1, <1>5, <3>5, Size DEF InRead, CardSent, Ready
      <4>2. cst' = "READ_FINISH" /\ sd_error'
        BY <1>2, <3>5, <4>1, CtrlMove DEF Kept
      <4>. QED BY <1>1, <1>3, <1>4, <2>1, <3>1, <4>2 DEF InRead
    <3>6. CASE cst = "NO_R1"
      <4>1. sd_error
        BY <1>1, <1>5, <3>6 DEF InRead, CardSent, Ready
      <4>2. cst' = "NO_R1" /\ sd_error'
        BY <1>2, <3>6, <4>1, CtrlMove DEF Kept
      <4>. QED BY <1>1, <1>3, <1>4, <2>1, <3>1, <4>2 DEF InRead
    <3>. QED BY <2>2, <3>2, <3>3, <3>4, <3>5, <3>6
  <2>3. CASE cst \notin {"IDLE2", "READ_CMD", "READ_WAIT", "READ_FINISH", "NO_R1"}
    <3>1. CardSent(oecnt)
      BY <1>1, <1>5, <2>3 DEF InRead, Ready
    <3>2. \/ CardSent(oecnt)' /\ ~dout_avail'
          \/ CardSent(oecnt + 1)' /\ dout_avail' /\ ~sd_error'
      BY <1>1, <1>2, <1>3, <1>5, <3>1, SentMore DEF CardSent
    <3>. QED BY <1>1, <1>3, <1>4, <2>1, <3>2 DEF InRead
  <2>. QED BY <2>2, <2>3
<1>6. CASE dout_avail
  <2>1. CardSent(oecnt + 1) /\ ~sd_error
    BY <1>1, <1>6 DEF InRead
  <2>2. oecnt + 1 \in 1 .. BLOCKSIZE
    BY <1>1, Size
  <2>3. CardSent(oecnt + 1)'
    BY <1>2, <1>3, <1>6, <2>1, <2>2, SentKept DEF CardSent
  <2>4. dout_avail' /\ state' = 3
    BY <1>2, <1>3, <1>6, <2>1, CtrlFlags
  <2>. QED BY <1>1, <1>3, <2>3, <2>4, Size DEF MoveInv, InPut
<1>. QED BY <1>5, <1>6

LEMMA MovePut ==
  ASSUME Tick, state = 3, MoveInv
  PROVE  MoveInv'
<1>1. InPut /\ oecnt + 1 \in 1 .. BLOCKSIZE
  BY Size DEF MoveInv, InPut
<1>2. /\ sdsrd /\ ~sdsdout_taken /\ ~mw2 /\ ~sdswr /\ dout_avail
      /\ ~sdsdin_valid /\ ~last_din_valid /\ ~din_latch /\ ~din_taken
      /\ CardSent(oecnt + 1)
  BY <1>1 DEF InPut, Mute, NoDin
<1>3. /\ Mute' /\ sdsrd' /\ sdsdout_taken' /\ oecnt' = oecnt + 1 /\ state' = 4
  BY <1>2, CtrlFlags, Mover DEF Mute, NoDin
<1>4. CardSent(oecnt)'
  BY <1>1, <1>2, <1>3, SentKept DEF CardSent
<1>. QED BY <1>1, <1>3, <1>4, Size DEF MoveInv, InNext

LEMMA MoveNext ==
  ASSUME Tick, state = 4, MoveInv
  PROVE  MoveInv'
<1>1. InNext /\ oecnt \in 1 .. BLOCKSIZE
  BY Size DEF MoveInv, InNext
<1>2. ~sdswr /\ ~sdsdin_valid /\ ~last_din_valid /\ ~din_latch /\ ~din_taken
  BY <1>1 DEF InNext, Mute, NoDin
<1>3. Mute' /\ ~mw2' /\ oecnt' = oecnt
  BY <1>2, CtrlFlags, Mover DEF Mute, NoDin
<1>4. CASE sdsrd /\ sdsdout_taken /\ CardSent(oecnt)
  <2>1. CardSent(oecnt)'
    BY <1>1, <1>3, <1>4, SentKept DEF CardSent
  <2>2. CASE dout_avail
    <3>1. state' = 4 /\ sdsrd' /\ sdsdout_taken'
      BY <1>4, <2>2, Mover
    <3>. QED BY <1>1, <1>3, <2>1, <3>1, Size DEF MoveInv, InNext
  <2>3. CASE ~dout_avail
    <3>1. sd_busy
      BY <1>4 DEF CardSent
    <3>2. ~sdsdout_taken' /\ (sdsrd' <=> oecnt < BLOCKSIZE)
          /\ state' = IF oecnt < BLOCKSIZE THEN 2 ELSE 4
      BY <2>3, <3>1, Mover
    <3>3. ~dout_avail'
      <4>1. cst = "READ_DATA" => byte_counter' = byte_counter
        BY <1>4, CtrlMove DEF Kept, Keep
      <4>. QED BY <2>3, <4>1, CtrlFlags
    <3>4. CASE oecnt < BLOCKSIZE
      BY <1>1, <1>3, <2>1, <3>2, <3>3, <3>4, Size DEF MoveInv, InRead
    <3>5. CASE oecnt = BLOCKSIZE
      BY <1>1, <1>3, <2>1, <3>2, <3>3, <3>5, Size DEF MoveInv, InNext, Resting
    <3>. QED BY <1>1, <3>4, <3>5, Size
  <2>. QED BY <2>2, <2>3
<1>5. CASE Resting /\ oecnt = BLOCKSIZE /\ (CardSent(oecnt) \/ Free({"IDLE", "IDLE2"}))
  <2>1. ~sdsrd /\ ~sdsdout_taken /\ ~mw2 /\ ~dout_avail
    BY <1>5 DEF Resting
  <2>2. Resting' /\ state' = (IF sd_busy THEN 4 ELSE 0)
    BY <1>5, <2>1, CtrlFlags, Mover, Size DEF Resting
  <2>3. CASE CardSent(oecnt)
    <3>1. cst \in {"READ_CRC", "READ_FINISH"} /\ sd_busy /\ byte_counter = 0
      BY <1>5, <2>3, Size DEF CardSent
    <3>2. sd_busy' /\ byte_counter' = 0
      BY <3>1, CtrlFlags, CtrlMove DEF Kept, Keep
    <3>3. cst' = "IDLE" \/ CardSent(oecnt)'
      BY <1>3, <1>5, <2>3, <3>1, <3>2, CtrlMove, Size DEF CardSent, Kept
    <3>. QED BY <1>1, <1>3, <1>5, <2>2, <3>1, <3>2, <3>3, Size DEF MoveInv, InNext, Free
  <2>4. CASE Free({"IDLE", "IDLE2"})
    <3>1. cst \in {"IDLE", "IDLE2"} /\ (~sd_busy => cst = "IDLE2")
      BY <2>4 DEF Free
    <3>2. cst' \in {"IDLE", "IDLE2"} /\ (~sd_busy' => cst' = "IDLE2")
      BY <1>2, <2>1, <3>1, CtrlFlags, CtrlMove
    <3>3. CASE sd_busy
      BY <1>1, <1>3, <1>5, <2>2, <3>2, <3>3, Size DEF MoveInv, InNext, Free
    <3>4. CASE ~sd_busy
      BY <1>1, <1>3, <1>5, <2>2, <3>2, <3>4, Size DEF MoveInv, InIdle, Free
    <3>. QED BY <3>3, <3>4
  <2>. QED BY <1>5, <2>3, <2>4
<1>. QED BY <1>1, <1>4, <1>5 DEF InNext

LEMMA MoveFetch ==
  ASSUME Tick, state \in {10, 11, 16}, MoveInv
  PROVE  MoveInv'
<1>1. InFetch /\ oecnt \in 0 .. BLOCKSIZE
  BY Size DEF MoveInv
<1>2. /\ ~sdsrd /\ ~sdsdout_taken /\ ~mw2 /\ ~dout_avail
      /\ ~sdsdin_valid /\ ~last_din_valid /\ ~din_latch /\ ~din_taken
  BY <1>1 DEF InFetch, Resting, NoDin
<1>3. Resting' /\ ~din_latch' /\ ~din_taken' /\ ~last_din_valid'
  BY <1>2, CtrlFlags, Mover DEF Resting
<1>4. ~TakeByte(sdswr)
  BY <1>2 DEF TakeByte
<1>5. CASE oecnt < BLOCKSIZE
  <2>0. /\ oecnt' = oecnt
        /\ state = 10 => state' = 16 /\ sdswr' = sdswr /\ ~sdsdin_valid'
        /\ state = 16 => state' = 11 /\ sdswr' = sdswr /\ ~sdsdin_valid'
        /\ state = 11 => state' = 12 /\ sdswr' /\ sdsdin_valid'
    BY <1>2, <1>5, Mover
  <2>1. \/ oecnt = 0 /\ ~sdswr /\ Ready'
        \/ oecnt > 0 /\ sdswr /\ CardGot(oecnt)'
    <3>1. CASE oecnt = 0 /\ ~sdswr /\ Ready
      BY <1>2, <3>1, CtrlFlags, CtrlMove DEF Ready
    <3>2. CASE oecnt > 0 /\ sdswr /\ CardGot(oecnt)
      <4>1. oecnt \in 1 .. BLOCKSIZE
        BY <1>1, <3>2, Size
      <4>. QED BY <1>4, <2>0, <3>2, <4>1, GotKept DEF CardGot
    <3>. QED BY <1>1, <1>5, <3>1, <3>2, Size DEF InFetch
  <2>2. CASE state \in {10, 16}
    BY <1>1, <1>3, <1>5, <2>0, <2>1, <2>2, Size DEF MoveInv, InFetch, NoDin
  <2>3. CASE state = 11
    <3>1. oecnt > 0 /\ CardGot(oecnt)' => cst' \in {"WRITE_BYTE", "WRITE_DATA"}
      BY <1>1, <1>5, <2>0, Size DEF CardGot
    <3>. QED BY <1>1, <1>3, <1>5, <2>0, <2>1, <2>3, <3>1, Size DEF MoveInv, InOffer
  <2>. QED BY <2>2, <2>3
<1>6. CASE oecnt = BLOCKSIZE
  <2>1. state = 10
    BY <1>6, Size DEF MoveInv
  <2>2. /\ ~sdswr' /\ NoDin'
        /\ IF sd_busy THEN state' = 10 /\ oecnt' = oecnt ELSE state' = 0 /\ oecnt' = 0
    BY <1>2, <1>3, <1>6, <2>1, Mover, Size DEF NoDin
  <2>3. CASE CardGot(oecnt)
    <3>1. sd_busy /\ oecnt \in 1 .. BLOCKSIZE
      BY <1>1, <1>6, <2>3, Size DEF CardGot
    <3>2. sd_busy' /\ (CardGot(oecnt)' \/ cst' = "IDLE")
      BY <1>4, <1>6, <2>2, <2>3, <3>1, GotKept DEF CardGot
    <3>. QED BY <1>1, <1>3, <1>6, <2>2, <3>1, <3>2, Size DEF MoveInv, InFetch, Free
  <2>4. CASE ~sdswr /\ Free({"IDLE", "IDLE2"})
    <3>1. cst \in {"IDLE", "IDLE2"} /\ (~sd_busy => cst = "IDLE2")
      BY <2>4 DEF Free
    <3>2. cst' \in {"IDLE", "IDLE2"} /\ (~sd_busy' => cst' = "IDLE2")
      BY <1>2, <2>4, <3>1, CtrlFlags, CtrlMove
    <3>3. CASE sd_busy
      BY <1>1, <1>3, <1>6, <2>2, <3>2, <3>3, Size DEF MoveInv, InFetch, Free
    <3>4. CASE ~sd_busy
      BY <1>1, <1>3, <1>6, <2>2, <3>2, <3>4, Size DEF MoveInv, InIdle, Free, Mute
    <3>. QED BY <3>3, <3>4
  <2>. QED BY <1>1, <1>6, <2>3, <2>4, Size DEF InFetch
<1>. QED BY <1>1, <1>5, <1>6, Size

LEMMA MoveOffer ==
  ASSUME Tick, state = 12, MoveInv, BytesInv
  PROVE  MoveInv'
<1>1. InOffer /\ oecnt \in 0 .. BLOCKSIZE - 1
  BY Size DEF MoveInv, InOffer
<1>2. ~sdsrd /\ ~sdsdout_taken /\ ~mw2 /\ ~dout_avail /\ sdswr /\ sdsdin_valid
  BY <1>1 DEF InOffer, Resting
<1>3. /\ Resting' /\ sdswr' /\ last_din_valid' /\ oecnt' = oecnt
      /\ sdsdin_valid' <=> ~din_taken
      /\ state' = IF din_taken THEN 13 ELSE 12
  BY <1>2, CtrlFlags, Mover DEF Resting
<1>4. CASE din_taken /\ last_din_valid /\ ~din_latch /\ CardGot(oecnt + 1)
  <2>1. ~TakeByte(sdswr)
    BY <1>4 DEF TakeByte
  <2>2. oecnt + 1 \in 1 .. BLOCKSIZE
    BY <1>1, Size
  <2>3. ~din_latch' /\ din_taken'
    BY <1>2, <1>4, CtrlFlags
  <2>4. CardGot(oecnt + 1)'
    BY <1>2, <1>3, <1>4, <2>1, <2>2, GotKept DEF CardGot
  <2>. QED BY <1>1, <1>3, <1>4, <2>3, <2>4, Size DEF MoveInv, InTaken
<1>5. CASE ~din_taken /\ (last_din_valid <=> din_latch)
  <2>0. /\ state' = 12 /\ sdsdin_valid'
        /\ ~TakeByte(sdswr) => ~din_taken' /\ din_latch'
        /\ TakeByte(sdswr) => din_taken' /\ ~din_latch'
    <3>1. TakeByte(sdswr) => din_latch
      BY DEF TakeByte
    <3>. QED BY <1>2, <1>3, <1>5, <3>1, CtrlFlags
  <2>1. InOffer' => MoveInv'
    BY <1>1, <1>3, <2>0, Size DEF MoveInv
  <2>2. CASE cst = "IDLE2"
    <3>1. oecnt = 0 /\ cst' = "WRITE_CMD" /\ ~sd_error' /\ sd_busy' /\ ~TakeByte(sdswr)
      BY <1>1, <1>2, <1>5, <2>2, CtrlFlags, CtrlMove DEF TakeByte, InOffer, CardGot
    <3>. QED BY <1>1, <1>3, <2>0, <2>1, <3>1 DEF InOffer
  <2>3. CASE cst = "WRITE_CMD"
    <3>1. oecnt = 0 /\ ~sd_error /\ sd_busy' /\ ~TakeByte(sdswr)
      BY <1>1, <1>5, <2>3, CtrlFlags DEF TakeByte, InOffer, CardGot, Ready
    <3>2. \/ cst' = "WRITE_CMD" /\ ~sd_error'
          \/ cst' = "WRITE_DATA" /\ ~sd_error' /\ CardGot(oecnt)'
          \/ cst' \in {"WRITE_FINISH", "NO_R1"} /\ sd_error'
      <4>1. CASE cst' = "WRITE_CMD" /\ Kept
        BY <3>1, <4>1 DEF Kept
      <4>2. CASE /\ cst' = "WRITE_DATA" /\ sd_error' = sd_error
                 /\ byte_counter' = BLOCKSIZE /\ ~corrupt' /\ wbuf' = <<>>
        BY <1>3, <3>1, <4>2, Size DEF CardGot, Late
      <4>. QED BY <2>3, <4>1, <4>2, CtrlMove
    <3>. QED BY <1>1, <1>3, <2>0, <2>1, <3>1, <3>2 DEF InOffer
  <2>4. CASE cst \in {"WRITE_FINISH", "NO_R1"}
    <3>1. sd_error /\ ~TakeByte(sdswr)
      BY <1>1, <1>5, <2>4 DEF TakeByte, InOffer, CardGot, Ready
    <3>2. cst' = cst /\ sd_error'
      BY <1>2, <2>4, <3>1, CtrlMove, CtrlWrite DEF Kept
    <3>3. sd_busy'
      BY <2>4, CtrlFlags
    <3>. QED BY <1>1, <1>3, <2>0, <2>1, <2>4, <3>1, <3>2, <3>3 DEF InOffer
  <2>5. CASE cst \in {"WRITE_BYTE", "WRITE_DATA"} /\ CardGot(oecnt)
    <3>1. \/ CardGot(oecnt)' /\ ~TakeByte(sdswr)
          \/ CardGot(oecnt + 1)' /\ TakeByte(sdswr)
      BY <1>1, <1>2, <1>3, <2>5, GotMore DEF CardGot, BytesInv
    <3>2. CardGot(oecnt)' => cst' \in {"WRITE_BYTE", "WRITE_DATA"}
      BY <1>1, <1>3, Size DEF CardGot
    <3>. QED BY <1>1, <1>3, <2>0, <2>1, <3>1, <3>2 DEF InOffer
  <2>. QED BY <1>1, <1>5, <2>2, <2>3, <2>4, <2>5 DEF InOffer, Ready
<1>. QED BY <1>1, <1>4, <1>5 DEF InOffer

LEMMA MoveTaken ==
  ASSUME Tick, state = 13, MoveInv
  PROVE  MoveInv'
<1>1. InTaken /\ oecnt + 1 \in 1 .. BLOCKSIZE /\ oecnt \in Nat
  BY Size DEF MoveInv, InTaken
<1>2. /\ ~sdsrd /\ ~sdsdout_taken /\ ~mw2 /\ ~dout_avail /\ sdswr /\ ~sdsdin_valid
      /\ ~din_latch /\ CardGot(oecnt + 1)
  BY <1>1 DEF InTaken, Resting
<1>3. /\ Resting' /\ sdswr' /\ ~last_din_valid' /\ ~sdsdin_valid' /\ ~din_taken' /\ ~din_latch'
      /\ oecnt' = IF din_taken THEN oecnt ELSE oecnt + 1
      /\ state' = IF din_taken THEN 13 ELSE 10
  <2>1. /\ oecnt' = IF din_taken THEN oecnt ELSE oecnt + 1
        /\ state' = IF din_taken THEN 13 ELSE 10
        /\ sdsdin_valid' = sdsdin_valid
        /\ UNCHANGED <<maddr2, midata2, mw2, sdsrd, sdswr, sdsdin, sdsdout_taken>>
    BY Mover, Zenon
  <2>2. ~last_din_valid' /\ ~din_taken' /\ ~din_latch'
    BY <1>2, CtrlFlags, Zenon
  <2>3. ~dout_avail'
    BY <1>1, CtrlFlags DEF InTaken, Resting
  <2>. QED BY <1>2, <2>1, <2>2, <2>3 DEF Resting
<1>4. ~TakeByte(sdswr)
  BY <1>2 DEF TakeByte
<1>5. CASE din_taken
  <2>1. CardGot(oecnt + 1)'
    BY <1>1, <1>2, <1>3, <1>4, <1>5, GotKept DEF CardGot
  <2>. QED BY <1>1, <1>3, <1>5, <2>1, Size DEF MoveInv, InTaken
<1>6. CASE ~din_taken
  <2>1. CardGot(oecnt)'
    BY <1>1, <1>2, <1>3, <1>4, <1>6, GotKept DEF CardGot
  <2>. QED BY <1>1, <1>3, <1>6, <2>1, Size DEF MoveInv, InFetch, NoDin
<1>. QED BY <1>5, <1>6

LEMMA MoveKept ==
  ASSUME MoveInv, BytesInv, Tick
  PROVE  MoveInv'
<1>1. state \in {0, 1, 2, 3, 4, 10, 11, 12, 13, 16}
  BY DEF MoveInv
<1>. QED BY <1>1, MoveIdle, MoveStart, MoveRead, MovePut, MoveNext, MoveFetch, MoveOffer,
            MoveTaken

(* Where the controller is while the second machine moves a block.         *)
LEMMA Where ==
  ASSUME MoveInv
  PROVE  /\ cst \in {"INIT", "IDLE", "IDLE2", "NO_R1"}
              \/ (state \in {2, 3, 4} /\ cst \in {"READ_CMD", "READ_WAIT", "READ_DATA", "READ_CRC",
                                                  "READ_FINISH"})
              \/ (state \in {10, 11, 12, 13, 16} /\ cst \in Late \cup {"WRITE_CMD"})
         /\ ~sd_busy => cst = "IDLE2"
         /\ cst \in {"READ_WAIT", "READ_DATA"} =>
              sdsrd /\ byte_counter \in 1 .. BLOCKSIZE
         /\ cst = "WRITE_BYTE" => byte_counter \in 1 .. BLOCKSIZE
         /\ cst = "WRITE_DATA" /\ byte_counter # 0 => Len(wbuf) < BLOCKSIZE /\ sdswr
         /\ cst = "WRITE_RESPONSE" => Len(wbuf) = BLOCKSIZE /\ ~corrupt /\ ~sd_error
         /\ sdsrd => state \in {2, 3, 4}
         /\ sdswr => state \in {10, 11, 12, 13, 16}
         /\ mw2 => state = 4
         /\ cst = "INIT" => state = 0
         /\ cst = "NO_R1" => state = 0 \/ (state = 2 /\ sdsrd) \/ (state = 12 /\ sdswr)
<1>. USE Size DEF MoveInv
<1>1. CASE state = 0
  BY <1>1 DEF InIdle, Resting, Mute, NoDin, Free
<1>2. CASE state = 1
  BY <1>2 DEF InStart, Resting, Mute, NoDin, Ready
<1>3. CASE state = 2
  BY <1>3 DEF InRead, Mute, NoDin, Ready, CardSent
<1>4. CASE state = 3
  BY <1>4 DEF InPut, Mute, NoDin, CardSent
<1>5. CASE state = 4
  BY <1>5 DEF InNext, Resting, Mute, NoDin, Free, CardSent
<1>6. CASE state \in {10, 11, 16}
  BY <1>6 DEF InFetch, Resting, NoDin, Free, Ready, CardGot, Late
<1>7. CASE state = 12
  <2>1. InOffer
    BY <1>7
  <2>2. ~sdsrd /\ ~mw2 /\ sdswr
    BY <2>1 DEF InOffer, Resting
  <2>3. CASE CardGot(oecnt + 1)
    BY <1>7, <2>1, <2>2, <2>3 DEF InOffer, CardGot, Late
  <2>4. CASE cst \in {"WRITE_BYTE", "WRITE_DATA"} /\ CardGot(oecnt)
    <3>1. oecnt \in 0 .. BLOCKSIZE - 1
      BY <2>1 DEF InOffer
    <3>2. cst = "WRITE_BYTE" => byte_counter \in 1 .. BLOCKSIZE
      <4>1. cst = "WRITE_BYTE" => oecnt # 0
        BY <1>7, <2>1, <2>4 DEF InOffer, CardGot
      <4>. QED BY <2>4, <3>1, <4>1 DEF CardGot
    <3>. QED BY <1>7, <2>2, <2>4, <3>1, <3>2 DEF CardGot, Late
  <2>5. CASE Ready
    BY <1>7, <2>2, <2>5 DEF Ready
  <2>6. CASE cst \in {"WRITE_CMD", "WRITE_FINISH", "NO_R1"} /\ sd_busy
    BY <1>7, <2>2, <2>6 DEF Late
  <2>. QED BY <2>1, <2>3, <2>4, <2>5, <2>6 DEF InOffer
<1>8. CASE state = 13
  BY <1>8 DEF InTaken, Resting, CardGot, Late
<1>. QED BY <1>1, <1>2, <1>3, <1>4, <1>5, <1>6, <1>7, <1>8

LEMMA BytesKept ==
  ASSUME PathInv, MoveInv, BytesInv, Tick
  PROVE  BytesInv'
<1>. USE Size
<1>1. /\ m' \in [Index -> Byte] /\ mout' \in Byte
  <2>1. maddr \in Index /\ midata \in Byte
    BY DEF BytesInv, maddr, midata
  <2>2. BramTick
    BY DEF Tick, HostTick
  <2>. QED BY <2>1, <2>2 DEF BytesInv, BramTick
<1>2. outbyte' \in Byte
  BY DEF Tick, HostTick, BytesInv, Await, StartRead, GetByte, PutByte, NextRead, NextWrite,
         OfferByte, ByteTaken
<1>3. midata2' \in Byte /\ sdsdin' \in Byte
  BY DEF Tick, HostTick, BytesInv, Await, StartRead, GetByte, PutByte, NextRead, NextWrite,
         OfferByte, ByteTaken
<1>4. maddr2' \in Index
  <2>1. state = 3 => oecnt \in Index
    BY DEF MoveInv, InPut
  <2>2. state = 10 /\ oecnt < BLOCKSIZE => oecnt \in Index
    BY DEF MoveInv
  <2>3. /\ maddr2' \in {maddr2, oecnt}
        /\ maddr2' = maddr2 \/ state = 3 \/ (state = 10 /\ oecnt < BLOCKSIZE)
    BY DEF Tick, HostTick, Await, StartRead, GetByte, PutByte, NextRead, NextWrite,
           OfferByte, ByteTaken
  <2>. QED BY <2>1, <2>2, <2>3 DEF BytesInv
<1>5. maddr1' \in Index /\ midata1' \in Byte /\ sdsbaddr' \in Block
  <2>1. CASE ctrlstate # 0
    BY <2>1, WhenServing DEF BytesInv
  <2>2. CASE ctrlstate = 0 /\ (pready \/ apb_state \notin {"RD1", "WR1"})
    BY <2>2, WhenIdle DEF BytesInv
  <2>3. CASE ctrlstate = 0 /\ ~pready /\ apb_state = "RD1"
    <3>1. UNCHANGED <<sdsbaddr, midata1>>
      <4>1. ~bus_write(Sd)
        BY <2>3, Offers
      <4>. QED BY <2>3, <4>1 DEF Tick, HostTick, Idle, Serve
    <3>2. pc \in {"wait", "waitdone", "copy"}
      BY <2>3 DEF PathInv, AccessInv
    <3>3. CASE Polling
      <4>1. maddr1' = maddr1
        <5>1. bus_read(Sd) /\ ~bus_write(Sd) /\ dphase.reg = 0
          BY <2>3, <3>3, Offers, AccessKind DEF PathInv, AccessInv
        <5>2. Idle(bus_write(Sd), bus_read(Sd), dphase.reg, apbm_pwdata)
          BY <2>3 DEF Tick, HostTick, Serve
        <5>3. dphase.reg < 8 /\ ~(dphase.reg >= 8)
          BY <5>1
        <5>. QED BY <5>1, <5>2, <5>3 DEF Idle, BLOCKADDR
      <4>. QED BY <3>1, <4>1 DEF BytesInv
    <3>4. CASE pc = "copy"
      BY <2>3, <3>1, <3>4, WhenRead DEF BytesInv, PathInv, DriverInv
    <3>. QED BY <3>2, <3>3, <3>4 DEF Polling
  <2>4. CASE apb_state = "WR1"
    <3>1. pc \in {"command", "fill"} /\ pc \notin Between
      BY <2>4 DEF PathInv, AccessInv
    <3>2. pc = "command" => op.block \in Block
      BY <3>1, AccessKind DEF PathInv
    <3>3. pc = "fill" => op.data[i] \in Byte /\ i \in Index
      BY <3>1, AccessKind DEF PathInv, DriverInv
    <3>. QED BY <2>4, <3>1, <3>2, <3>3, WhenWritten DEF BytesInv
  <2>. QED BY <2>1, <2>2, <2>3, <2>4
<1>6. /\ dout' \in Byte /\ address' \in Block
      /\ wbuf' \in Seq(Byte) /\ Len(wbuf') <= BLOCKSIZE
      /\ card' \in [Block -> [Index -> Byte]] /\ byte_counter' \in 0 .. BLOCKSIZE
  <2>0. /\ dout \in Byte /\ address \in Block /\ sdsbaddr \in Block /\ sdsdin \in Byte
        /\ wbuf \in Seq(Byte) /\ Len(wbuf) <= BLOCKSIZE /\ Len(wbuf) \in Nat
        /\ card \in [Block -> [Index -> Byte]] /\ byte_counter \in 0 .. BLOCKSIZE
    BY DEF BytesInv
  <2>1. CASE cst \in {"INIT", "IDLE", "NO_R1", "READ_CRC", "READ_FINISH"}
    BY <2>0, <2>1, CtrlMove DEF Kept, Keep
  <2>2. CASE cst = "IDLE2"
    BY <2>0, <2>2, CtrlMove DEF Kept, Keep
  <2>3. CASE cst \in {"READ_CMD", "WRITE_CMD"}
    <3>1. <<>> \in Seq(Byte) /\ Len(<<>>) = 0
      OBVIOUS
    <3>2. address' = address /\ card' = card /\ dout' = dout
      BY <2>3, CtrlMove DEF Kept, Keep
    <3>3. \/ byte_counter' = BLOCKSIZE /\ wbuf' = <<>>
          \/ byte_counter' = byte_counter /\ wbuf' = wbuf
      BY <2>3, CtrlMove DEF Kept, Keep
    <3>4. byte_counter' \in 0 .. BLOCKSIZE
      BY <2>0, <3>3
    <3>5. wbuf' \in Seq(Byte) /\ Len(wbuf') <= BLOCKSIZE
      <4>1. CASE wbuf' = <<>>
        <5>1. Len(wbuf') = 0 /\ wbuf' \in Seq(Byte)
          BY <3>1, <4>1
        <5>. QED BY <5>1
      <4>2. CASE wbuf' = wbuf
        <5>1. Len(wbuf') = Len(wbuf) /\ wbuf' \in Seq(Byte)
          BY <2>0, <4>2
        <5>. QED BY <2>0, <5>1
      <4>. QED BY <3>3, <4>1, <4>2
    <3>. QED BY <2>0, <3>2, <3>4, <3>5
  <2>4. CASE cst = "READ_WAIT"
    BY <2>0, <2>4, CtrlMove, Where DEF Kept, Keep
  <2>5. CASE cst = "READ_DATA"
    <3>1. sdsrd /\ byte_counter \in 1 .. BLOCKSIZE
      BY <2>5, Where
    <3>2. Sent \in Byte /\ byte_counter - 1 \in 0 .. BLOCKSIZE
      <4>1. BLOCKSIZE - byte_counter \in Index
        BY <3>1
      <4>. QED BY <2>0, <3>1, <4>1 DEF Sent
    <3>. QED BY <2>0, <2>5, <3>1, <3>2, CtrlMove DEF Kept, Keep
  <2>6. CASE cst = "WRITE_DATA"
    <3>1. TakeByte(sdswr) => Len(wbuf) < BLOCKSIZE
      BY <2>6, Where DEF TakeByte
    <3>2. /\ Append(wbuf, sdsdin) \in Seq(Byte)
          /\ Len(Append(wbuf, sdsdin)) = Len(wbuf) + 1
      BY <2>0, AppendProperties
    <3>. QED BY <2>0, <2>6, <3>1, <3>2, CtrlWrite
  <2>7. CASE cst = "WRITE_BYTE"
    BY <2>0, <2>7, CtrlWrite, Where
  <2>8. CASE cst = "WRITE_RESPONSE"
    <3>1. [j \in Index |-> wbuf[j + 1]] \in [Index -> Byte]
      <4>1. Len(wbuf) = BLOCKSIZE
        BY <2>8, Where
      <4>2. ASSUME NEW j \in Index PROVE wbuf[j + 1] \in Byte
        BY <2>0, <4>1, ElementOfSeq
      <4>. QED BY <4>2
    <3>. QED BY <2>0, <2>8, <3>1, CtrlWrite
  <2>9. CASE cst \in {"WRITE_WAIT", "WRITE_FINISH"}
    BY <2>0, <2>9, CtrlWrite DEF Kept, Keep
  <2>. QED BY <2>1, <2>2, <2>3, <2>4, <2>5, <2>6, <2>7, <2>8, <2>9, Where DEF Late
<1>. QED BY <1>1, <1>2, <1>3, <1>4, <1>5, <1>6 DEF BytesInv

-----------------------------------------------------------------------------
(* The command of the driver has been seen by the second machine.          *)
Given == pc = "command" /\ apb_state \in {"WR2", "WR3"} /\ ctrlstate \notin {2, 12}

(* Where the driver knows the host and the controller to be at rest.       *)
Settled == pc \in {"fill", "copy", "done", "read", "write"} \/ (pc = "command" /\ ~Given)
(* What the driver reads while it waits: not busy is at rest.              *)
Told ==
  /\ Polling /\ apb_state = "RD1" /\ pready /\ not_busy(prdata) => Quiet
  /\ Polling /\ apb_state = "RD2" /\ not_busy(ahbls_hrdata) => Quiet

(* The controller works on the block that was commanded.                   *)
Commissioned ==
  cst \notin {"INIT", "IDLE", "IDLE2"} /\ (cst = "NO_R1" => sdsrd \/ sdswr)
    => address = sdsbaddr

QuietInv ==
  /\ Settled => Quiet
  /\ state # 0 => pc = "waitdone" \/ Given
  /\ Given => IF apb_state = "WR2" THEN state \in {1, 10} /\ oecnt = 0
                                   ELSE state \in {2, 16}
  /\ pc = "waitdone" /\ state = 0 => Quiet
  /\ state \in {1, 2, 3, 4} => op.kind = "read"
  /\ state \in {10, 11, 12, 13, 16} => op.kind = "write"
  /\ Told /\ Commissioned

LEMMA QuietStays ==
  ASSUME Tick, MoveInv, Quiet, ctrlstate \notin {2, 12}
  PROVE  Quiet'
<1>1. /\ state = 0 /\ ~sd_busy /\ cst = "IDLE2" /\ ~sdsrd /\ ~sdswr
  BY Where DEF Quiet
<1>2. state' = 0
  BY <1>1, Mover
<1>3. ~sd_busy'
  BY <1>1, CtrlFlags
<1>. QED BY <1>2, <1>3 DEF Quiet

(* The second machine goes back to rest with the controller at rest.       *)
LEMMA QuietEnd ==
  ASSUME Tick, MoveInv, state # 0, state' = 0
  PROVE  /\ Quiet' /\ state \in {4, 10} /\ oecnt = BLOCKSIZE /\ ~sd_busy /\ cst = "IDLE2"
         /\ ~sdsrd /\ ~sdswr
<1>1. state \in {4, 10} /\ oecnt \in 0 .. BLOCKSIZE
  BY Mover DEF MoveInv
<1>2. CASE state = 4
  <2>1. ~sd_busy /\ oecnt = BLOCKSIZE
    BY <1>1, <1>2, Mover, Size
  <2>2. Resting /\ ~sdswr
    BY <1>2, <2>1 DEF MoveInv, InNext, CardSent, Mute
  <2>3. cst = "IDLE2" /\ ~sdsrd
    BY <2>1, <2>2, Where DEF Resting
  <2>4. ~sd_busy'
    BY <2>2, <2>3, CtrlFlags
  <2>. QED BY <1>2, <2>1, <2>2, <2>3, <2>4 DEF Quiet
<1>3. CASE state = 10
  <2>1. ~sd_busy /\ oecnt = BLOCKSIZE
    BY <1>1, <1>3, Mover, Size
  <2>2. Resting /\ ~sdswr
    BY <1>3, <2>1, Size DEF MoveInv, InFetch, CardGot
  <2>3. cst = "IDLE2" /\ ~sdsrd
    BY <2>1, <2>2, Where DEF Resting
  <2>4. ~sd_busy'
    BY <2>2, <2>3, CtrlFlags
  <2>. QED BY <1>3, <2>1, <2>2, <2>3, <2>4 DEF Quiet
<1>. QED BY <1>1, <1>2, <1>3

(* The kind of the operation stays that of the machine.                    *)
LEMMA KindStays ==
  ASSUME Tick, MoveInv, ctrlstate \notin {2, 12} \/ state # 0
  PROVE  /\ state' \in {1, 2, 3, 4} => state \in {1, 2, 3, 4}
         /\ state' \in {10, 11, 12, 13, 16} => state \in {10, 11, 12, 13, 16}
         /\ state = 0 => state' = 0
BY Mover DEF MoveInv

(* The address of the block changes only with a command.                   *)
LEMMA BaddrKept ==
  ASSUME PathInv, Tick
  PROVE  sdsbaddr' = sdsbaddr \/ (apb_state = "WR1" /\ pc = "command")
<1>1. CASE ctrlstate # 0
  BY <1>1, WhenServing
<1>2. CASE ctrlstate = 0 /\ (pready \/ apb_state \notin {"RD1", "WR1"})
  BY <1>2, WhenIdle
<1>3. CASE ctrlstate = 0 /\ ~pready /\ apb_state = "RD1"
  BY <1>3, WhenRead
<1>4. CASE apb_state = "WR1"
  <2>1. pc \in {"command", "fill"}
    BY <1>4 DEF PathInv, AccessInv
  <2>. QED BY <1>4, <2>1, WhenWritten
<1>. QED BY <1>1, <1>2, <1>3, <1>4

LEMMA AddressKept ==
  ASSUME PathInv, MoveInv, QuietInv, Tick
  PROVE  Commissioned'
<1>0. Commissioned
  BY DEF QuietInv
<1>1. CASE apb_state = "WR1" /\ pc = "command"
  <2>1. Quiet
    BY <1>1 DEF QuietInv, Settled, Given
  <2>2. cst = "IDLE2" /\ ~sdsrd /\ ~sdswr
    BY <2>1, Where DEF Quiet
  <2>3. cst' = "IDLE2"
    BY <2>2, CtrlMove
  <2>. QED BY <2>3 DEF Commissioned
<1>2. CASE sdsbaddr' = sdsbaddr
  <2>1. CASE cst \in {"INIT", "IDLE"}
    <3>1. cst' \in {"INIT", "IDLE", "IDLE2", "NO_R1"}
      BY <2>1, CtrlMove
    <3>2. CASE cst = "INIT"
      <4>1. ~sdsrd' /\ ~sdswr'
        BY <3>2, Where, Mover
      <4>. QED BY <3>1, <4>1 DEF Commissioned
    <3>3. CASE cst = "IDLE"
      <4>1. cst' \in {"IDLE", "IDLE2"}
        BY <3>3, CtrlMove
      <4>. QED BY <4>1 DEF Commissioned
    <3>. QED BY <2>1, <3>2, <3>3
  <2>2. CASE cst = "IDLE2"
    <3>1. cst' = "IDLE2" \/ address' = sdsbaddr
      BY <2>2, CtrlMove
    <3>. QED BY <1>2, <3>1 DEF Commissioned
  <2>3. CASE cst = "NO_R1"
    <3>1. address' = address /\ cst' = "NO_R1"
      BY <2>3, CtrlMove DEF Kept, Keep
    <3>2. sdsrd' \/ sdswr' => sdsrd \/ sdswr
      <4>1. state \in {0, 2, 12}
        BY <2>3, Where
      <4>. QED BY <4>1, Mover
    <3>. QED BY <1>0, <1>2, <2>3, <3>1, <3>2 DEF Commissioned
  <2>4. CASE cst \notin {"INIT", "IDLE", "IDLE2", "NO_R1"}
    <3>1. cst = "READ_DATA" => sdsrd
      BY Where
    <3>2. cst = "READ_WAIT" => sdsrd
      BY Where
    <3>3. address' = address
      <4>1. CASE cst \in {"READ_CMD", "WRITE_CMD"}
        BY <4>1, CtrlMove
      <4>2. CASE cst \in {"READ_WAIT", "READ_DATA", "READ_CRC", "READ_FINISH"}
        BY <3>1, <3>2, <4>2, CtrlMove DEF Kept, Keep
      <4>3. CASE cst \in Late
        BY <4>3, CtrlWrite DEF Kept, Keep, Late
      <4>. QED BY <2>4, <4>1, <4>2, <4>3, Where
    <3>. QED BY <1>0, <1>2, <2>4, <3>3 DEF Commissioned
  <2>. QED BY <2>1, <2>2, <2>3, <2>4
<1>. QED BY <1>1, <1>2, BaddrKept

LEMMA ToldKept ==
  ASSUME PathInv, MoveInv, QuietInv, Tick
  PROVE  Told'
<1>1. CASE apb_state \in {"IDLE", "RD2", "WR3"}
  <2>1. apb_state' \notin {"RD1", "RD2"}
    BY <1>1, BridgeEdge
  <2>. QED BY <2>1 DEF Told
<1>2. CASE apb_state \in {"WR0", "WR1", "WR2"}
  <2>1. apb_state' \notin {"RD1", "RD2"}
    BY <1>2, BridgeEdge
  <2>. QED BY <2>1 DEF Told
<1>3. CASE apb_state = "RD0"
  <2>1. apb_state' = "RD1" /\ ~pready'
    BY <1>3, BridgeEdge, WhenIdle DEF PathInv, ServeInv
  <2>. QED BY <2>1 DEF Told
<1>4. CASE apb_state = "RD1"
  <2>1. pc' = pc
    BY <1>4, DriverRests DEF drvVars
  <2>2. CASE ~Polling
    BY <2>1, <2>2 DEF Told, Polling
  <2>3. CASE Polling
    <3>0. ctrlstate \in {0, 1} /\ (ctrlstate = 1 => ~pready)
      BY <1>4, <2>3 DEF PathInv, ServeInv, Polling
    <3>1. CASE ctrlstate = 0 /\ pready
      <4>1. apb_state' = "RD2" /\ ahbls_hrdata' = prdata
        BY <1>4, <3>1, BridgeEdge
      <4>2. not_busy(prdata) => Quiet
        BY <1>4, <2>3, <3>1 DEF QuietInv, Told
      <4>3. not_busy(prdata) => Quiet'
        BY <3>1, <4>2, QuietStays
      <4>. QED BY <4>1, <4>3 DEF Told, not_busy
    <3>2. CASE ctrlstate = 0 /\ ~pready
      <4>1. apb_state' = "RD1" /\ ~pready'
        BY <1>4, <3>2, BridgeEdge, WhenRead
      <4>. QED BY <4>1 DEF Told
    <3>3. CASE ctrlstate = 1
      <4>1. apb_state' = "RD1" /\ prdata' = sdspi_status
        BY <1>4, <3>0, <3>3, BridgeEdge, WhenServing
      <4>2. not_busy(sdspi_status) => Quiet
        BY DEF not_busy, sdspi_status, Quiet
      <4>3. not_busy(sdspi_status) => Quiet'
        BY <3>3, <4>2, QuietStays
      <4>. QED BY <4>1, <4>3 DEF Told, not_busy
    <3>. QED BY <3>0, <3>1, <3>2, <3>3
  <2>. QED BY <2>2, <2>3
<1>. QED BY <1>1, <1>2, <1>3, <1>4 DEF PathInv, AccessInv

(* Where the driver goes from a state of its own.                          *)
LEMMA DriverMove ==
  ASSUME PathInv, Tick
  PROVE  /\ pc \in {"idle", "wait"} =>
              /\ pc' \in {"idle", "wait", "command", "fill"}
              /\ pc' \in {"command", "fill"} => apb_state = "RD2" /\ not_busy(ahbls_hrdata)
         /\ pc = "waitdone" =>
              /\ pc' \in {"waitdone", "copy", "done"} /\ op' = op
              /\ pc' \in {"copy", "done"} => apb_state = "RD2" /\ not_busy(ahbls_hrdata)
         /\ pc = "command" =>
              /\ pc' \in {"command", "waitdone"} /\ op' = op
              /\ pc' = "waitdone" <=> apb_state = "WR3"
         /\ pc \in {"fill", "copy", "done", "read", "write"} =>
              pc' \in {"fill", "copy", "done", "read", "write", "command", "idle"}
<1>1. apb_state # "IDLE" => pc \notin Between
  BY DEF PathInv, AccessInv
<1>2. apb_state \in {"RD2", "WR3"} <=> Ended
  BY DEF PathInv, AccessInv, Ended, ahbls_hready_resp
<1>3. pc \in {"wait", "command", "waitdone", "fill", "copy"} =>
        op \in Op /\ op.kind \in {"read", "write"}
  <2>1. pc \in {"wait", "command", "waitdone", "fill", "copy"} => op \in Op
    BY DEF PathInv, DriverInv
  <2>. QED BY <2>1, OpKind
<1>4. CASE UNCHANGED drvVars /\ ~Ended
  BY <1>1, <1>2, <1>4 DEF drvVars
<1>5. CASE Start
  BY <1>5 DEF Start
<1>6. CASE Continue
  BY <1>6 DEF Continue
<1>7. CASE Return
  <2>1. op \in Op
    BY <1>7 DEF Return, PathInv, DriverInv
  <2>. QED BY <1>7, <2>1, OpKind DEF Return
<1>8. CASE Ended /\ WaitNotBusy
  <2>1. apb_state = "RD2"
    BY <1>2, <1>8 DEF WaitNotBusy, PathInv, AccessInv
  <2>. QED BY <1>3, <1>8, <2>1 DEF WaitNotBusy
<1>9. CASE Ended /\ Commanding
  <2>1. apb_state = "WR3"
    BY <1>2, <1>9 DEF Commanding, PathInv, AccessInv
  <2>. QED BY <1>9, <2>1 DEF Commanding
<1>10. CASE Ended /\ Moved
  BY <1>10 DEF Moved
<1>. QED BY <1>4, <1>5, <1>6, <1>7, <1>8, <1>9, <1>10 DEF Tick, DriverStep

LEMMA QuietKept ==
  ASSUME PathInv, MoveInv, QuietInv, Tick
  PROVE  QuietInv'
<1>0. Told' /\ Commissioned'
  BY ToldKept, AddressKept
<1>1. /\ ctrlstate \in {2, 12} => apb_state = "WR2" /\ pc = "command" /\ ~pready
      /\ ctrlstate = 2 => op.kind = "read"
      /\ ctrlstate = 12 => op.kind = "write"
      /\ apb_state \in {"WR1", "WR2", "WR3"} => pc \in {"command", "fill"}
      /\ apb_state \in {"RD0", "RD1", "RD2"} => pc \in {"wait", "waitdone", "copy"}
      /\ apb_state \in {"IDLE", "RD0", "RD1", "RD2", "WR0", "WR1", "WR2", "WR3"}
      /\ pc \in {"idle", "read", "write", "done", "wait", "command", "waitdone", "fill", "copy"}
  BY DEF PathInv, DriverInv, AccessInv, ServeInv, Between, Polling
<1>2. QuietInv' <=>
        /\ Settled' => Quiet'
        /\ state' # 0 => pc' = "waitdone" \/ Given'
        /\ Given' => IF apb_state' = "WR2" THEN state' \in {1, 10} /\ oecnt' = 0
                                           ELSE state' \in {2, 16}
        /\ pc' = "waitdone" /\ state' = 0 => Quiet'
        /\ state' \in {1, 2, 3, 4} => op'.kind = "read"
        /\ state' \in {10, 11, 12, 13, 16} => op'.kind = "write"
  BY <1>0 DEF QuietInv
<1>3. CASE ctrlstate \in {2, 12}
  <2>1. Quiet
    BY <1>1, <1>3 DEF QuietInv, Settled, Given
  <2>2. UNCHANGED <<pc, op>> /\ apb_state' = "WR2" /\ ctrlstate' = 0
    BY <1>1, <1>3, DriverRests, BridgeEdge, WhenServing DEF drvVars
  <2>3. Given' /\ ~Settled'
    BY <1>1, <1>3, <2>2 DEF Given, Settled
  <2>4. /\ oecnt' = 0 /\ state' = IF ctrlstate = 2 THEN 1 ELSE 10
    BY <1>3, <2>1, Mover DEF Quiet
  <2>. QED BY <1>1, <1>2, <1>3, <2>2, <2>3, <2>4
<1>4. CASE Settled /\ ctrlstate \notin {2, 12}
  <2>1. Quiet' /\ state' = 0
    BY <1>4, QuietStays DEF QuietInv, Quiet
  <2>2. ~Given'
    <3>1. SUFFICES ASSUME Given' PROVE FALSE
      OBVIOUS
    <3>2. pc' = "command" /\ apb_state' \in {"WR2", "WR3"} /\ ctrlstate' \notin {2, 12}
      BY <3>1 DEF Given
    <3>3. apb_state \in {"WR1", "WR2"}
      BY <1>1, <3>2, BridgeEdge
    <3>4. pc = "command" /\ op' = op
      BY <3>2, <3>3, DriverRests DEF drvVars
    <3>5. CASE apb_state = "WR1"
      BY <3>2, <3>4, <3>5, WhenWritten
    <3>6. CASE apb_state = "WR2"
      BY <1>4, <3>4, <3>6 DEF Settled, Given
    <3>. QED BY <3>3, <3>5, <3>6
  <2>. QED BY <1>2, <2>1, <2>2
<1>5. CASE Given
  <2>1. pc = "command" /\ ctrlstate \notin {2, 12} /\ op \in Op
    BY <1>5 DEF Given, PathInv, DriverInv
  <2>2. CASE apb_state = "WR2"
    <3>1. ctrlstate = 0 /\ pready /\ state \in {1, 10} /\ oecnt = 0
      BY <1>5, <2>1, <2>2 DEF QuietInv, PathInv, ServeInv
    <3>2. UNCHANGED <<pc, op>> /\ apb_state' = "WR3" /\ ctrlstate' = 0
      BY <2>2, <3>1, DriverRests, BridgeEdge, WhenIdle DEF drvVars
    <3>3. state' = IF state = 1 THEN 2 ELSE 16
      BY <3>1, Mover, Size
    <3>4. Given' /\ ~Settled'
      BY <2>1, <3>2 DEF Given, Settled
    <3>5. /\ state = 1 => op.kind = "read"
          /\ state = 10 => op.kind = "write"
      BY DEF QuietInv
    <3>. QED BY <1>2, <3>1, <3>2, <3>3, <3>4, <3>5
  <2>3. CASE apb_state = "WR3"
    <3>1. state \in {2, 16} /\ pc' = "waitdone" /\ op' = op
      BY <1>5, <2>1, <2>3, DriverMove DEF QuietInv
    <3>2. /\ state = 2 => state' \in {2, 3}
          /\ state = 16 => state' = 11
      BY Mover
    <3>3. ~Settled' /\ ~Given'
      BY <3>1 DEF Given, Settled
    <3>4. /\ state = 2 => op.kind = "read"
          /\ state = 16 => op.kind = "write"
      BY DEF QuietInv
    <3>. QED BY <1>2, <3>1, <3>2, <3>3, <3>4
  <2>. QED BY <1>5, <2>2, <2>3 DEF Given
<1>6. CASE pc \in {"idle", "wait"}
  <2>1. state = 0 /\ ctrlstate \notin {2, 12}
    BY <1>1, <1>6 DEF QuietInv, Given
  <2>2. state' = 0
    BY <2>1, KindStays
  <2>3. /\ pc' \in {"idle", "wait", "command", "fill"}
        /\ pc' \in {"command", "fill"} => apb_state = "RD2" /\ not_busy(ahbls_hrdata)
    BY <1>6, DriverMove
  <2>4. pc' \in {"command", "fill"} => Quiet'
    <3>1. pc' \in {"command", "fill"} => pc = "wait" /\ Quiet
      BY <1>1, <1>6, <2>3 DEF QuietInv, Told, Polling
    <3>. QED BY <2>1, <3>1, QuietStays
  <2>5. ~Given'
    <3>1. apb_state \notin {"WR1", "WR2"}
      BY <1>1, <1>6
    <3>2. apb_state' \notin {"WR2", "WR3"}
      BY <1>1, <3>1, BridgeEdge
    <3>. QED BY <3>2 DEF Given
  <2>. QED BY <1>2, <2>2, <2>3, <2>4, <2>5 DEF Settled
<1>7. CASE pc = "waitdone"
  <2>1. ctrlstate \notin {2, 12}
    BY <1>1, <1>7
  <2>2. /\ pc' \in {"waitdone", "copy", "done"} /\ op' = op
        /\ pc' \in {"copy", "done"} => apb_state = "RD2" /\ not_busy(ahbls_hrdata)
    BY <1>7, DriverMove
  <2>3. pc' \in {"copy", "done"} => Quiet'
    BY <1>7, <2>1, <2>2, QuietStays DEF QuietInv, Told, Polling
  <2>4. state' = 0 => Quiet'
    <3>1. CASE state = 0
      BY <1>7, <2>1, <3>1, QuietStays DEF QuietInv
    <3>2. CASE state # 0
      BY <3>2, QuietEnd
    <3>. QED BY <3>1, <3>2
  <2>5. /\ state' \in {1, 2, 3, 4} => op.kind = "read"
        /\ state' \in {10, 11, 12, 13, 16} => op.kind = "write"
    BY <2>1, KindStays DEF QuietInv
  <2>6. ~Given'
    BY <2>2 DEF Given
  <2>7. Settled' => Quiet'
    BY <2>2, <2>3 DEF Settled
  <2>8. state' # 0 => pc' = "waitdone"
    BY <2>2, <2>3 DEF Quiet
  <2>. QED BY <1>2, <2>2, <2>4, <2>5, <2>6, <2>7, <2>8
<1>. QED BY <1>1, <1>3, <1>4, <1>5, <1>6, <1>7 DEF Settled

-----------------------------------------------------------------------------
(* What is in the block memory when the driver fills or copies it.         *)
FillInv ==
  /\ pc = "fill" => \A j \in Index : j < i => m[j] = op.data[j]
  /\ pc = "fill" /\ (apb_state = "WR3" \/ (apb_state = "WR2" /\ (pready \/ ctrlstate = 6)))
       => m[i] = op.data[i]
  /\ pc \in {"command", "waitdone"} /\ op.kind = "write" => m = op.data

CopyInv ==
  /\ buffer \in [Index -> Byte]
  /\ ctrlstate = 16 => mout = m[i]
  /\ pc = "copy" /\ apb_state = "RD1" /\ pready => prdata = m[i]
  /\ pc = "copy" /\ apb_state = "RD2" => ahbls_hrdata = m[i]
  /\ pc = "copy" => \A j \in Index : j < i => buffer[j] = m[j]
  /\ pc = "done" /\ op.kind = "read" => buffer = m

(* Who uses the block memory, and when.                                    *)
LEMMA Users ==
  ASSUME PathInv, MoveInv, QuietInv
  PROVE  /\ mw1 => pc = "fill" /\ apb_state = "WR2" /\ ctrlstate = 5 /\ state = 0
                   /\ maddr1 = i /\ midata1 = op.data[i] /\ ~mr1
         /\ mr1 => pc = "copy" /\ apb_state = "RD1" /\ ctrlstate = 15 /\ state = 0
                   /\ maddr1 = i
         /\ mw2 => state = 4 /\ op.kind = "read" /\ (pc = "waitdone" \/ Given) /\ ~mw1 /\ ~mr1
<1>1. mw1 => /\ pc = "fill" /\ apb_state = "WR2" /\ ctrlstate = 5
             /\ maddr1 = i /\ midata1 = op.data[i] /\ ~mr1
  BY DEF PathInv, ServeInv
<1>2. mr1 => pc = "copy" /\ apb_state = "RD1" /\ ctrlstate = 15 /\ maddr1 = i
  BY DEF PathInv, ServeInv
<1>3. mw1 \/ mr1 => state = 0
  BY <1>1, <1>2 DEF QuietInv, Settled, Quiet
<1>4. mw2 => state = 4
  BY Where
<1>. QED BY <1>1, <1>2, <1>3, <1>4 DEF QuietInv

(* An edge of the block memory.                                            *)
LEMMA Memory ==
  ASSUME PathInv, MoveInv, QuietInv, BytesInv, Tick
  PROVE  /\ ~mw1 /\ ~mw2 => m' = m
         /\ mw1 => m' = [m EXCEPT ![i] = op.data[i]]
         /\ mw2 => m' = [m EXCEPT ![maddr2] = midata2]
         /\ mr1 => mout' = m[i]
         /\ ~mr1 /\ ~mw1 => mout' = m[maddr2]
<1>1. BramTick
  BY DEF Tick, HostTick
<1>. QED BY <1>1, Users DEF BramTick, maddr, midata

LEMMA FillKept ==
  ASSUME PathInv, MoveInv, QuietInv, BytesInv, FillInv, Tick
  PROVE  FillInv'
<1>0. /\ i \in 0 .. BLOCKSIZE /\ (pc = "fill" => i \in Index /\ op.kind = "write")
      /\ pc = "fill" => op.data \in [Index -> Byte] /\ op \in Op
      /\ m \in [Index -> Byte]
  <2>1. i \in 0 .. BLOCKSIZE /\ (pc = "fill" => i \in Index /\ op.kind = "write" /\ op \in Op)
    BY Size DEF PathInv, DriverInv
  <2>. QED BY <2>1, OpKind DEF BytesInv
<1>1. apb_state \in {"IDLE", "RD0", "RD1", "RD2", "WR0", "WR1", "WR2", "WR3"}
  BY DEF PathInv, AccessInv
<1>2. CASE pc = "fill" /\ apb_state \in {"WR0", "WR1", "WR2"}
  <2>1. UNCHANGED <<pc, op, i>> /\ apb_state' \in {"WR1", "WR2", "WR3"}
    BY <1>2, DriverRests, BridgeEdge DEF drvVars
  <2>2. /\ ~mw2 /\ (mw1 => m' = [m EXCEPT ![i] = op.data[i]])
        /\ ~mw1 => m' = m
    BY <1>2, Users, Memory DEF Given
  <2>3. \A j \in Index : j < i => m'[j] = op.data[j]
    BY <1>0, <1>2, <2>2, Size DEF FillInv
  <2>4. apb_state' = "WR3" \/ (apb_state' = "WR2" /\ (pready' \/ ctrlstate' = 6))
          => m'[i] = op.data[i]
    <3>1. CASE apb_state = "WR0"
      <4>1. apb_state' = "WR1"
        BY <3>1, BridgeEdge
      <4>. QED BY <4>1
    <3>2. CASE apb_state = "WR1"
      <4>1. apb_state' = "WR2" /\ ~pready' /\ ctrlstate' = 5
        BY <1>2, <3>2, BridgeEdge, WhenWritten
      <4>. QED BY <4>1
    <3>3. CASE apb_state = "WR2"
      <4>1. ctrlstate = 5 \/ ((pready \/ ctrlstate = 6) /\ ctrlstate # 5)
        BY <1>2, <3>3 DEF PathInv, ServeInv
      <4>2. CASE ctrlstate = 5
        <5>1. mw1
          BY <4>2 DEF PathInv, ServeInv
        <5>. QED BY <1>0, <1>2, <2>2, <5>1
      <4>3. CASE (pready \/ ctrlstate = 6) /\ ctrlstate # 5
        <5>1. ~mw1
          BY <4>3, Users
        <5>. QED BY <1>2, <2>2, <3>3, <4>3, <5>1 DEF FillInv
      <4>. QED BY <4>1, <4>2, <4>3
    <3>. QED BY <1>2, <3>1, <3>2, <3>3
  <2>. QED BY <1>2, <2>1, <2>3, <2>4 DEF FillInv
<1>3. CASE ~(pc = "fill" /\ apb_state \in {"WR0", "WR1", "WR2"})
  <2>1. ~mw1
    BY <1>3, Users
  <2>2. mw2 => op.kind = "read" /\ pc \in {"waitdone", "command"}
    BY Users DEF Given
  <2>3. pc \notin {"waitdone", "command"} \/ op.kind = "write" => m' = m
    BY <2>1, <2>2, Memory
  <2>4. apb_state \in {"WR2", "WR1", "WR0"} => pc = "command" /\ pc' = pc
    <3>1. apb_state \in {"WR2", "WR1", "WR0"} => pc = "command"
      BY <1>3 DEF PathInv, AccessInv
    <3>. QED BY <3>1, DriverRests DEF drvVars
  <2>5. pc' = "fill" => apb_state' \notin {"WR2", "WR3"}
    <3>1. pc' = "fill" => apb_state \notin {"WR0", "WR1", "WR2"}
      BY <2>4
    <3>. QED BY <1>1, <3>1, BridgeEdge
  <2>6. CASE UNCHANGED drvVars
    <3>1. UNCHANGED <<pc, op, i>>
      BY <2>6 DEF drvVars
    <3>. QED BY <2>3, <2>5, <3>1 DEF FillInv
  <2>7. CASE Start \/ Return
    <3>1. pc' \notin {"fill", "command", "waitdone"}
      <4>1. CASE Start BY <4>1 DEF Start
      <4>2. CASE Return
        <5>1. op \in Op
          BY <4>2 DEF Return, PathInv, DriverInv
        <5>. QED BY <4>2, <5>1, OpKind DEF Return
      <4>. QED BY <2>7, <4>1, <4>2
    <3>. QED BY <3>1 DEF FillInv
  <2>8. CASE Continue
    <3>1. i = 0
      BY <2>8 DEF Continue, PathInv, DriverInv
    <3>2. i' = 0 /\ pc' \in {"command", "fill"} /\ (pc' = "command" => op'.kind = "read")
      BY <2>8, <3>1 DEF Continue
    <3>. QED BY <2>5, <3>2, Size DEF FillInv
  <2>9. CASE WaitNotBusy
    <3>1. /\ i' = 0 /\ op' = op
          /\ pc = "wait" =>
               pc' \in {"wait", "command", "fill"} /\ (pc' = "command" => op.kind = "read")
          /\ pc = "waitdone" => pc' \in {"waitdone", "copy", "done"}
          /\ pc \in {"wait", "waitdone"}
      BY <2>9 DEF WaitNotBusy
    <3>. QED BY <2>3, <2>5, <3>1, Size DEF FillInv
  <2>10. CASE Commanding
    BY <2>3, <2>10 DEF Commanding, FillInv
  <2>11. CASE Ended /\ Moved
    <3>1. CASE pc = "copy"
      <4>1. pc' \notin {"fill", "command", "waitdone"}
        BY <2>11, <3>1 DEF Moved
      <4>. QED BY <4>1 DEF FillInv
    <3>2. CASE pc = "fill"
      <4>1. apb_state = "WR3"
        BY <1>1, <1>3, <2>11, <3>2 DEF PathInv, AccessInv, Ended
      <4>2. \A j \in Index : j < i + 1 => m[j] = op.data[j]
        BY <1>0, <3>2, <4>1, Size DEF FillInv
      <4>3. /\ i' = i + 1 /\ op' = op /\ m' = m
            /\ pc' = IF i + 1 < BLOCKSIZE THEN "fill" ELSE "command"
        BY <2>3, <2>11, <3>2 DEF Moved
      <4>4. i + 1 < BLOCKSIZE \/ m = op.data
        <5>1. SUFFICES ASSUME ~(i + 1 < BLOCKSIZE) PROVE m = op.data
          OBVIOUS
        <5>2. \A j \in Index : m[j] = op.data[j]
          BY <1>0, <4>2, <5>1, Size
        <5>3. m \in [Index -> Byte] /\ op.data \in [Index -> Byte]
          BY <1>0, <3>2
        <5>. QED BY <5>2, <5>3
      <4>. QED BY <2>5, <4>2, <4>3, <4>4 DEF FillInv
    <3>. QED BY <2>11, <3>1, <3>2 DEF Moved
  <2>. QED BY <2>6, <2>7, <2>8, <2>9, <2>10, <2>11 DEF Tick, DriverStep
<1>. QED BY <1>2, <1>3

LEMMA CopyKept ==
  ASSUME PathInv, MoveInv, QuietInv, BytesInv, CopyInv, Tick
  PROVE  CopyInv'
<1>0. /\ i \in 0 .. BLOCKSIZE /\ (pc = "copy" => i \in Index /\ op.kind = "read")
      /\ m \in [Index -> Byte] /\ buffer \in [Index -> Byte]
  BY Size DEF PathInv, DriverInv, BytesInv, CopyInv
<1>1. apb_state \in {"IDLE", "RD0", "RD1", "RD2", "WR0", "WR1", "WR2", "WR3"}
  BY DEF PathInv, AccessInv
<1>2. pc \in {"copy", "done"} => m' = m
  <2>1. pc \in {"copy", "done"} => ~mw1 /\ ~mw2
    BY Users DEF Given
  <2>. QED BY <2>1, Memory
<1>3. ctrlstate' = 16 => mout' = m'[i']
  <2>1. SUFFICES ASSUME ctrlstate' = 16 PROVE mout' = m'[i']
    OBVIOUS
  <2>2. ctrlstate = 15
    <3>1. CASE ctrlstate = 0 /\ (pready \/ apb_state \notin {"RD1", "WR1"})
      BY <2>1, <3>1, WhenIdle
    <3>2. CASE ctrlstate = 0 /\ ~pready /\ apb_state = "RD1"
      <4>1. pc \in {"wait", "waitdone", "copy"}
        BY <3>2 DEF PathInv, AccessInv
      <4>. QED BY <2>1, <3>2, <4>1, WhenRead DEF Polling
    <3>3. CASE apb_state = "WR1"
      <4>1. pc \in {"command", "fill"}
        BY <3>3 DEF PathInv, AccessInv
      <4>. QED BY <2>1, <3>3, <4>1, WhenWritten
    <3>4. CASE ctrlstate # 0
      BY <2>1, <3>4, WhenServing
    <3>. QED BY <3>1, <3>2, <3>3, <3>4
  <2>3. mr1 /\ pc = "copy" /\ apb_state = "RD1"
    BY <2>2, Users DEF PathInv, ServeInv
  <2>4. mout' = m[i] /\ m' = m /\ i' = i
    BY <1>2, <2>3, Memory, DriverRests DEF drvVars
  <2>. QED BY <2>4
<1>4. CASE pc = "copy" /\ apb_state \in {"RD0", "RD1"}
  <2>1. UNCHANGED <<pc, op, i, buffer>> /\ m' = m
    BY <1>2, <1>4, DriverRests DEF drvVars
  <2>2. /\ apb_state' = "RD1" /\ pready' => prdata' = m[i]
        /\ apb_state' = "RD2" => ahbls_hrdata' = m[i]
    <3>1. CASE apb_state = "RD0"
      BY <3>1, BridgeEdge, WhenIdle DEF PathInv, ServeInv
    <3>2. CASE apb_state = "RD1" /\ pready
      <4>1. apb_state' = "RD2" /\ ahbls_hrdata' = prdata
        BY <3>2, BridgeEdge
      <4>. QED BY <1>4, <3>2, <4>1 DEF CopyInv
    <3>3. CASE apb_state = "RD1" /\ ~pready
      <4>1. apb_state' = "RD1"
        BY <3>3, BridgeEdge
      <4>2. ctrlstate \in {0, 15, 16}
        BY <1>4, <3>3 DEF PathInv, ServeInv, Polling
      <4>3. ctrlstate = 16 => prdata' = mout /\ mout = m[i]
        BY WhenServing DEF CopyInv
      <4>4. ctrlstate # 16 => ~pready'
        BY <3>3, <4>2, WhenServing, WhenRead
      <4>. QED BY <4>1, <4>3, <4>4
    <3>. QED BY <1>4, <3>1, <3>2, <3>3
  <2>. QED BY <1>0, <1>3, <1>4, <2>1, <2>2 DEF CopyInv
<1>5. CASE ~(pc = "copy" /\ apb_state \in {"RD0", "RD1"})
  <2>1. pc' = "copy" => apb_state' \notin {"RD1", "RD2"}
    <3>1. apb_state \in {"RD0", "RD1"} => pc' # "copy"
      <4>1. apb_state \in {"RD0", "RD1"} => pc # "copy" /\ pc' = pc
        BY <1>5, DriverRests DEF drvVars
      <4>. QED BY <4>1
    <3>. QED BY <1>1, <3>1, BridgeEdge
  <2>2. SUFFICES /\ buffer' \in [Index -> Byte]
                 /\ pc' = "copy" => \A j \in Index : j < i' => buffer'[j] = m'[j]
                 /\ pc' = "done" /\ op'.kind = "read" => buffer' = m'
    BY <1>3, <2>1 DEF CopyInv
  <2>3. CASE UNCHANGED drvVars
    <3>1. UNCHANGED <<pc, op, i, buffer>>
      BY <2>3 DEF drvVars
    <3>. QED BY <1>0, <1>2, <3>1 DEF CopyInv
  <2>4. CASE Start
    BY <1>0, <2>4 DEF Start
  <2>5. CASE Continue
    BY <1>0, <2>5 DEF Continue
  <2>6. CASE Return
    <3>1. op \in Op
      BY <2>6 DEF Return, PathInv, DriverInv
    <3>. QED BY <1>0, <2>6, <3>1, OpKind DEF Return
  <2>7. CASE WaitNotBusy
    <3>1. i' = 0 /\ op' = op /\ buffer' = buffer /\ (pc' = "done" => op.kind # "read")
      BY <2>7 DEF WaitNotBusy
    <3>. QED BY <1>0, <3>1, Size
  <2>8. CASE Commanding
    BY <1>0, <2>8 DEF Commanding
  <2>9. CASE Ended /\ Moved
    <3>1. CASE pc = "fill"
      <4>1. pc' \notin {"copy", "done"} /\ buffer' = buffer
        BY <2>9, <3>1 DEF Moved
      <4>. QED BY <1>0, <4>1
    <3>2. CASE pc = "copy"
      <4>1. apb_state = "RD2"
        BY <1>1, <1>5, <2>9, <3>2 DEF PathInv, AccessInv, Ended
      <4>2. ahbls_hrdata = m[i] /\ m' = m
        BY <1>2, <3>2, <4>1 DEF CopyInv
      <4>3. /\ i' = i + 1 /\ op' = op /\ pc' = IF i + 1 < BLOCKSIZE THEN "copy" ELSE "done"
            /\ buffer' = [buffer EXCEPT ![i] = m[i]]
        BY <2>9, <3>2, <4>2 DEF Moved
      <4>4. buffer' \in [Index -> Byte]
        BY <1>0, <3>2, <4>3
      <4>5. \A j \in Index : j < i + 1 => buffer'[j] = m[j]
        BY <1>0, <3>2, <4>3, Size DEF CopyInv
      <4>6. i + 1 < BLOCKSIZE \/ buffer' = m
        <5>1. SUFFICES ASSUME ~(i + 1 < BLOCKSIZE) PROVE buffer' = m
          OBVIOUS
        <5>2. \A j \in Index : buffer'[j] = m[j]
          BY <1>0, <4>5, <5>1, Size
        <5>. QED BY <1>0, <4>4, <5>2
      <4>. QED BY <4>2, <4>3, <4>4, <4>5, <4>6
    <3>. QED BY <2>9, <3>1, <3>2 DEF Moved
  <2>. QED BY <2>3, <2>4, <2>5, <2>6, <2>7, <2>8, <2>9 DEF Tick, DriverStep
<1>. QED BY <1>4, <1>5

-----------------------------------------------------------------------------
(* What has been read from the memory on its way to the card, what the     *)
(* card has got, and what it then holds.                                   *)
Blk == card[op.block]
Stored ==
  \/ cst \in {"WRITE_WAIT", "WRITE_FINISH"}
  \/ state = 10 /\ oecnt = BLOCKSIZE /\ cst \in {"IDLE", "IDLE2"}
  \/ op # NoOp /\ op.kind = "write" /\ (pc = "done" \/ (pc = "waitdone" /\ state = 0))
WriteInv ==
  /\ state = 16 => maddr2 = oecnt
  /\ state = 11 => mout = m[oecnt]
  /\ state = 12 => sdsdin = m[oecnt]
  /\ cst \in Late /\ ~sd_error => \A j \in 1 .. Len(wbuf) : wbuf[j] = m[j - 1]
  /\ Stored => sd_error \/ Blk = op.data

(* While a block moves, its operation and its address stay.                *)
LEMMA Moves ==
  ASSUME PathInv, MoveInv, QuietInv, Tick, state # 0
  PROVE  /\ op' = op /\ op \in Op /\ sdsbaddr = op.block /\ op.block \in Block
         /\ pc = "waitdone" \/ Given
         /\ pc' = "waitdone" \/ Given' \/ state' = 0
         /\ cst \notin {"INIT", "IDLE", "IDLE2", "NO_R1"} => address = op.block
<1>1. (pc = "waitdone" \/ Given) /\ Commissioned
  BY DEF QuietInv
<1>2. pc \in {"waitdone", "command"} /\ op \in Op
  BY <1>1 DEF Given, PathInv, DriverInv
<1>3. op' = op
  BY <1>2, DriverMove
<1>4. sdsbaddr = op.block
  BY <1>1 DEF Given, PathInv, ServeInv
<1>5. pc' = "waitdone" \/ Given' \/ state' = 0
  BY QuietKept DEF QuietInv
<1>6. op.block \in Block
  BY <1>2, OpKind
<1>. QED BY <1>1, <1>2, <1>3, <1>4, <1>5, <1>6 DEF Commissioned

(* The controller at rest leaves the card and the error as they are.       *)
LEMMA AtRest ==
  ASSUME Tick, MoveInv, Quiet
  PROVE  /\ card' = card /\ (sd_error' <=> sd_error) /\ cst' = "IDLE2"
         /\ cst = "IDLE2" /\ ~sdsrd /\ ~sdswr
<1>1. cst = "IDLE2" /\ ~sdsrd /\ ~sdswr
  BY Where DEF Quiet
<1>2. Kept /\ cst' = "IDLE2"
  BY <1>1, CtrlMove
<1>. QED BY <1>1, <1>2 DEF Kept, Keep

LEMMA StoredKept ==
  ASSUME PathInv, MoveInv, QuietInv, BytesInv, FillInv, WriteInv, Tick
  PROVE  Stored' => sd_error' \/ Blk' = op'.data
<1>0. /\ card \in [Block -> [Index -> Byte]]
  BY DEF BytesInv
<1>1. ASSUME cst' \in {"WRITE_WAIT", "WRITE_FINISH"}
      PROVE  sd_error' \/ Blk' = op'.data
  <2>1. cst \in Late \cup {"WRITE_CMD"} /\ state \in {10, 11, 12, 13, 16}
    BY <1>1, Where, CtrlMove
  <2>2. /\ op' = op /\ op.block \in Block /\ address = op.block /\ op.kind = "write" /\ op \in Op
        /\ m = op.data
    <3>1. pc = "waitdone" \/ Given
      BY <2>1 DEF QuietInv
    <3>2. op.kind = "write"
      BY <2>1 DEF QuietInv
    <3>3. m = op.data
      BY <3>1, <3>2 DEF FillInv, Given
    <3>4. op' = op /\ op.block \in Block /\ address = op.block /\ op \in Op
      BY <2>1, Moves DEF Late
    <3>. QED BY <3>2, <3>3, <3>4
  <2>3. CASE cst = "WRITE_CMD"
    BY <1>1, <2>3, CtrlMove
  <2>4. CASE cst \in {"WRITE_DATA", "WRITE_BYTE"}
    BY <1>1, <2>4, CtrlWrite
  <2>5. CASE cst = "WRITE_RESPONSE"
    <3>1. CASE sd_error'
      BY <3>1
    <3>2. CASE ~sd_error'
      <4>1. /\ ~sd_error
            /\ card' = [card EXCEPT ![address] = [j \in Index |-> wbuf[j + 1]]]
        BY <1>1, <2>5, <3>2, CtrlWrite
      <4>2. Len(wbuf) = BLOCKSIZE
        BY <2>5, Where
      <4>3. \A j \in Index : wbuf[j + 1] = m[j]
        <5>1. ASSUME NEW j \in Index PROVE wbuf[j + 1] = m[j]
          <6>1. j + 1 \in 1 .. Len(wbuf) /\ (j + 1) - 1 = j
            BY <4>2, Size
          <6>2. wbuf[j + 1] = m[(j + 1) - 1]
            BY <2>5, <4>1, <6>1 DEF WriteInv, Late
          <6>. QED BY <6>1, <6>2
        <5>. QED BY <5>1
      <4>4. [j \in Index |-> wbuf[j + 1]] = m
        BY <4>3 DEF BytesInv
      <4>5. Blk' = m
        BY <1>0, <2>2, <4>1, <4>4 DEF Blk
      <4>. QED BY <2>2, <4>5
    <3>. QED BY <3>1, <3>2
  <2>6. CASE cst \in {"WRITE_WAIT", "WRITE_FINISH"}
    <3>1. card' = card /\ (sd_error => sd_error')
      BY <1>1, <2>6, CtrlWrite DEF Kept, Keep
    <3>2. sd_error \/ Blk = op.data
      BY <2>6 DEF WriteInv, Stored
    <3>. QED BY <2>2, <3>1, <3>2 DEF Blk
  <2>. QED BY <2>1, <2>3, <2>4, <2>5, <2>6 DEF Late
<1>2. ASSUME state' = 10, oecnt' = BLOCKSIZE, cst' \in {"IDLE", "IDLE2"}
      PROVE  sd_error' \/ Blk' = op'.data
  <2>1. state \in {0, 10, 13}
    BY <1>2, Mover DEF MoveInv
  <2>2. CASE state = 0
    BY <1>2, <2>2, Mover, Size
  <2>3. CASE state = 13
    <3>1. cst \in Late /\ sdswr
      BY <2>3 DEF MoveInv, InTaken, CardGot
    <3>. QED BY <1>2, <3>1, CtrlWrite DEF Late
  <2>4. CASE state = 10
    <3>1. oecnt = BLOCKSIZE /\ ~sdsrd /\ op' = op
      <4>1. oecnt = BLOCKSIZE
        BY <1>2, <2>4, Mover, Size DEF MoveInv
      <4>2. ~sdsrd
        BY <2>4, Where
      <4>. QED BY <2>4, <4>1, <4>2, Moves
    <3>2. cst \in {"IDLE", "IDLE2", "WRITE_FINISH"} /\ (cst = "IDLE2" => ~sdswr)
      <4>1. InFetch
        BY <2>4 DEF MoveInv
      <4>2. CASE ~sdswr /\ Free({"IDLE", "IDLE2"})
        BY <4>2 DEF Free
      <4>3. CASE CardGot(oecnt)
        <5>1. cst \in Late
          BY <4>3 DEF CardGot
        <5>. QED BY <1>2, <5>1, CtrlWrite DEF Late
      <4>. QED BY <3>1, <4>1, <4>2, <4>3, Size DEF InFetch
    <3>3. sd_error \/ Blk = op.data
      BY <2>4, <3>1, <3>2 DEF WriteInv, Stored
    <3>4. card' = card /\ (sd_error' <=> sd_error)
      <4>1. Kept
        BY <3>1, <3>2, CtrlMove, CtrlWrite
      <4>. QED BY <4>1 DEF Kept, Keep
    <3>. QED BY <3>1, <3>3, <3>4 DEF Blk
  <2>. QED BY <2>1, <2>2, <2>3, <2>4
<1>3. ASSUME op' # NoOp, op'.kind = "write", pc' = "done" \/ (pc' = "waitdone" /\ state' = 0)
      PROVE  sd_error' \/ Blk' = op'.data
  <2>1. CASE pc = "waitdone" /\ state # 0
    <3>1. op' = op
      BY <2>1, DriverMove
    <3>2. state' = 0
      <4>1. pc' = "done" => Quiet
        BY <2>1, DriverMove DEF QuietInv, Told, Polling
      <4>. QED BY <1>3, <2>1, <4>1 DEF Quiet
    <3>3. /\ state \in {4, 10} /\ oecnt = BLOCKSIZE /\ cst = "IDLE2" /\ ~sdsrd /\ ~sdswr
      BY <2>1, <3>2, QuietEnd
    <3>4. state = 10
      BY <1>3, <3>1, <3>3 DEF QuietInv
    <3>5. sd_error \/ Blk = op.data
      BY <3>3, <3>4 DEF WriteInv, Stored
    <3>6. card' = card /\ (sd_error' <=> sd_error)
      BY <3>3, CtrlMove DEF Kept, Keep
    <3>. QED BY <3>1, <3>5, <3>6 DEF Blk
  <2>2. CASE pc = "done" \/ (pc = "waitdone" /\ state = 0)
    <3>1. op' = op
      <4>1. CASE pc = "waitdone" BY <4>1, DriverMove
      <4>2. CASE pc = "done"
        <5>1. ~Ended
          BY <4>2 DEF PathInv, AccessInv, Ended, Between
        <5>2. UNCHANGED drvVars \/ op' = NoOp
          BY <4>2, <5>1 DEF Tick, DriverStep, Start, Continue, Return
        <5>. QED BY <1>3, <5>2 DEF drvVars
      <4>. QED BY <2>2, <4>1, <4>2
    <3>2. Quiet
      BY <2>2 DEF QuietInv, Settled
    <3>3. sd_error \/ Blk = op.data
      BY <1>3, <2>2, <3>1 DEF WriteInv, Stored
    <3>. QED BY <3>1, <3>2, <3>3, AtRest DEF Blk
  <2>3. CASE pc \notin {"waitdone", "done"}
    <3>1. CASE pc' = "waitdone"
      <4>1. pc = "command" /\ apb_state = "WR3"
        BY <2>3, <3>1, DriverMove DEF PathInv, DriverInv, Between
      <4>2. Given /\ state \in {2, 16}
        BY <4>1 DEF Given, QuietInv, PathInv, ServeInv
      <4>. QED BY <1>3, <3>1, <4>2, Mover
    <3>2. CASE pc' = "done"
      <4>1. pc = "copy" /\ op' = op
        <5>1. pc \notin {"idle", "wait", "command"}
          BY <3>2, DriverMove
        <5>2. CASE Moved
          BY <2>3, <3>2, <5>2 DEF Moved
        <5>3. CASE Start BY <3>2, <5>3 DEF Start
        <5>4. CASE Continue BY <3>2, <5>4 DEF Continue
        <5>5. CASE Return BY <2>3, <5>5 DEF Return
        <5>6. CASE WaitNotBusy BY <2>3, <5>1, <5>6 DEF WaitNotBusy
        <5>7. CASE Commanding BY <5>1, <5>7 DEF Commanding
        <5>8. CASE UNCHANGED drvVars BY <2>3, <3>2, <5>8 DEF drvVars
        <5>. QED BY <5>2, <5>3, <5>4, <5>5, <5>6, <5>7, <5>8 DEF Tick, DriverStep
      <4>. QED BY <1>3, <4>1 DEF PathInv, DriverInv
    <3>. QED BY <1>3, <3>1, <3>2
  <2>. QED BY <2>1, <2>2, <2>3
<1>. QED BY <1>1, <1>2, <1>3 DEF Stored

LEMMA WriteKept ==
  ASSUME PathInv, MoveInv, QuietInv, BytesInv, FillInv, WriteInv, Tick
  PROVE  WriteInv'
<1>1. state \in {10, 11, 12, 13, 16} => m' = m /\ mout' = m[maddr2] /\ ~mr1 /\ ~mw1
  <2>1. state \in {10, 11, 12, 13, 16} => ~mw1 /\ ~mr1 /\ ~mw2
    BY Users
  <2>. QED BY <2>1, Memory
<1>2. state' = 16 => maddr2' = oecnt'
  <2>1. state' = 16 => state = 10 /\ oecnt < BLOCKSIZE
    BY Mover DEF MoveInv
  <2>. QED BY <2>1, Mover
<1>3. state' = 11 => mout' = m'[oecnt']
  <2>1. state' = 11 => state = 16
    BY Mover DEF MoveInv
  <2>2. state = 16 => oecnt' = oecnt /\ maddr2 = oecnt
    BY Mover DEF WriteInv
  <2>. QED BY <1>1, <2>1, <2>2
<1>4. state' = 12 => sdsdin' = m'[oecnt']
  <2>1. state' = 12 => state \in {11, 12}
    BY Mover DEF MoveInv
  <2>2. state = 11 => oecnt' = oecnt /\ sdsdin' = mout /\ mout = m[oecnt]
    BY Mover DEF WriteInv
  <2>3. state = 12 => oecnt' = oecnt /\ sdsdin' = sdsdin /\ sdsdin = m[oecnt]
    BY Mover DEF WriteInv
  <2>. QED BY <1>1, <2>1, <2>2, <2>3
<1>5. ASSUME cst' \in Late, ~sd_error'
      PROVE  \A j \in 1 .. Len(wbuf') : wbuf'[j] = m'[j - 1]
  <2>1. cst \in Late \cup {"WRITE_CMD"} /\ state \in {10, 11, 12, 13, 16}
    BY <1>5, Where, CtrlMove DEF Late
  <2>2. CASE cst = "WRITE_CMD"
    <3>1. wbuf' = <<>>
      BY <1>5, <2>2, CtrlMove DEF Late
    <3>2. Len(wbuf') = 0
      BY <3>1
    <3>. QED BY <3>2
  <2>3. CASE cst \in Late /\ wbuf' = wbuf
    <3>1. ~sd_error
      BY <1>5, <2>3, CtrlWrite DEF Late, Kept, Keep
    <3>. QED BY <1>1, <2>1, <2>3, <3>1 DEF WriteInv
  <2>4. CASE cst = "WRITE_DATA" /\ TakeByte(sdswr) /\ wbuf' = Append(wbuf, sdsdin)
    <3>1. state = 12
      <4>1. din_latch
        BY <2>4 DEF TakeByte
      <4>. QED BY <2>1, <4>1 DEF MoveInv, InFetch, NoDin, InTaken
    <3>2. Len(wbuf) = oecnt /\ oecnt \in Nat
      <4>1. ~din_taken
        BY <2>4, <3>1 DEF MoveInv, InOffer, TakeByte
      <4>2. CardGot(oecnt)
        BY <2>4, <3>1, <4>1 DEF MoveInv, InOffer, Ready
      <4>. QED BY <4>2, Size DEF MoveInv, CardGot
    <3>3. sdsdin = m[oecnt] /\ ~sd_error
      BY <1>5, <2>4, <3>1, CtrlWrite DEF WriteInv
    <3>4. wbuf \in Seq(Byte) /\ sdsdin \in Byte
      BY DEF BytesInv
    <3>5. /\ Len(wbuf') = oecnt + 1 /\ wbuf'[oecnt + 1] = sdsdin
          /\ \A j \in 1 .. oecnt : wbuf'[j] = wbuf[j]
      BY <2>4, <3>2, <3>4, AppendProperties
    <3>6. \A j \in 1 .. oecnt : wbuf[j] = m[j - 1]
      BY <2>4, <3>2, <3>3 DEF WriteInv, Late
    <3>7. ASSUME NEW j \in 1 .. oecnt + 1 PROVE wbuf'[j] = m[j - 1]
      <4>1. CASE j = oecnt + 1
        BY <3>2, <3>3, <3>5, <4>1
      <4>2. CASE j \in 1 .. oecnt
        BY <3>5, <3>6, <4>2
      <4>. QED BY <3>2, <4>1, <4>2
    <3>. QED BY <1>1, <2>1, <3>5, <3>7
  <2>5. cst \in Late => wbuf' = wbuf
          \/ (cst = "WRITE_DATA" /\ TakeByte(sdswr) /\ wbuf' = Append(wbuf, sdsdin))
    BY CtrlWrite DEF Late, Kept, Keep
  <2>. QED BY <2>1, <2>2, <2>3, <2>4, <2>5
<1>6. Stored' => sd_error' \/ Blk' = op'.data
  BY StoredKept
<1>. QED BY <1>2, <1>3, <1>4, <1>5, <1>6 DEF WriteInv, Late

(* What the card has sent on its way to the memory.  The error shows after *)
(* the block, by its CRC.                                                  *)
Marred == sd_error \/ (corrupt /\ cst \in {"READ_DATA", "READ_CRC"})
Got == IF mw2 THEN oecnt - 1 ELSE oecnt
Read ==
  op # NoOp /\ op.kind = "read" /\ (pc \in {"copy", "done"} \/ (pc = "waitdone" /\ state = 0))
ReadInv ==
  /\ state \in {2, 3} /\ dout_avail => Marred \/ dout = Blk[oecnt]
  /\ state = 3 => Marred \/ outbyte = Blk[oecnt]
  /\ mw2 => maddr2 = oecnt - 1 /\ (Marred \/ midata2 = Blk[oecnt - 1])
  /\ state \in {2, 3, 4} => Marred \/ \A j \in Index : j < Got => m[j] = Blk[j]
  /\ Read => sd_error \/ m = Blk

LEMMA MarredStays ==
  ASSUME Tick, MoveInv, Marred, state \in {2, 3, 4}, cst # "IDLE2" \/ ~sdsrd
  PROVE  Marred'
<1>1. ~sdswr
  BY Where
<1>2. CASE cst \in {"READ_DATA", "READ_CRC"}
  <2>1. cst = "READ_DATA" => sdsrd
    BY Where
  <2>. QED BY <1>2, <2>1, CtrlMove DEF Marred, Kept, Keep
<1>3. CASE sd_error /\ cst \in {"READ_CMD", "IDLE", "NO_R1", "READ_FINISH", "IDLE2"}
  BY <1>1, <1>3, CtrlMove DEF Marred, Kept
<1>4. CASE sd_error /\ cst = "READ_WAIT"
  <2>1. sdsrd
    BY <1>4, Where
  <2>. QED BY <1>4, <2>1, CtrlMove DEF Marred
<1>5. cst # "INIT"
  BY Where
<1>. QED BY <1>2, <1>3, <1>4, <1>5, Where DEF Marred, Late

LEMMA ReadCardKept ==
  ASSUME Tick, PathInv, MoveInv, QuietInv, state \in {1, 2, 3, 4}
  PROVE  card' = card /\ op' = op /\ Blk' = Blk
<1>1. op' = op
  BY Moves
<1>2. cst \in {"INIT", "IDLE", "IDLE2", "NO_R1", "READ_CMD", "READ_WAIT", "READ_DATA", "READ_CRC",
                "READ_FINISH"}
  BY Where
<1>3. cst \in {"READ_WAIT", "READ_DATA"} => sdsrd
  BY Where
<1>4. card' = card
  BY <1>2, <1>3, CtrlMove DEF Kept, Keep
<1>. QED BY <1>1, <1>4 DEF Blk

LEMMA ReadMove ==
  ASSUME PathInv, MoveInv, QuietInv, BytesInv, ReadInv, Tick, state = 2
  PROVE  /\ state' \in {2, 3} /\ dout_avail' => Marred' \/ dout' = Blk'[oecnt']
         /\ state' = 3 => Marred' \/ outbyte' = Blk'[oecnt']
         /\ ~mw2' /\ m' = m /\ oecnt' = oecnt /\ Blk' = Blk
         /\ Marred' \/ \A j \in Index : j < oecnt => m[j] = Blk[j]
<1>1. InRead /\ oecnt \in 0 .. BLOCKSIZE - 1 /\ sdsrd /\ ~sdsdout_taken /\ ~mw2
  BY Size DEF MoveInv, InRead
<1>2. m' = m
  <2>1. ~mw1
    BY Users
  <2>. QED BY <1>1, <2>1, Memory
<1>3. ~mw2' /\ oecnt' = oecnt
  BY <1>1, Mover
<1>4. Blk' = Blk
  BY ReadCardKept
<1>5. Marred' \/ \A j \in Index : j < oecnt => m[j] = Blk[j]
  <2>1. CASE cst = "IDLE2"
    <3>1. oecnt = 0
      BY <1>1, <2>1 DEF InRead, CardSent
    <3>. QED BY <3>1, Size
  <2>2. CASE cst # "IDLE2"
    <3>1. Marred => Marred'
      BY <2>2, MarredStays
    <3>. QED BY <1>1, <3>1 DEF ReadInv, Got
  <2>. QED BY <2>1, <2>2
<1>6. CASE dout_avail
  <2>1. Marred \/ dout = Blk[oecnt]
    BY <1>6 DEF ReadInv
  <2>2. cst \in {"READ_DATA", "READ_CRC", "READ_FINISH"}
    BY <1>1, <1>6 DEF InRead, CardSent
  <2>3. Marred => Marred'
    BY <2>2, MarredStays
  <2>4. dout' = dout
    BY <1>1, <1>6, <2>2, CtrlMove DEF Kept
  <2>5. state' = 3 => outbyte' = dout
    BY Mover
  <2>. QED BY <1>2, <1>3, <1>4, <1>5, <2>1, <2>3, <2>4, <2>5
<1>7. CASE ~dout_avail
  <2>1. state' = 2
    BY <1>7, Mover
  <2>2. CASE dout_avail'
    <3>1. cst = "READ_DATA"
      BY <1>7, <2>2, CtrlFlags
    <3>2. CardSent(oecnt)
      BY <1>1, <1>7, <3>1 DEF InRead, Ready
    <3>3. /\ cst' \in {"READ_DATA", "READ_CRC"}
          /\ \/ dout' = Sent
             \/ corrupt'
      <4>1. byte_counter' # byte_counter
        BY <1>7, <2>2, CtrlFlags
      <4>. QED BY <1>1, <1>7, <3>2, <4>1, SentMore DEF Kept, Keep
    <3>4. byte_counter = BLOCKSIZE - oecnt /\ address = op.block
      BY <3>1, <3>2, Moves DEF CardSent
    <3>5. Sent = Blk[oecnt]
      BY <1>1, <3>4, Size DEF Sent, Blk
    <3>. QED BY <1>2, <1>3, <1>4, <1>5, <2>1, <3>3, <3>5 DEF Marred
  <2>. QED BY <1>2, <1>3, <1>4, <1>5, <2>1, <2>2
<1>. QED BY <1>6, <1>7

LEMMA PutMove ==
  ASSUME PathInv, MoveInv, QuietInv, BytesInv, ReadInv, Tick, state = 3
  PROVE  /\ state' = 4 /\ mw2' /\ maddr2' = oecnt' - 1 /\ oecnt' = oecnt + 1
         /\ Marred' \/ midata2' = Blk'[oecnt' - 1]
         /\ m' = m /\ Blk' = Blk
         /\ Marred' \/ \A j \in Index : j < oecnt => m[j] = Blk[j]
<1>1. InPut /\ oecnt \in 0 .. BLOCKSIZE - 1 /\ ~mw2
  BY Size DEF MoveInv, InPut
<1>2. m' = m
  <2>1. ~mw1
    BY Users
  <2>. QED BY <1>1, <2>1, Memory
<1>3. Marred => Marred'
  <2>1. cst # "IDLE2"
    BY <1>1 DEF InPut, CardSent
  <2>. QED BY <2>1, MarredStays
<1>4. state' = 4 /\ mw2' /\ maddr2' = oecnt /\ oecnt' = oecnt + 1 /\ midata2' = outbyte
  BY Mover
<1>5. oecnt' - 1 = oecnt
  BY <1>1, <1>4
<1>6. Blk' = Blk
  BY ReadCardKept
<1>7. Marred \/ outbyte = Blk[oecnt]
  BY DEF ReadInv
<1>8. Marred \/ \A j \in Index : j < oecnt => m[j] = Blk[j]
  BY <1>1 DEF ReadInv, Got
<1>9. Marred' \/ midata2' = Blk'[oecnt' - 1]
  BY <1>3, <1>4, <1>5, <1>6, <1>7
<1>. QED BY <1>2, <1>3, <1>4, <1>5, <1>6, <1>8, <1>9

LEMMA NextMove ==
  ASSUME PathInv, MoveInv, QuietInv, BytesInv, ReadInv, Tick, state = 4
  PROVE  /\ state' = 2 => ~dout_avail'
         /\ state' # 3 /\ ~mw2' /\ oecnt' = oecnt /\ Blk' = Blk
         /\ Marred' \/ \A j \in Index : j < oecnt => m'[j] = Blk[j]
<1>1. InNext /\ oecnt \in 1 .. BLOCKSIZE /\ m \in [Index -> Byte]
  BY Size DEF MoveInv, InNext, BytesInv
<1>2. state' \in {0, 2, 4} /\ ~mw2' /\ oecnt' = oecnt
  <2>1. CASE dout_avail
    BY <2>1, Mover
  <2>2. CASE ~dout_avail
    BY <2>2, Mover
  <2>. QED BY <2>1, <2>2
<1>3. Blk' = Blk
  BY ReadCardKept
<1>4. state' = 2 => ~dout_avail'
  <2>1. SUFFICES ASSUME state' = 2 PROVE ~dout_avail'
    OBVIOUS
  <2>2. ~dout_avail /\ oecnt < BLOCKSIZE
    BY <2>1, Mover
  <2>3. sdsrd /\ sdsdout_taken
    BY <1>1, <2>2, Size DEF InNext
  <2>4. cst = "READ_DATA" => byte_counter' = byte_counter
    BY <2>3, CtrlMove DEF Kept, Keep
  <2>. QED BY <2>2, <2>4, CtrlFlags
<1>5. Marred => Marred'
  <2>1. cst # "IDLE2" \/ ~sdsrd
    BY <1>1 DEF InNext, CardSent, Resting
  <2>. QED BY <2>1, MarredStays
<1>6. Marred \/ \A j \in Index : j < oecnt => m'[j] = Blk[j]
  <2>1. SUFFICES ASSUME ~Marred, NEW j \in Index, j < oecnt PROVE m'[j] = Blk[j]
    OBVIOUS
  <2>2. CASE mw2
    <3>1. m' = [m EXCEPT ![oecnt - 1] = Blk[oecnt - 1]]
      BY <2>1, <2>2, Memory DEF ReadInv
    <3>2. j < oecnt - 1 => m[j] = Blk[j]
      BY <2>1, <2>2 DEF ReadInv, Got
    <3>3. CASE j = oecnt - 1
      BY <1>1, <3>1, <3>3
    <3>4. CASE j # oecnt - 1
      <4>1. j < oecnt - 1
        BY <1>1, <2>1, <3>4, Size
      <4>. QED BY <1>1, <3>1, <3>2, <3>4, <4>1
    <3>. QED BY <3>3, <3>4
  <2>3. CASE ~mw2
    <3>1. m' = m
      <4>1. ~mw1
        BY Users
      <4>. QED BY <2>3, <4>1, Memory
    <3>. QED BY <2>1, <2>3, <3>1 DEF ReadInv, Got
  <2>. QED BY <2>2, <2>3
<1>. QED BY <1>2, <1>3, <1>4, <1>5, <1>6

LEMMA ReadDoneKept ==
  ASSUME PathInv, MoveInv, QuietInv, BytesInv, ReadInv, Tick, Read'
  PROVE  sd_error' \/ m' = Blk'
<1>0. /\ pc' \in {"copy", "done"} \/ (pc' = "waitdone" /\ state' = 0)
      /\ op' # NoOp /\ op'.kind = "read"
  BY DEF Read
<1>1. pc' \in {"copy", "done"} => pc \in {"copy", "done", "waitdone"}
  <2>1. pc \notin {"idle", "wait", "command"} \/ pc' \notin {"copy", "done"}
    BY DriverMove
  <2>2. CASE Moved
    <3>1. pc = "fill" => pc' \notin {"copy", "done"}
      BY <2>2 DEF Moved
    <3>. QED BY <2>2, <3>1 DEF Moved
  <2>3. CASE Start BY <2>3 DEF Start
  <2>4. CASE Continue BY <2>4 DEF Continue
  <2>5. CASE Return BY <2>5 DEF Return
  <2>6. CASE WaitNotBusy BY <2>1, <2>6 DEF WaitNotBusy
  <2>7. CASE Commanding BY <2>7 DEF Commanding
  <2>8. CASE UNCHANGED drvVars BY <2>8 DEF drvVars
  <2>. QED BY <2>2, <2>3, <2>4, <2>5, <2>6, <2>7, <2>8 DEF Tick, DriverStep
<1>2. pc' = "waitdone" => pc = "waitdone"
  <2>1. CASE pc = "command" /\ pc' = "waitdone"
    <3>1. apb_state = "WR3"
      BY <2>1, DriverMove
    <3>2. Given /\ state \in {2, 16}
      BY <2>1, <3>1 DEF Given, QuietInv, PathInv, ServeInv
    <3>3. pc' = "waitdone" /\ state' = 0
      BY <1>0, <2>1
    <3>. QED BY <3>2, <3>3, Mover
  <2>2. CASE pc # "command"
    BY <2>2, DriverMove DEF PathInv, DriverInv, Between
  <2>. QED BY <2>1, <2>2
<1>3. op' = op
  <2>1. CASE pc = "waitdone" BY <2>1, DriverMove
  <2>2. CASE pc \in {"copy", "done"}
    <3>1. CASE Ended /\ Moved BY <3>1 DEF Moved
    <3>2. CASE ~Ended /\ (Start \/ Continue \/ Return)
      BY <1>0, <2>2, <3>2 DEF Start, Continue, Return
    <3>3. CASE Ended /\ (WaitNotBusy \/ Commanding)
      BY <2>2, <3>3 DEF WaitNotBusy, Commanding
    <3>4. CASE UNCHANGED drvVars BY <3>4 DEF drvVars
    <3>. QED BY <3>1, <3>2, <3>3, <3>4 DEF Tick, DriverStep
  <2>. QED BY <1>0, <1>1, <1>2, <2>1, <2>2
<1>4. CASE pc = "waitdone" /\ state # 0
  <2>1. state' = 0
    <3>1. pc' \in {"copy", "done"} => Quiet
      BY <1>4, DriverMove DEF QuietInv, Told, Polling
    <3>. QED BY <1>0, <1>4, <3>1 DEF Quiet
  <2>2. /\ state \in {4, 10} /\ oecnt = BLOCKSIZE /\ ~sd_busy /\ cst = "IDLE2" /\ ~sdsrd /\ ~sdswr
    BY <1>4, <2>1, QuietEnd
  <2>3. state = 4
    BY <1>0, <1>3, <2>2 DEF QuietInv
  <2>4. Marred' \/ \A j \in Index : j < oecnt => m'[j] = Blk[j]
    BY <2>3, NextMove
  <2>5. card' = card /\ cst' = "IDLE2"
    BY <2>2, CtrlMove DEF Kept, Keep
  <2>6. Blk' = Blk /\ (Marred' => sd_error')
    BY <1>3, <2>5 DEF Blk, Marred
  <2>7. m' \in [Index -> Byte] /\ Blk \in [Index -> Byte]
    <3>1. op.block \in Block /\ BytesInv'
      BY <1>4, Moves, BytesKept
    <3>. QED BY <3>1 DEF BytesInv, Blk
  <2>8. (\A j \in Index : j < oecnt => m'[j] = Blk[j]) => m' = Blk
    <3>1. SUFFICES ASSUME \A j \in Index : j < oecnt => m'[j] = Blk[j] PROVE m' = Blk
      OBVIOUS
    <3>2. \A j \in Index : m'[j] = Blk[j]
      BY <2>2, <3>1, Size
    <3>. QED BY <2>7, <3>2
  <2>. QED BY <2>4, <2>6, <2>8
<1>5. CASE pc \in {"copy", "done"} \/ (pc = "waitdone" /\ state = 0)
  <2>1. Quiet
    BY <1>5 DEF QuietInv, Settled
  <2>2. sd_error \/ m = Blk
    BY <1>0, <1>3, <1>5 DEF ReadInv, Read
  <2>3. m' = m
    <3>1. ~mw1 /\ ~mw2
      BY <1>5, <2>1, Users DEF Quiet
    <3>. QED BY <3>1, Memory
  <2>. QED BY <1>3, <2>1, <2>2, <2>3, AtRest DEF Blk
<1>. QED BY <1>0, <1>1, <1>2, <1>4, <1>5

LEMMA ReadKept ==
  ASSUME PathInv, MoveInv, QuietInv, BytesInv, ReadInv, Tick
  PROVE  ReadInv'
<1>1. Read' => sd_error' \/ m' = Blk'
  BY ReadDoneKept
<1>2. CASE state = 2
  <2>1. oecnt' = oecnt /\ state' \in {2, 3}
    BY <1>2, Mover
  <2>2. ~mw2' /\ (Marred' \/ \A j \in Index : j < oecnt' => m'[j] = Blk'[j])
    BY <1>2, <2>1, ReadMove
  <2>3. /\ state' \in {2, 3} /\ dout_avail' => Marred' \/ dout' = Blk'[oecnt']
        /\ state' = 3 => Marred' \/ outbyte' = Blk'[oecnt']
    BY <1>2, ReadMove
  <2>4. Got' = oecnt'
    BY <2>2 DEF Got
  <2>. QED BY <1>1, <2>2, <2>3, <2>4 DEF ReadInv
<1>3. CASE state = 3
  <2>1. /\ state' = 4 /\ mw2' /\ maddr2' = oecnt' - 1 /\ oecnt' = oecnt + 1
        /\ Marred' \/ midata2' = Blk'[oecnt' - 1]
        /\ Marred' \/ \A j \in Index : j < oecnt => m'[j] = Blk'[j]
    BY <1>3, PutMove
  <2>2. Got' = oecnt
    BY <2>1, Size DEF Got, MoveInv
  <2>. QED BY <1>1, <2>1, <2>2 DEF ReadInv
<1>4. CASE state = 4
  <2>1. /\ state' = 2 => ~dout_avail'
        /\ state' # 3 /\ ~mw2'
        /\ Marred' \/ \A j \in Index : j < oecnt' => m'[j] = Blk'[j]
    BY <1>4, NextMove
  <2>2. Got' = oecnt'
    BY <2>1 DEF Got
  <2>. QED BY <1>1, <2>1, <2>2 DEF ReadInv
<1>5. CASE state = 1
  <2>1. ~mw2 /\ ~dout_avail /\ cst = "IDLE2" /\ oecnt = 0
    BY <1>5 DEF MoveInv, InStart, Resting, Ready
  <2>2. ~mw2' /\ ~dout_avail' /\ state' = 2 /\ oecnt' = 0
    BY <1>5, <2>1, Mover, CtrlFlags
  <2>3. \A j \in Index : ~(j < Got')
    BY <2>2, Size DEF Got
  <2>. QED BY <1>1, <2>2, <2>3 DEF ReadInv
<1>6. CASE state \in {0, 10, 11, 12, 13, 16}
  <2>1. ~mw2
    BY <1>6, Where
  <2>2. ~mw2' /\ state' \notin {2, 3, 4}
    BY <1>6, <2>1, Mover
  <2>. QED BY <1>1, <2>2 DEF ReadInv
<1>. QED BY <1>2, <1>3, <1>4, <1>5, <1>6 DEF MoveInv

-----------------------------------------------------------------------------
(* The flags are flags.                                                    *)
FlagsInv ==
  /\ sd_busy \in BOOLEAN /\ sd_error \in BOOLEAN /\ dout_avail \in BOOLEAN
  /\ din_taken \in BOOLEAN /\ din_latch \in BOOLEAN /\ last_din_valid \in BOOLEAN
  /\ corrupt \in BOOLEAN /\ pready \in BOOLEAN /\ mw1 \in BOOLEAN /\ mr1 \in BOOLEAN
  /\ mw2 \in BOOLEAN /\ sdsrd \in BOOLEAN /\ sdswr \in BOOLEAN
  /\ sdsdin_valid \in BOOLEAN /\ sdsdout_taken \in BOOLEAN
  /\ prdata \in Byte \cup 0 .. 3

LEMMA FlagsKept ==
  ASSUME PathInv, BytesInv, FlagsInv, Tick
  PROVE  FlagsInv'
<1>1. CtrlTick(sdsrd, sdswr, sdsbaddr, sdsdin, sdsdin_valid, sdsdout_taken)
  BY DEF Tick, HostTick
<1>2. sd_busy' \in BOOLEAN /\ dout_avail' \in BOOLEAN
  BY <1>1, Zenon DEF CtrlTick
<1>3. din_taken' \in BOOLEAN /\ din_latch' \in BOOLEAN /\ last_din_valid' \in BOOLEAN
  <2>1. DinTick(sdswr, sdsdin_valid)
    BY <1>1 DEF CtrlTick
  <2>. QED BY <2>1, Zenon DEF DinTick, FlagsInv
<1>4. sd_error' \in BOOLEAN /\ corrupt' \in BOOLEAN
  <2>0. sd_error \in BOOLEAN /\ corrupt \in BOOLEAN
    BY DEF FlagsInv
  <2>1. sd_error' \in BOOLEAN
    <3>1. \/ sd_error' = sd_error \/ sd_error' = TRUE \/ sd_error' = FALSE
          \/ sd_error' = (sd_error \/ corrupt)
      BY <1>1, Zenon DEF CtrlTick, ReadByte, Initialise, Accept, Command, AwaitToken, CheckCrc,
                  Finish, WriteData, WriteByte, WriteResponse, WriteWait, Stay, GoTo, Fail
    <3>. QED BY <2>0, <3>1, Zenon
  <2>2. corrupt' \in BOOLEAN
    <3>1. corrupt' = corrupt \/ corrupt' = TRUE \/ corrupt' = FALSE \/ corrupt' = (byte_counter # 0)
      BY <1>1, Zenon DEF CtrlTick, ReadByte, Initialise, Accept, Command, AwaitToken, CheckCrc,
                  Finish, WriteData, WriteByte, WriteResponse, WriteWait, Stay, GoTo, Fail, Keep
    <3>. QED BY <2>0, <3>1, Zenon
  <2>. QED BY <2>1, <2>2
<1>5. Idle(bus_write(Sd), bus_read(Sd), dphase.reg, apbm_pwdata) \/ Serve
  BY DEF Tick, HostTick
<1>6. pready' \in BOOLEAN
  BY <1>5, Zenon DEF Idle, Serve
<1>7. mw1' \in BOOLEAN /\ mr1' \in BOOLEAN
  BY <1>5, Zenon DEF Idle, Serve, FlagsInv
<1>8. prdata' \in Byte \cup 0 .. 3
  <2>1. sdspi_status \in 0 .. 3
    BY DEF sdspi_status
  <2>2. CASE Serve
    BY <2>1, <2>2 DEF Serve, FlagsInv, BytesInv
  <2>3. CASE Idle(bus_write(Sd), bus_read(Sd), dphase.reg, apbm_pwdata)
    BY <2>3 DEF Idle, FlagsInv
  <2>. QED BY <1>5, <2>2, <2>3
<1>9. /\ mw2' \in BOOLEAN /\ sdsrd' \in BOOLEAN /\ sdswr' \in BOOLEAN
      /\ sdsdin_valid' \in BOOLEAN /\ sdsdout_taken' \in BOOLEAN
  <2>1. \/ Await \/ StartRead \/ GetByte \/ PutByte \/ NextRead
        \/ NextWrite \/ OfferByte \/ ByteTaken
    BY DEF Tick, HostTick
  <2>. USE DEF FlagsInv
  <2>2. CASE Await BY <2>2, Zenon DEF Await
  <2>3. CASE StartRead BY <2>3, Zenon DEF StartRead
  <2>4. CASE GetByte BY <2>4, Zenon DEF GetByte
  <2>5. CASE PutByte BY <2>5, Zenon DEF PutByte
  <2>6. CASE NextRead
    <3>1. sdsrd' = sdsrd \/ sdsrd' = (oecnt < BLOCKSIZE)
      BY <2>6, Zenon DEF NextRead
    <3>2. (oecnt < BLOCKSIZE) \in BOOLEAN
      OBVIOUS
    <3>3. sdsrd' \in BOOLEAN
      BY <3>1, <3>2, Zenon
    <3>. QED BY <2>6, <3>3, Zenon DEF NextRead
  <2>7. CASE NextWrite BY <2>7, Zenon DEF NextWrite
  <2>8. CASE OfferByte BY <2>8, Zenon DEF OfferByte
  <2>9. CASE ByteTaken BY <2>9, Zenon DEF ByteTaken
  <2>. QED BY <2>1, <2>2, <2>3, <2>4, <2>5, <2>6, <2>7, <2>8, <2>9
<1>. QED BY <1>2, <1>3, <1>4, <1>6, <1>7, <1>8, <1>9, Zenon DEF FlagsInv

-----------------------------------------------------------------------------
(* Everything that holds together.                                         *)
Whole ==
  /\ PathInv /\ MoveInv /\ QuietInv /\ BytesInv /\ FlagsInv
  /\ FillInv /\ CopyInv /\ WriteInv /\ ReadInv

LEMMA WholeInit == Init => Whole
<1>. SUFFICES ASSUME Init PROVE Whole
  OBVIOUS
<1>. USE SdAssumption, Size DEF Init, BridgeInit, HostInit, CtrlInit
<1>1. PathInv
  BY PathInit
<1>2. MoveInv
  BY DEF MoveInv, InIdle, Resting, Mute, NoDin, Free
<1>3. QuietInv
  BY DEF QuietInv, Settled, Given, Told, Commissioned, Polling
<1>4. BytesInv
  <2>1. card \in [Block -> [Index -> Byte]]
    OBVIOUS
  <2>2. m \in [Index -> Byte]
    OBVIOUS
  <2>3. wbuf \in Seq(Byte) /\ Len(wbuf) = 0
    OBVIOUS
  <2>. QED BY <2>1, <2>2, <2>3 DEF BytesInv
<1>5. FlagsInv
  BY DEF FlagsInv
<1>6. FillInv
  BY DEF FillInv
<1>7. CopyInv
  BY DEF CopyInv
<1>8. WriteInv
  BY DEF WriteInv, Stored, Late
<1>9. ReadInv
  BY DEF ReadInv, Read
<1>. QED BY <1>1, <1>2, <1>3, <1>4, <1>5, <1>6, <1>7, <1>8, <1>9 DEF Whole

LEMMA WholeKept == Whole /\ [Tick]_vars => Whole'
<1>1. ASSUME Whole, Tick PROVE Whole'
  <2>1. /\ PathInv /\ MoveInv /\ QuietInv /\ BytesInv /\ FlagsInv
        /\ FillInv /\ CopyInv /\ WriteInv /\ ReadInv
    BY <1>1 DEF Whole
  <2>2. PathInv'
    BY <1>1, <2>1, PathKept
  <2>3. MoveInv' /\ BytesInv' /\ FlagsInv'
    BY <1>1, <2>1, MoveKept, BytesKept, FlagsKept
  <2>4. QuietInv' /\ FillInv' /\ CopyInv'
    BY <1>1, <2>1, QuietKept, FillKept, CopyKept
  <2>5. WriteInv' /\ ReadInv'
    BY <1>1, <2>1, WriteKept, ReadKept
  <2>. QED BY <2>2, <2>3, <2>4, <2>5 DEF Whole
<1>2. ASSUME Whole, UNCHANGED vars PROVE Whole'
  <2>1. PathInv'
    BY <1>2, PathKept DEF Whole
  <2>. USE <1>2 DEF Whole, vars, bridgeVars, hostVars, ctrlVars, busVars, moveVars, drvVars
  <2>2. MoveInv'
    BY DEF MoveInv, InIdle, InStart, InRead, InPut, InNext, InFetch, InOffer, InTaken,
           Resting, Mute, NoDin, Free, Ready, CardSent, CardGot
  <2>3. QuietInv'
    BY DEF QuietInv, Settled, Given, Told, Commissioned, Polling, Quiet
  <2>4. BytesInv' /\ FlagsInv'
    BY DEF BytesInv, FlagsInv
  <2>5. FillInv' /\ CopyInv'
    BY DEF FillInv, CopyInv
  <2>6. WriteInv' /\ ReadInv'
    BY DEF WriteInv, ReadInv, Stored, Read, Blk, Marred, Got
  <2>. QED BY <2>1, <2>2, <2>3, <2>4, <2>5, <2>6
<1>. QED BY <1>1, <1>2

(* The ranges and the promises of the host follow.                         *)
LEMMA WholeGives == Whole => Inv
<1>. SUFFICES ASSUME Whole PROVE Inv
  OBVIOUS
<1>0. /\ PathInv /\ MoveInv /\ QuietInv /\ BytesInv /\ FlagsInv /\ CopyInv
  BY DEF Whole
<1>1. CtrlTypeOK
  <2>1. cst \in CtrlState
    BY <1>0, Where DEF CtrlState, Moving, Late
  <2>. QED BY <1>0, <2>1 DEF CtrlTypeOK, BytesInv, FlagsInv
<1>2. HostTypeOK
  <2>1. ctrlstate \in {0, 1, 2, 12, 5, 6, 15, 16}
    BY <1>0 DEF PathInv, AccessInv, ServeInv
  <2>2. state \in {0, 1, 2, 3, 4, 10, 11, 12, 13, 16} /\ oecnt \in 0 .. BLOCKSIZE
    BY <1>0 DEF MoveInv
  <2>. QED BY <1>0, <1>1, <2>1, <2>2 DEF HostTypeOK, BytesInv, FlagsInv
<1>3. TypeOK
  <2>1. apb_state \in BridgeState
    BY <1>0 DEF PathInv, AccessInv, BridgeState
  <2>2. dphase \in Transfers \cup {NoTransfer}
    BY <1>0, AccessKind DEF PathInv, AccessInv
  <2>. QED BY <1>0, <1>2, <2>1, <2>2 DEF TypeOK, PathInv, DriverInv, CopyInv
<1>4. NoCommandLost
  <2>1. ctrlstate \in {2, 12} => pc = "command"
    BY <1>0 DEF PathInv, AccessInv, ServeInv
  <2>. QED BY <1>0, <2>1 DEF NoCommandLost, QuietInv, Settled, Given, Quiet
<1>5. OneMemoryUser
  <2>1. mr1 \/ mw1 => state = 0 /\ ~mw2
    BY <1>0, Users
  <2>. QED BY <2>1 DEF OneMemoryUser
<1>6. AddressHeld
  BY <1>0 DEF AddressHeld, QuietInv, Commissioned
<1>. QED BY <1>3, <1>4, <1>5, <1>6 DEF Inv

(* The host of the SD card under its driver never loses a command, never   *)
(* has two users of the block memory, keeps every counter in its range     *)
(* and works on the block that was commanded (sd.v, mmcsd_read and         *)
(* mmcsd_write).                                                           *)
THEOREM NothingLost == Spec => []Inv
<1>1. Whole /\ [Tick]_vars => Whole'
  BY WholeKept
<1>. QED BY <1>1, WholeInit, WholeGives, PTL DEF Spec

-----------------------------------------------------------------------------
(* The card changes only when the block of a write has come whole.         *)
LEMMA CardChange ==
  ASSUME Whole, Tick, card' # card
  PROVE  /\ op \in Op /\ op.kind = "write" /\ op' = op /\ pc \in {"waitdone", "command"}
         /\ card' = [card EXCEPT ![op.block] = op.data]
<1>0. PathInv /\ MoveInv /\ QuietInv /\ BytesInv /\ FillInv /\ WriteInv
  BY DEF Whole
<1>1. cst = "WRITE_RESPONSE"
  <2>1. cst \in {"READ_WAIT", "READ_DATA"} => sdsrd
    BY <1>0, Where
  <2>. QED BY <1>0, <2>1, Where, CtrlMove, CtrlWrite DEF Kept, Keep, Late
<1>2. card' = [card EXCEPT ![address] = [j \in Index |-> wbuf[j + 1]]]
  BY <1>1, CtrlWrite
<1>3. state \in {10, 11, 12, 13, 16} /\ Len(wbuf) = BLOCKSIZE /\ ~sd_error
  BY <1>0, <1>1, Where
<1>4. /\ op' = op /\ op \in Op /\ address = op.block /\ (pc = "waitdone" \/ Given)
      /\ op.kind = "write"
  BY <1>0, <1>1, <1>3, Moves DEF QuietInv
<1>5. m = op.data
  BY <1>0, <1>4 DEF FillInv, Given
<1>6. \A j \in Index : wbuf[j + 1] = m[j]
  <2>1. ASSUME NEW j \in Index PROVE wbuf[j + 1] = m[j]
    <3>1. j + 1 \in 1 .. Len(wbuf) /\ (j + 1) - 1 = j
      BY <1>3, Size
    <3>2. wbuf[j + 1] = m[(j + 1) - 1]
      BY <1>0, <1>1, <1>3, <3>1 DEF WriteInv, Late
    <3>. QED BY <3>1, <3>2
  <2>. QED BY <2>1
<1>7. [j \in Index |-> wbuf[j + 1]] = op.data
  BY <1>0, <1>5, <1>6 DEF BytesInv
<1>. QED BY <1>2, <1>4, <1>7 DEF Given

(* What has been promised when an operation returns.                       *)
LEMMA ReturnKeepsWord ==
  ASSUME Whole, Tick, Return
  PROVE  /\ op \in Op /\ op # NoOp /\ op' = NoOp /\ card' = card
         /\ sd_error \/ IF op.kind = "read" THEN result' = card[op.block]
                                            ELSE card[op.block] = op.data
         /\ op.kind = "write" => result' = result
<1>0. PathInv /\ MoveInv /\ QuietInv /\ CopyInv /\ WriteInv /\ ReadInv
  BY DEF Whole
<1>1. op \in Op /\ op # NoOp /\ op.kind \in {"read", "write"} /\ pc = "done"
  <2>1. op \in Op /\ pc = "done"
    BY <1>0 DEF Return, PathInv, DriverInv
  <2>. QED BY <2>1, OpKind
<1>2. card' = card
  BY <1>0, <1>1, AtRest DEF QuietInv, Settled
<1>3. op.kind = "read" => sd_error \/ result' = card[op.block]
  BY <1>0, <1>1 DEF Return, CopyInv, ReadInv, Read, Blk
<1>4. op.kind = "write" => sd_error \/ card[op.block] = op.data
  BY <1>0, <1>1 DEF WriteInv, Stored, Blk
<1>. QED BY <1>1, <1>2, <1>3, <1>4 DEF Return

LEMMA StepIsStep ==
  ASSUME Whole, [Tick]_vars
  PROVE  [Disk!Next]_(Disk!vars)
<1>1. CASE UNCHANGED vars
  BY <1>1 DEF vars, hostVars, ctrlVars, drvVars, Disk!vars
<1>2. CASE Tick
  <2>0. sd_error' \in BOOLEAN
    BY <1>2, FlagsKept, Zenon DEF Whole, FlagsInv
  <2>1. CASE Return
    <3>1. Disk!Return
      BY <1>2, <2>1, ReturnKeepsWord DEF Disk!Return, Disk!Done
    <3>. QED BY <2>0, <3>1 DEF Disk!Next
  <2>2. CASE Start \/ Continue
    <3>1. pc \in {"idle", "read", "write"} /\ op' \in Op /\ result' = result
      BY <2>2 DEF Start, Continue
    <3>2. op = NoOp
      BY <3>1 DEF Whole, PathInv, DriverInv
    <3>3. card' = card
      BY <1>2, <3>1, CardChange
    <3>4. Disk!Start
      BY <3>1, <3>2, <3>3 DEF Disk!Start
    <3>. QED BY <2>0, <3>4 DEF Disk!Next
  <2>3. CASE WaitNotBusy \/ Commanding \/ Moved \/ UNCHANGED drvVars
    <3>1. op' = op /\ result' = result
      BY <2>3 DEF WaitNotBusy, Commanding, Moved, drvVars
    <3>2. CASE card' = card
      <4>1. Disk!Signal
        BY <3>1, <3>2 DEF Disk!Signal
      <4>. QED BY <2>0, <4>1 DEF Disk!Next
    <3>3. CASE card' # card
      <4>1. op \in Op /\ op.kind = "write" /\ card' = [card EXCEPT ![op.block] = op.data]
        BY <1>2, <3>3, CardChange
      <4>2. op # NoOp
        BY <4>1, OpKind
      <4>3. Disk!Store
        BY <3>1, <4>1, <4>2 DEF Disk!Store
      <4>. QED BY <2>0, <4>3 DEF Disk!Next
    <3>. QED BY <3>2, <3>3
  <2>. QED BY <1>2, <2>1, <2>2, <2>3 DEF Tick, DriverStep
<1>. QED BY <1>1, <1>2

(* The driver, the host and the card implement a disk: a block is read or  *)
(* written whole when its operation returns, or the error bit of the       *)
(* status is set (mmcsd_read, mmcsd_write, sd.v, sd_spi.vhd).              *)
THEOREM DiskImplemented == Spec => BlockSpec
<1>1. Init => Disk!Init
  BY DEF Init, HostInit, CtrlInit, Disk!Init
<1>2. Whole /\ [Tick]_vars => [Disk!Next]_(Disk!vars)
  BY StepIsStep
<1>3. Whole /\ [Tick]_vars => Whole'
  BY WholeKept
<1>. QED BY <1>1, <1>2, <1>3, WholeInit, PTL DEF Spec, BlockSpec, Disk!Spec
=============================================================================
