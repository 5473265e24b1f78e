-------------------------- MODULE DramConRV_proofs --------------------------
(***************************************************************************)
(* Proofs about DramConRV for every geometry of the chip, every set of     *)
(* timings that satisfies LatencyAssumption and every REFRESH_CNT.         *)
(***************************************************************************)
EXTENDS DramConRV, TLAPS

LEMMA TimingFacts ==
  /\ T_RCD \in Nat \ {0} /\ CAS \in Nat \ {0} /\ T_RC \in 1 .. 4
  /\ READ_LEN = 4 /\ T_RCD + CAS + 1 = 4
  /\ WRITE_LEN \in 4 .. 14 /\ T_RCD < WRITE_LEN
  /\ RST_CNT \in Nat /\ CFG_LEN \in 0 .. 14 /\ REFRESH_CNT \in Nat
BY TimingAssumption, LatencyAssumption, RefreshAssumption
   DEF READ_LEN, WRITE_LEN

(* One edge keeps the types, whatever the inputs.                          *)
LEMMA SdFlags ==
  ASSUME SdTypeOK, NEW rd, NEW wr, NEW refresh, NEW a, NEW din, NEW ctrl,
         SdTick(rd, wr, refresh, a, din, ctrl)
  PROVE  SdFlagsOK'
BY Zenon DEF SdTypeOK, SdFlagsOK, SdTick, SdPowerOn, SdConfigure, SdIdle,
             SdRead, SdWrite, SdRefresh

LEMMA SdTypes ==
  ASSUME SdTypeOK, NEW rd, NEW wr, NEW refresh,
         NEW a \in Addr, NEW din \in Word, NEW ctrl,
         SdTick(rd, wr, refresh, a, din, ctrl)
  PROVE  SdTypeOK'
<1>0. SdFlagsOK'
  BY SdFlags
<1> HIDE DEF SdFlagsOK
<1> USE TimingFacts, <1>0 DEF SdTypeOK, Advance, Saturate
<1>1. CASE SdPowerOn
  BY <1>1 DEF SdPowerOn
<1>2. CASE SdConfigure
  BY <1>2 DEF SdConfigure
<1>3. CASE SdIdle(rd, wr, refresh, a)
  BY <1>3 DEF SdIdle, Addr
<1>4. CASE SdRead(a)
  <2>1. sdSel' \in Addr
    BY <1>4 DEF SdRead, Addr
  <2>2. dq' \in Word \cup {Junk}
    BY <1>4 DEF SdRead
  <2>3. QED
    BY <1>4, <2>1, <2>2 DEF SdRead
<1>5. CASE SdWrite(a, din, ctrl)
  <2>1. \A cell \in Addr : Merge(mem[cell], din, ctrl) \in Word
    BY DEF Merge, Word
  <2>2. <<sdSel[1], a[2]>> \in Addr
    BY DEF Addr
  <2>3. mem' \in [Addr -> Word] /\ sdSel' \in Addr
    BY <1>5, <2>1, <2>2 DEF SdWrite
  <2>4. QED
    BY <1>5, <2>3 DEF SdWrite
<1>6. CASE SdRefresh
  BY <1>6 DEF SdRefresh
<1>7. QED
  BY <1>1, <1>2, <1>3, <1>4, <1>5, <1>6 DEF SdTick

LEMMA McFlags ==
  ASSUME SdTypeOK, McTypeOK, NEW cmd, NEW a, NEW din, NEW ctrl,
         McTick(cmd, a, din, ctrl)
  PROVE  McFlagsOK'
BY Zenon DEF SdTypeOK, SdFlagsOK, McTypeOK, McFlagsOK, McTick, McStart,
             McIdle, McInitialize, McFinish, McWait

LEMMA McTypes ==
  ASSUME SdTypeOK, McTypeOK, NEW cmd \in Command, NEW a \in Addr,
         NEW din \in Word, NEW ctrl, McTick(cmd, a, din, ctrl)
  PROVE  SdTypeOK' /\ McTypeOK'
<1>1. SdTypeOK'
  <2>1. ToSdramAddr(a) \in Addr /\ ToSdramDin(din) \in Word
    BY DEF McTypeOK, ToSdramAddr, ToSdramDin
  <2>2. QED
    BY <2>1, SdTypes DEF McTick
<1>2. McFlagsOK'
  BY McFlags
<1>3. McTypeOK'
  <2> USE <1>2 DEF McTypeOK, Count, Saturate, WCYCLES_MAX, Command
  <2>1. CASE McStart(cmd, a, din)
    BY <2>1 DEF McStart
  <2>2. CASE McIdle(cmd)
    BY <2>2 DEF McIdle
  <2>3. CASE McInitialize
    BY <2>3 DEF McInitialize
  <2>4. CASE McFinish
    BY <2>4 DEF McFinish, SdTypeOK
  <2>5. CASE McWait
    BY <2>5 DEF McWait
  <2>6. QED
    BY <2>1, <2>2, <2>3, <2>4, <2>5 DEF McTick
<1>4. QED
  BY <1>1, <1>3

-----------------------------------------------------------------------------
(* What one edge does in each sequence, as far as timing is concerned.     *)
LEMMA AdvanceStep ==
  ASSUME Advance, sdCycle \in 0 .. 14
  PROVE  sdCycle' = sdCycle + 1
BY DEF Advance, Saturate

LEMMA ReadEnd ==
  ASSUME NEW a, SdRead(a), sdCycle = 4
  PROVE  sdState' = "IDLE" /\ sdBusy' = FALSE /\ sdReady' = FALSE
<1>1. READ_LEN = 4 /\ T_RCD + CAS = 3
  BY TimingFacts
<1>2. QED
  BY <1>1 DEF SdRead

LEMMA ReadData ==
  ASSUME NEW a, SdRead(a), sdCycle = 3
  PROVE  sdState' = "READ" /\ sdBusy' = sdBusy /\ sdReady' = TRUE /\ sdCycle' = 4
<1>1. READ_LEN = 4 /\ T_RCD + CAS = 3
  BY TimingFacts
<1>2. sdState' = "READ" /\ sdBusy' = sdBusy /\ sdReady' = TRUE
  BY <1>1 DEF SdRead
<1>3. sdCycle' = 4
  BY AdvanceStep DEF SdRead
<1>4. QED
  BY <1>2, <1>3

LEMMA ReadWait ==
  ASSUME NEW a, SdRead(a), sdCycle \in 1 .. 2
  PROVE  /\ sdState' = "READ" /\ sdBusy' = sdBusy /\ sdReady' = sdReady
         /\ sdCycle' = sdCycle + 1
<1>1. READ_LEN = 4 /\ T_RCD + CAS = 3
  BY TimingFacts
<1>2. sdState' = "READ" /\ sdBusy' = sdBusy /\ sdReady' = sdReady
  BY <1>1 DEF SdRead
<1>3. sdCycle' = sdCycle + 1
  BY AdvanceStep DEF SdRead
<1>4. QED
  BY <1>2, <1>3

LEMMA WriteEnd ==
  ASSUME NEW a, NEW din, NEW ctrl, SdWrite(a, din, ctrl), sdCycle = WRITE_LEN
  PROVE  sdState' = "IDLE" /\ sdBusy' = FALSE /\ sdReady' = sdReady
<1>1. T_RCD # WRITE_LEN
  BY TimingFacts
<1>2. QED
  BY <1>1, Zenon DEF SdWrite

LEMMA WriteWait ==
  ASSUME NEW a, NEW din, NEW ctrl, SdWrite(a, din, ctrl),
         sdCycle \in 1 .. WRITE_LEN, sdCycle # WRITE_LEN
  PROVE  /\ sdState' = "WRITE" /\ sdBusy' = sdBusy /\ sdReady' = sdReady
         /\ sdCycle' = sdCycle + 1
<1>1. sdCycle \in 0 .. 14
  BY TimingFacts
<1>2. sdState' = "WRITE" /\ sdBusy' = sdBusy /\ sdReady' = sdReady
  BY Zenon DEF SdWrite
<1>3. sdCycle' = sdCycle + 1
  BY <1>1, AdvanceStep DEF SdWrite
<1>4. QED
  BY <1>2, <1>3

LEMMA RefreshEnd ==
  ASSUME SdRefresh, sdCycle = T_RC
  PROVE  sdState' = "IDLE" /\ sdBusy' = FALSE /\ sdReady' = sdReady
BY Zenon DEF SdRefresh

LEMMA RefreshWait ==
  ASSUME SdRefresh, sdCycle \in 1 .. T_RC, sdCycle # T_RC
  PROVE  /\ sdState' = "REFRESH" /\ sdBusy' = sdBusy /\ sdReady' = sdReady
         /\ sdCycle' = sdCycle + 1
<1>1. sdCycle \in 0 .. 14
  BY TimingFacts
<1>2. sdState' = "REFRESH" /\ sdBusy' = sdBusy /\ sdReady' = sdReady
  BY Zenon DEF SdRefresh
<1>3. sdCycle' = sdCycle + 1
  BY <1>1, AdvanceStep DEF SdRefresh
<1>4. QED
  BY <1>2, <1>3

LEMMA WriteEdge ==
  ASSUME NEW a, NEW din, NEW ctrl, SdWrite(a, din, ctrl),
         sdCycle \in 1 .. WRITE_LEN, sdBusy
  PROVE  /\ sdReady' = sdReady
         /\ sdCycle = WRITE_LEN => sdState' = "IDLE" /\ ~sdBusy'
         /\ sdCycle # WRITE_LEN => /\ sdState' = "WRITE" /\ sdBusy'
                                   /\ sdCycle' = sdCycle + 1
BY WriteEnd, WriteWait

LEMMA RefreshEdge ==
  ASSUME SdRefresh, sdCycle \in 1 .. T_RC, sdBusy
  PROVE  /\ sdReady' = sdReady
         /\ sdCycle = T_RC => sdState' = "IDLE" /\ ~sdBusy'
         /\ sdCycle # T_RC => /\ sdState' = "REFRESH" /\ sdBusy'
                              /\ sdCycle' = sdCycle + 1
BY RefreshEnd, RefreshWait

LEMMA QuietEdge ==
  ASSUME NEW a, SdIdle(FALSE, FALSE, FALSE, a)
  PROVE  sdState' = "IDLE" /\ sdBusy' = sdBusy /\ sdReady' = sdReady
BY DEF SdIdle

(* The state of the sequencer decides which of its actions it takes.       *)
LEMMA WhichEdge ==
  ASSUME NEW rd, NEW wr, NEW refresh, NEW a, NEW din, NEW ctrl,
         SdTick(rd, wr, refresh, a, din, ctrl)
  PROVE  /\ sdState = "IDLE" => SdIdle(rd, wr, refresh, a)
         /\ sdState = "READ" => SdRead(a)
         /\ sdState = "WRITE" => SdWrite(a, din, ctrl)
         /\ sdState = "REFRESH" => SdRefresh
         /\ sdState = "INIT" => SdPowerOn
         /\ sdState = "CONFIG" => SdConfigure
BY DEF SdTick, SdPowerOn, SdConfigure, SdIdle, SdRead, SdWrite, SdRefresh

(* The controller and the sequencer stay in step under every command.      *)
LEMMA CtrlStep ==
  ASSUME SdTypeOK, McTypeOK, CtrlInv, NEW cmd \in Command, NEW a, NEW din,
         NEW ctrl, McTick(cmd, a, din, ctrl)
  PROVE  CtrlInv'
<1> DEFINE c == ToSdram(cmd)
           x == ToSdramAddr(a)
<1>0. SdTick(c = "read", c = "write", c = "refresh", x, ToSdramDin(din), ctrl)
  BY DEF McTick
<1>1. CASE McStart(cmd, a, din)
  <2>1. c = cmd /\ sdState = "IDLE" /\ ~sdReady /\ ~fail /\ ~mcInit
    BY <1>1 DEF McStart, ToSdram, CtrlInv
  <2>2. SdIdle(c = "read", c = "write", c = "refresh", x)
    BY <1>0, <2>1, WhichEdge
  <2>3. mcReadA' <=> cmd = "read"
    BY <1>1, Zenon DEF McStart
  <2>4. /\ mcOp' = cmd /\ mcPulse' = cmd /\ mcBusy' /\ ~mcInit' /\ ~fail'
        /\ mcCycles' = 1 /\ mcWcycles' = 1
        /\ sdCycle' = 1 /\ sdBusy' /\ ~sdReady'
    BY <1>1, <2>1, <2>2 DEF McStart, SdIdle, Command
  <2>5. sdState' = CASE cmd = "read" -> "READ" [] cmd = "write" -> "WRITE"
                     [] cmd = "refresh" -> "REFRESH"
    BY <1>1, <2>1, <2>2 DEF McStart, SdIdle, Command
  <2>6. QED
    BY <1>1, <2>3, <2>4, <2>5, TimingFacts DEF McStart, Command, CtrlInv
<1>2. CASE McIdle(cmd)
  <2>1. c = "none" /\ sdState = "IDLE" /\ ~sdReady /\ ~fail /\ ~mcInit /\ ~sdBusy
    BY <1>2 DEF McIdle, ToSdram, CtrlInv
  <2>2. SdIdle(FALSE, FALSE, FALSE, x)
    BY <1>0, <2>1, WhichEdge
  <2>3. sdState' = "IDLE" /\ ~sdBusy' /\ ~sdReady'
    BY <2>1, <2>2, QuietEdge
  <2>4. QED
    BY <1>2, <2>1, <2>3 DEF McIdle, CtrlInv
<1>3. CASE McInitialize
  <2>1. c = "none" /\ ~mcReadA /\ ~fail /\ ~sdReady
    BY <1>3 DEF McInitialize, ToSdram, CtrlInv
  <2>2. mcPulse' = "none" /\ ~mcReadA' /\ ~fail'
    BY <1>3, <2>1 DEF McInitialize
  <2>3. CASE sdState = "IDLE"
    <3>1. SdIdle(FALSE, FALSE, FALSE, x)
      BY <1>0, <2>1, <2>3, WhichEdge
    <3>2. ~sdBusy
      BY <2>3 DEF CtrlInv
    <3>3. sdState' = "IDLE" /\ ~sdBusy' /\ ~sdReady'
      BY <2>1, <3>1, <3>2, QuietEdge
    <3>4. ~mcInit' /\ ~mcBusy'
      <4>1. mcInit' = sdBusy /\ mcBusy' = sdBusy
        BY <1>3 DEF McInitialize
      <4>2. QED
        BY <3>2, <4>1
    <3>5. QED
      BY <2>2, <3>3, <3>4 DEF CtrlInv
  <2>4. CASE sdState \in {"INIT", "CONFIG"}
    <3>1. sdBusy
      BY <2>4 DEF CtrlInv
    <3>2. mcInit' /\ mcBusy'
      BY <1>3, <3>1, Zenon DEF McInitialize
    <3>3. /\ sdState' \in {"INIT", "CONFIG", "IDLE"}
          /\ sdBusy' <=> sdState' # "IDLE"
          /\ ~sdReady'
      BY <1>0, <2>1, <2>4, <3>1, WhichEdge DEF SdPowerOn, SdConfigure
    <3>4. QED
      BY <2>2, <3>2, <3>3 DEF CtrlInv
  <2>5. QED
    BY <1>3, <2>3, <2>4 DEF McInitialize, CtrlInv
<1>4. CASE McFinish
  <2>1. mcReadA => sdReady
    <3>1. mcBusy /\ ~mcInit /\ READ_LEN = 4
          /\ (mcOp = "read" => mcCycles = 4)
      BY <1>4, TimingFacts DEF McFinish, Finished, READ_CYCLES
    <3>2. mcReadA => mcOp = "read" /\ sdState = "READ" /\ sdCycle = mcCycles
      BY <3>1 DEF CtrlInv
    <3>3. QED
      BY <3>1, <3>2 DEF CtrlInv
  <2>2. ~fail' /\ ~mcReadA' /\ ~mcBusy'
    BY <1>4, <2>1, Zenon DEF McFinish, CtrlInv
  <2>3. mcPulse' = "none" /\ ~mcInit'
    BY <1>4 DEF McFinish
  <2>4. sdState' = "IDLE" /\ ~sdBusy' /\ ~sdReady'
    <3>1. CASE mcOp = "read"
      <4>1. sdState = "READ" /\ sdCycle = 4 /\ sdBusy /\ sdReady
        BY <1>4, <3>1, TimingFacts DEF McFinish, Finished, READ_CYCLES, CtrlInv
      <4>2. SdRead(x)
        BY <1>0, <4>1, WhichEdge
      <4>3. QED
        BY <4>1, <4>2, ReadEnd
    <3>2. CASE mcOp = "refresh"
      <4>1. /\ mcCycles = 4 /\ ~sdReady
            /\ \/ sdState = "REFRESH" /\ sdCycle = T_RC /\ sdBusy
               \/ sdState = "IDLE" /\ ~sdBusy /\ c = "none"
        BY <1>4, <3>2, TimingFacts
           DEF McFinish, Finished, READ_CYCLES, CtrlInv, ToSdram
      <4>2. CASE sdState = "REFRESH"
        BY <1>0, <4>1, <4>2, WhichEdge, RefreshEdge, TimingFacts
      <4>3. CASE sdState = "IDLE"
        <5>1. SdIdle(FALSE, FALSE, FALSE, x)
          BY <1>0, <4>1, <4>3, WhichEdge
        <5>2. QED
          BY <4>1, <4>3, <5>1, QuietEdge
      <4>4. QED
        BY <4>1, <4>2, <4>3
    <3>3. CASE mcOp = "write"
      <4>1. sdState = "IDLE" /\ ~sdBusy /\ c = "none" /\ ~sdReady
        BY <1>4, <3>3 DEF McFinish, Finished, CtrlInv, ToSdram
      <4>2. SdIdle(FALSE, FALSE, FALSE, x)
        BY <1>0, <4>1, WhichEdge
      <4>3. QED
        BY <4>1, <4>2, QuietEdge
    <3>4. QED
      BY <1>4, <3>1, <3>2, <3>3 DEF McFinish, Finished
  <2>5. QED
    BY <2>2, <2>3, <2>4 DEF CtrlInv
<1>5. CASE McWait
  <2>1. /\ mcBusy' /\ ~mcInit' /\ mcOp' = mcOp /\ mcPulse' = "none" /\ ~fail'
        /\ mcReadA' = mcReadA /\ mcBusy /\ ~mcInit
    BY <1>5 DEF McWait, CtrlInv
  <2>2. CASE mcOp = "read"
    <3>1. /\ sdState = "READ" /\ sdCycle = mcCycles /\ mcCycles \in 1 .. 3
          /\ mcReadA /\ sdBusy /\ ~sdReady
      BY <1>5, <2>1, <2>2, TimingFacts DEF McWait, Finished, READ_CYCLES, CtrlInv
    <3>2. mcCycles' = mcCycles + 1
      BY <1>5, <3>1 DEF McWait, Count, Saturate
    <3>3. SdRead(x)
      BY <1>0, <3>1, WhichEdge
    <3>4. /\ sdState' = "READ" /\ sdBusy' /\ sdCycle' = sdCycle + 1
          /\ sdReady' <=> sdCycle = 3
      <4>1. CASE sdCycle = 3
        <5>1. sdState' = "READ" /\ sdBusy' = sdBusy /\ sdReady' /\ sdCycle' = 4
          BY <3>3, <4>1, ReadData
        <5>2. QED
          BY <3>1, <4>1, <5>1
      <4>2. CASE sdCycle \in 1 .. 2
        <5>1. /\ sdState' = "READ" /\ sdBusy' = sdBusy /\ sdReady' = sdReady
              /\ sdCycle' = sdCycle + 1
          BY <3>3, <4>2, ReadWait
        <5>2. ~sdReady' /\ sdBusy'
          BY <3>1, <5>1, Zenon
        <5>3. QED
          BY <4>2, <5>1, <5>2
      <4>3. QED
        BY <3>1, <4>1, <4>2
    <3>5. QED
      BY <2>1, <2>2, <3>1, <3>2, <3>4, TimingFacts DEF CtrlInv
  <2>3. CASE mcOp = "refresh"
    <3>1. ~mcReadA /\ ~sdReady /\ mcCycles \in 1 .. 3
      BY <1>5, <2>1, <2>3, TimingFacts DEF McWait, Finished, READ_CYCLES, CtrlInv
    <3>2. mcCycles' = mcCycles + 1
      BY <1>5, <3>1 DEF McWait, Count, Saturate
    <3>3. CASE sdState = "REFRESH"
      <4>1. sdCycle = mcCycles /\ sdCycle <= T_RC /\ sdBusy
        BY <2>1, <2>3, <3>3 DEF CtrlInv
      <4>2. SdRefresh
        BY <1>0, <3>3, WhichEdge
      <4>3. /\ ~sdReady'
            /\ \/ sdState' = "IDLE" /\ ~sdBusy'
               \/ /\ sdState' = "REFRESH" /\ sdBusy' /\ sdCycle < T_RC
                  /\ sdCycle' = sdCycle + 1
        BY <3>1, <4>1, <4>2, RefreshEdge, TimingFacts
      <4>4. QED
        BY <2>1, <2>3, <3>1, <3>2, <4>1, <4>3, TimingFacts DEF CtrlInv
    <3>4. CASE sdState = "IDLE"
      <4>1. c = "none" /\ ~sdBusy
        BY <2>1, <2>3, <3>4 DEF CtrlInv, ToSdram
      <4>2. SdIdle(FALSE, FALSE, FALSE, x)
        BY <1>0, <3>4, <4>1, WhichEdge
      <4>3. sdState' = "IDLE" /\ ~sdBusy' /\ ~sdReady'
        BY <3>1, <4>1, <4>2, QuietEdge
      <4>4. QED
        BY <2>1, <2>3, <3>1, <3>2, <4>3 DEF CtrlInv
    <3>5. QED
      BY <2>1, <2>3, <3>3, <3>4 DEF CtrlInv
  <2>4. CASE mcOp = "write"
    <3>1. ~mcReadA /\ ~sdReady
      BY <2>1, <2>4 DEF CtrlInv
    <3>2. mcWcycles' = IF mcWcycles = 5 THEN 5 ELSE mcWcycles + 1
      BY <1>5 DEF McWait, Count, Saturate, WCYCLES_MAX
    <3>3. CASE sdState = "WRITE"
      <4>1. /\ sdCycle \in 1 .. WRITE_LEN /\ sdBusy
            /\ mcWcycles = IF sdCycle < 5 THEN sdCycle ELSE 5
        BY <2>1, <2>4, <3>3 DEF CtrlInv
      <4>2. SdWrite(x, ToSdramDin(din), ctrl)
        BY <1>0, <3>3, WhichEdge
      <4>3. /\ ~sdReady'
            /\ \/ sdState' = "IDLE" /\ ~sdBusy' /\ sdCycle = WRITE_LEN
               \/ /\ sdState' = "WRITE" /\ sdBusy' /\ sdCycle < WRITE_LEN
                  /\ sdCycle' = sdCycle + 1
        BY <3>1, <4>1, <4>2, WriteEdge, TimingFacts
      <4>4. QED
        BY <2>1, <2>4, <3>1, <3>2, <4>1, <4>3, TimingFacts DEF CtrlInv
    <3>4. CASE sdState = "IDLE"
      <4>1. c = "none" /\ ~sdBusy /\ mcWcycles = 5
        BY <2>1, <2>4, <3>4 DEF CtrlInv, ToSdram
      <4>2. SdIdle(FALSE, FALSE, FALSE, x)
        BY <1>0, <3>4, <4>1, WhichEdge
      <4>3. sdState' = "IDLE" /\ ~sdBusy' /\ ~sdReady'
        BY <3>1, <4>1, <4>2, QuietEdge
      <4>4. QED
        BY <2>1, <2>4, <3>1, <3>2, <4>1, <4>3 DEF CtrlInv
    <3>5. QED
      BY <2>1, <2>4, <3>3, <3>4 DEF CtrlInv
  <2>5. QED
    BY <2>1, <2>2, <2>3, <2>4 DEF CtrlInv
<1>6. QED
  BY <1>1, <1>2, <1>3, <1>4, <1>5 DEF McTick

-----------------------------------------------------------------------------
(* Types of the port, of the initial states and of stuttering steps.       *)
LEMMA CommandOutType == CommandOut \in Command
BY DEF CommandOut, Command

LEMMA DrFlags ==
  ASSUME TypeOK, DramTick
  PROVE  DrFlagsOK'
BY Zenon DEF TypeOK, SdTypeOK, McTypeOK, DrTypeOK, DrFlagsOK, DramTick,
   Idle, AskRefresh, AwaitRefresh, AskRead, AwaitRead, AskWrite, HoldWrite,
   AwaitWrite, Release, CaptureRead, CaptureWrite, CaptureNothing,
   CaptureLater, StartRead, StartWrite, Unserved, Unrequested, LateTest

LEMMA DrTypes ==
  ASSUME TypeOK, DramTick, RequesterTick
  PROVE  DrTypeOK'
<1>0. DrFlagsOK'
  BY DrFlags
<1>1. rq' \in Request \cup {NoReq}
  BY Zenon DEF TypeOK, DrTypeOK, RequesterTick, RaiseRequest, HoldRequest,
     LowerRequest, StayQuiet
<1>2. r_refreshcnt' \in Nat
  BY DEF TypeOK, DrTypeOK, DramTick, RefreshCounter
<1>3. rq # NoReq => rq \in Request
  BY DEF TypeOK, DrTypeOK
<1>4. i_rd_en \/ i_wr_en => rq.addr \in Addr /\ rq.ctrl \in SUBSET Lane
  BY <1>3 DEF i_rd_en, i_wr_en, Request, ReadRequest, WriteRequest
<1>5. i_wr_en => rq.data \in Word
  BY <1>3 DEF i_wr_en, Request, ReadRequest, WriteRequest
<1>6. /\ drState' \in {0, 10, 11, 20, 21, 22, 50, 51, 100}
      /\ r_maddr' \in Addr /\ r_wdata_ui' \in Word /\ r_ctrl' \in SUBSET Lane
      /\ r_wdata' \in Word /\ r_mask' \in SUBSET Lane
      /\ r_dram_odata1' \in Word \cup {Junk}
  <2>0. DoutA \in Word \cup {Junk}
    BY DEF TypeOK, McTypeOK, SdTypeOK, DoutA
  <2> USE DEF TypeOK, DrTypeOK
  <2>1. CASE Idle
    BY <2>1, <1>4, <1>5 DEF Idle, CaptureRead, CaptureWrite,
       CaptureNothing, StartRead, StartWrite, Unserved
  <2>2. CASE AskRefresh
    BY <2>2, <1>4, <1>5 DEF AskRefresh, CaptureLater, CaptureRead,
       CaptureWrite, CaptureNothing, Unserved
  <2>3. CASE AwaitRefresh
    BY <2>3, <1>4, <1>5 DEF AwaitRefresh, CaptureLater, CaptureRead,
       CaptureWrite, CaptureNothing, StartRead, StartWrite, Unserved
  <2>4. CASE AskRead \/ AwaitRead
    BY <2>0, <2>4 DEF AskRead, AwaitRead, Unrequested
  <2>5. CASE AskWrite \/ HoldWrite \/ AwaitWrite \/ Release
    BY <2>5 DEF AskWrite, HoldWrite, AwaitWrite, Release, Unrequested
  <2>6. QED
    BY <2>1, <2>2, <2>3, <2>4, <2>5 DEF DramTick
<1>7. QED
  BY <1>0, <1>1, <1>2, <1>6 DEF DrTypeOK


LEMMA InitTypes == Init => TypeOK
<1> SUFFICES ASSUME Init PROVE TypeOK
  OBVIOUS
<1>1. SdFlagsOK /\ McFlagsOK /\ DrFlagsOK
  BY Zenon DEF Init, SdInit, McInit, DrInit, SdFlagsOK, McFlagsOK, DrFlagsOK
<1>2. SdTypeOK
  BY <1>1, TimingFacts DEF Init, SdInit, SdTypeOK
<1>3. McTypeOK
  BY <1>1 DEF Init, McInit, McTypeOK, Command, WCYCLES_MAX
<1>4. DrTypeOK
  BY <1>1 DEF Init, DrInit, DrTypeOK
<1>5. QED
  BY <1>2, <1>3, <1>4 DEF TypeOK

LEMMA StutterTypes ==
  ASSUME TypeOK, UNCHANGED vars
  PROVE  TypeOK'
<1>1. SdFlagsOK' /\ McFlagsOK' /\ DrFlagsOK'
  <2>1. SdFlagsOK'
    BY Zenon DEF vars, sdVars, TypeOK, SdTypeOK, SdFlagsOK
  <2>2. McFlagsOK'
    BY Zenon DEF vars, mcVars, TypeOK, McTypeOK, McFlagsOK
  <2>3. DrFlagsOK'
    BY Zenon DEF vars, drVars, TypeOK, DrTypeOK, DrFlagsOK
  <2>4. QED
    BY <2>1, <2>2, <2>3
<1>2. SdTypeOK'
  BY <1>1 DEF vars, sdVars, TypeOK, SdTypeOK
<1>3. McTypeOK'
  BY <1>1 DEF vars, mcVars, TypeOK, McTypeOK
<1>4. DrTypeOK'
  BY <1>1 DEF vars, drVars, TypeOK, DrTypeOK
<1>5. QED
  BY <1>2, <1>3, <1>4 DEF TypeOK

LEMMA StutterCtrl ==
  ASSUME CtrlInv, UNCHANGED vars
  PROVE  CtrlInv'
BY Zenon DEF vars, sdVars, mcVars, CtrlInv

LEMMA InitCtrl == Init => CtrlInv
BY DEF Init, SdInit, McInit, CtrlInv

LEMMA InitPort == Init => PortInv
BY DEF Init, SdInit, McInit, DrInit, PortInv

LEMMA InitLag == Init => LagInv
BY DEF Init, DrInit, LagInv

(* The types of the whole stack hold in every state, for every geometry    *)
(* and every timing.                                                       *)
THEOREM TypeCorrect == Spec => []TypeOK
<1>1. ASSUME TypeOK, [Tick]_vars PROVE TypeOK'
  <2>1. CASE Tick
    <3>1. r_maddr \in Addr /\ r_wdata \in Word
      BY <1>1 DEF TypeOK, DrTypeOK
    <3>2. SdTypeOK' /\ McTypeOK'
      BY <1>1, <2>1, <3>1, CommandOutType, McTypes DEF Tick, TypeOK
    <3>3. DrTypeOK'
      BY <1>1, <2>1, DrTypes DEF Tick
    <3>4. QED
      BY <3>2, <3>3 DEF TypeOK
  <2>2. CASE UNCHANGED vars
    BY <1>1, <2>2, StutterTypes
  <2>3. QED
    BY <1>1, <2>1, <2>2
<1>2. QED
  BY <1>1, InitTypes, PTL DEF Spec

(* The controller and the sequencer count together in every state.         *)
THEOREM InStep == Spec => []CtrlInv
<1>1. ASSUME TypeOK, CtrlInv, [Tick]_vars PROVE CtrlInv'
  <2>1. CASE Tick
    BY <1>1, <2>1, CommandOutType, CtrlStep DEF Tick, TypeOK
  <2>2. CASE UNCHANGED vars
    BY <1>1, <2>2, StutterCtrl
  <2>3. QED
    BY <1>1, <2>1, <2>2
<1>2. QED
  BY <1>1, InitCtrl, TypeCorrect, PTL DEF Spec

(* No command meets a sequencer that is not in IDLE, under any timing that *)
(* satisfies LatencyAssumption.                                            *)
THEOREM CommandsKept == Spec => []NoCommandLost
<1>1. CtrlInv => NoCommandLost
  BY DEF CtrlInv, NoCommandLost
<1>2. QED
  BY <1>1, InStep, PTL

(* Every read is latched in the cycle its word is on the data bus.         *)
THEOREM ReadsInTime == Spec => []NoTimingFail
<1>1. CtrlInv => NoTimingFail
  BY DEF CtrlInv, NoTimingFail
<1>2. QED
  BY <1>1, InStep, PTL

-----------------------------------------------------------------------------
(* What one edge of the controller does, seen from the port.               *)
LEMMA McEffect ==
  ASSUME CtrlInv, NEW cmd \in Command, NEW a, NEW din, NEW ctrl,
         McTick(cmd, a, din, ctrl)
  PROVE  /\ ~mcBusy /\ cmd # "none" =>
              mcBusy' /\ ~mcInit' /\ mcOp' = cmd /\ mcCycles' = 1 /\ mcWcycles' = 1
         /\ ~mcBusy /\ cmd = "none" => ~mcBusy' /\ ~mcInit'
         /\ mcBusy /\ mcInit => (mcBusy' => mcInit')
         /\ mcBusy /\ ~mcInit => ~mcInit' /\ mcOp' = mcOp
<1>1. CASE McStart(cmd, a, din)
  <2>1. ~mcBusy /\ ~mcInit
    BY <1>1 DEF McStart, CtrlInv
  <2>2. QED
    BY <1>1, <2>1 DEF McStart
<1>2. CASE McIdle(cmd)
  <2>1. ~mcBusy /\ ~mcInit
    BY <1>2 DEF McIdle, CtrlInv
  <2>2. QED
    BY <1>2, <2>1 DEF McIdle
<1>3. CASE McInitialize
  <2>1. mcBusy /\ mcInit /\ mcInit' = sdBusy /\ mcBusy' = sdBusy
    BY <1>3 DEF McInitialize
  <2>2. mcBusy' => mcInit'
    BY <2>1, Zenon
  <2>3. QED
    BY <2>1, <2>2
<1>4. CASE McFinish
  BY <1>4 DEF McFinish
<1>5. CASE McWait
  BY <1>5 DEF McWait
<1>6. QED
  BY <1>1, <1>2, <1>3, <1>4, <1>5 DEF McTick

LEMMA RqEffect ==
  ASSUME RequesterTick
  PROVE  /\ r_stall => rq' = NoReq
         /\ ~r_stall /\ rq # NoReq => rq' = rq
         /\ mcInit /\ rq = NoReq => rq' = NoReq
BY Zenon DEF RequesterTick, RaiseRequest, HoldRequest, LowerRequest, StayQuiet, o_busy

LEMMA RqKinds ==
  ASSUME TypeOK
  PROVE  (rq = NoReq) \/ i_rd_en \/ i_wr_en
BY DEF TypeOK, DrTypeOK, Request, ReadRequest, WriteRequest, i_rd_en, i_wr_en

(* The command the port gives the controller, by its state.                *)
LEMMA CommandOf ==
  ASSUME PortInv
  PROVE  /\ drState = 10 => CommandOut = "read"
         /\ drState = 21 => CommandOut = "write"
         /\ drState = 50 => CommandOut = "refresh"
         /\ drState \notin {10, 21, 50} => CommandOut = "none"
BY DEF PortInv, CommandOut

(* What is captured during a refresh and not yet served.                   *)
CapturedOne ==
  /\ ~(read_request /\ write_request)
  /\ r_stall <=> read_request \/ write_request
  /\ read_request /\ rq # NoReq => rq.op = "read"
  /\ write_request /\ rq # NoReq => rq.op = "write"

(* A request that arrives during a refresh is captured once.               *)
LEMMA RequestCaptured ==
  ASSUME TypeOK, CapturedOne, CaptureLater, RequesterTick
  PROVE  CapturedOne'
<1>1. CASE ~read_request /\ i_rd_en
  <2>1. read_request' /\ r_stall' /\ write_request' = write_request
    BY <1>1 DEF CaptureLater, CaptureRead
  <2>2. ~write_request
    BY <1>1 DEF CapturedOne, i_rd_en
  <2>3. ~write_request'
    BY <2>1, <2>2, Zenon
  <2>4. rq' = rq \/ rq' = NoReq
    BY <1>1, RqEffect DEF i_rd_en
  <2>5. QED
    BY <1>1, <2>1, <2>3, <2>4 DEF CapturedOne, i_rd_en
<1>2. CASE ~read_request /\ ~write_request /\ i_wr_en
  <2>1. write_request' /\ r_stall' /\ read_request' = read_request
    BY <1>2 DEF CaptureLater, CaptureWrite, i_rd_en, i_wr_en
  <2>2. ~read_request'
    BY <1>2, <2>1, Zenon
  <2>3. rq' = rq \/ rq' = NoReq
    BY <1>2, RqEffect DEF i_wr_en
  <2>4. QED
    BY <1>2, <2>1, <2>2, <2>3 DEF CapturedOne, i_wr_en
<1>3. CASE ~(~read_request /\ i_rd_en) /\ ~(~write_request /\ i_wr_en)
  <2>1. /\ read_request' = read_request /\ write_request' = write_request
        /\ r_stall' = r_stall
    BY <1>3, Zenon DEF CaptureLater, CaptureNothing
  <2>2. read_request \/ write_request \/ rq = NoReq
    BY <1>3, RqKinds
  <2>3. r_stall => rq' = NoReq
    BY RqEffect
  <2>4. CASE r_stall
    BY <2>1, <2>3, <2>4, Zenon DEF CapturedOne
  <2>5. CASE ~r_stall
    BY <2>1, <2>5, Zenon DEF CapturedOne
  <2>6. QED
    BY <2>4, <2>5
<1>4. CASE read_request /\ i_wr_en
  BY <1>4 DEF CapturedOne, i_wr_en
<1>5. QED
  BY <1>1, <1>2, <1>3, <1>4

(* The port's own invariant, one lemma for each group of its states.       *)
LEMMA PortStep0 ==
  ASSUME TypeOK, CtrlInv, PortInv, Tick, drState = 0
  PROVE  PortInv'
<1> USE DEF w_busy
<1>1. /\ Idle /\ ~r_stall /\ ~r_rd /\ ~r_we /\ ~r_refresh
      /\ ~read_request /\ ~write_request /\ (mcBusy => mcInit)
  BY DEF Tick, DramTick, PortInv, AskRefresh, AwaitRefresh, AskRead, AwaitRead,
         AskWrite, HoldWrite, AwaitWrite, Release
<1>2. /\ ~mcBusy => ~mcBusy' /\ ~mcInit'
      /\ mcBusy => (mcBusy' => mcInit')
  BY <1>1, CommandOf, CommandOutType, McEffect DEF Tick
<1>3. /\ rq # NoReq => rq' = rq
      /\ mcInit /\ rq = NoReq => rq' = NoReq
  BY <1>1, RqEffect DEF Tick
<1>4. ~r_we' /\ ~read_request' /\ ~write_request'
  BY <1>1, Zenon DEF Idle, Unserved
<1>5. CASE i_rd_en /\ ~mcBusy
  <2>1. drState' = 10 /\ r_stall' /\ r_rd' /\ ~r_refresh'
    BY <1>1, <1>5 DEF Idle, CaptureRead, StartRead, i_rd_en, i_wr_en
  <2>2. QED
    BY <1>2, <1>4, <1>5, <2>1 DEF PortInv
<1>6. CASE i_wr_en /\ ~mcBusy
  <2>1. drState' = 20 /\ r_stall' /\ r_rd' = r_rd /\ ~r_refresh'
    BY <1>1, <1>6 DEF Idle, CaptureWrite, StartWrite, i_rd_en, i_wr_en
  <2>2. ~r_rd'
    BY <1>1, <2>1, Zenon
  <2>3. QED
    BY <1>2, <1>4, <1>6, <2>1, <2>2 DEF PortInv
<1>7. CASE rq = NoReq /\ ~mcBusy /\ RefreshDue
  <2>1. drState' = 50 /\ r_stall' = r_stall /\ r_rd' = r_rd /\ r_refresh'
    BY <1>1, <1>7 DEF Idle, CaptureNothing, i_rd_en, i_wr_en
  <2>2. ~r_rd' /\ ~r_stall'
    BY <1>1, <2>1, Zenon
  <2>3. QED
    BY <1>2, <1>4, <1>7, <2>1, <2>2 DEF PortInv
<1>8. CASE mcBusy \/ (rq = NoReq /\ ~RefreshDue)
  <2>1. /\ drState' = 0 /\ r_stall' = r_stall /\ r_rd' = r_rd
        /\ r_refresh' = r_refresh
    BY <1>1, <1>8 DEF Idle, CaptureNothing, i_rd_en, i_wr_en
  <2>2. ~r_rd' /\ ~r_stall' /\ ~r_refresh'
    BY <1>1, <2>1, Zenon
  <2>3. QED
    BY <1>2, <1>4, <1>8, <2>1, <2>2 DEF PortInv
<1>9. QED
  BY <1>5, <1>6, <1>7, <1>8, RqKinds

LEMMA PortStep50 ==
  ASSUME TypeOK, CtrlInv, PortInv, Tick, drState = 50
  PROVE  PortInv'
<1> USE DEF w_busy
<1>1. /\ AskRefresh /\ ~r_rd /\ ~r_we /\ r_refresh /\ ~mcInit
      /\ ~(read_request /\ write_request)
      /\ r_stall <=> read_request \/ write_request
      /\ mcBusy => mcOp = "refresh"
      /\ read_request /\ rq # NoReq => rq.op = "read"
      /\ write_request /\ rq # NoReq => rq.op = "write"
  BY DEF Tick, DramTick, PortInv, Idle, AwaitRefresh, AskRead, AwaitRead,
         AskWrite, HoldWrite, AwaitWrite, Release
<1>2. /\ ~mcInit'
      /\ ~mcBusy => mcBusy' /\ mcOp' = "refresh" /\ mcCycles' = 1
      /\ mcBusy => mcOp' = "refresh"
  BY <1>1, CommandOf, CommandOutType, McEffect DEF Tick
<1>3. ~r_rd' /\ ~r_we'
  BY <1>1, Zenon DEF AskRefresh, Unserved
<1>4. /\ mcBusy => drState' = 51 /\ ~r_refresh'
      /\ ~mcBusy => drState' = 50 /\ r_refresh'
  <2>1. CASE mcBusy
    BY <1>1, <2>1 DEF AskRefresh
  <2>2. CASE ~mcBusy
    <3>1. drState' = 50 /\ r_refresh' = r_refresh
      BY <1>1, <2>2 DEF AskRefresh
    <3>2. QED
      BY <1>1, <2>2, <3>1, Zenon
  <2>3. QED
    BY <2>1, <2>2
<1>5. CapturedOne'
  <2>1. CapturedOne /\ CaptureLater /\ RequesterTick
    BY <1>1 DEF CapturedOne, AskRefresh, Tick
  <2>2. QED
    BY <2>1, RequestCaptured
<1>6. QED
  BY <1>2, <1>3, <1>4, <1>5 DEF PortInv, CapturedOne

LEMMA PortStep51 ==
  ASSUME TypeOK, CtrlInv, PortInv, Tick, drState = 51
  PROVE  PortInv'
<1> USE DEF w_busy
<1>1. AwaitRefresh /\ ~r_rd /\ ~r_we /\ ~r_refresh /\ ~mcInit /\ CapturedOne
  BY DEF Tick, DramTick, PortInv, Idle, AskRefresh, AskRead, AwaitRead,
         AskWrite, HoldWrite, AwaitWrite, Release, CapturedOne
<1>2. /\ ~mcInit'
      /\ ~mcBusy => ~mcBusy'
      /\ mcBusy => mcOp' = mcOp /\ mcOp = "refresh"
  BY <1>1, CommandOf, CommandOutType, McEffect DEF Tick, PortInv
<1>3. ~r_we' /\ ~r_refresh'
  BY <1>1, Zenon DEF AwaitRefresh, Unserved
<1>4. /\ r_stall => rq' = NoReq
      /\ ~r_stall /\ rq # NoReq => rq' = rq
  BY RqEffect DEF Tick
<1>5. CASE mcBusy
  <2>1. drState' = 51 /\ r_rd' = r_rd /\ CaptureLater
    BY <1>1, <1>5 DEF AwaitRefresh
  <2>2. ~r_rd'
    BY <1>1, <2>1, Zenon
  <2>3. CapturedOne'
    BY <1>1, <2>1, RequestCaptured DEF Tick
  <2>4. QED
    BY <1>2, <1>3, <1>5, <2>1, <2>2, <2>3 DEF PortInv, CapturedOne
<1>6. CASE ~mcBusy /\ read_request
  <2>1. /\ drState' = 10 /\ r_rd' /\ r_stall' = r_stall /\ ~read_request'
        /\ write_request' = write_request
    BY <1>1, <1>6 DEF AwaitRefresh, CaptureNothing, StartRead
  <2>2. ~write_request' /\ r_stall'
    BY <1>1, <1>6, <2>1, Zenon DEF CapturedOne
  <2>3. QED
    BY <1>2, <1>3, <1>6, <2>1, <2>2 DEF PortInv
<1>7. CASE ~mcBusy /\ ~read_request /\ write_request
  <2>1. /\ drState' = 20 /\ r_rd' = r_rd /\ r_stall' = r_stall
        /\ ~write_request' /\ read_request' = read_request
    BY <1>1, <1>7 DEF AwaitRefresh, CaptureNothing, StartWrite
  <2>2. ~r_rd' /\ r_stall' /\ ~read_request'
    BY <1>1, <1>7, <2>1, Zenon DEF CapturedOne
  <2>3. QED
    BY <1>2, <1>3, <1>7, <2>1, <2>2 DEF PortInv
<1>8. CASE ~mcBusy /\ ~read_request /\ ~write_request
  <2>1. read_request' = read_request /\ write_request' = write_request
    BY <1>8, <1>1, Zenon DEF AwaitRefresh
  <2>2. ~read_request' /\ ~write_request' /\ ~r_stall
    BY <1>1, <1>8, <2>1, Zenon DEF CapturedOne
  <2>3. CASE i_rd_en /\ CaptureRead /\ StartRead
    BY <1>2, <1>3, <1>8, <2>2, <2>3 DEF PortInv, CaptureRead, StartRead
  <2>4. CASE i_wr_en /\ CaptureWrite /\ StartWrite
    <3>1. drState' = 20 /\ r_rd' = r_rd /\ r_stall'
      BY <2>4 DEF CaptureWrite, StartWrite
    <3>2. ~r_rd'
      BY <1>1, <3>1, Zenon
    <3>3. QED
      BY <1>2, <1>3, <1>8, <2>2, <3>1, <3>2 DEF PortInv
  <2>5. CASE rq = NoReq /\ drState' = 0 /\ CaptureNothing /\ UNCHANGED r_rd
    <3>1. ~r_rd' /\ ~r_stall'
      BY <1>1, <2>2, <2>5, Zenon DEF CaptureNothing
    <3>2. QED
      BY <1>2, <1>3, <1>8, <2>2, <2>5, <3>1 DEF PortInv
  <2>6. QED
    BY <1>1, <1>8, <2>3, <2>4, <2>5 DEF AwaitRefresh
<1>9. QED
  BY <1>5, <1>6, <1>7, <1>8

LEMMA PortStepRead ==
  ASSUME TypeOK, CtrlInv, PortInv, Tick, drState \in {10, 11}
  PROVE  PortInv'
<1> USE DEF w_busy
<1>1. /\ AskRead \/ AwaitRead
      /\ ~r_we /\ ~r_refresh /\ ~mcInit /\ r_stall
      /\ ~read_request /\ ~write_request
      /\ r_rd <=> drState = 10
      /\ drState = 11 => rq = NoReq
      /\ mcBusy => mcOp = "read"
  BY DEF Tick, DramTick, PortInv, Idle, AskRefresh, AwaitRefresh,
         AskWrite, HoldWrite, AwaitWrite, Release
<1>2. /\ ~mcInit'
      /\ ~mcBusy /\ drState = 10 => mcBusy' /\ mcOp' = "read" /\ mcCycles' = 1
      /\ ~mcBusy /\ drState = 11 => ~mcBusy'
      /\ mcBusy => mcOp' = "read"
  BY <1>1, CommandOf, CommandOutType, McEffect DEF Tick
<1>3. ~r_we' /\ ~r_refresh' /\ ~read_request' /\ ~write_request'
  <2>1. /\ r_we' = r_we /\ r_refresh' = r_refresh
        /\ read_request' = read_request /\ write_request' = write_request
    BY <1>1 DEF AskRead, AwaitRead, Unrequested
  <2>2. QED
    BY <1>1, <2>1, Zenon
<1>4. rq' = NoReq
  BY <1>1, RqEffect DEF Tick
<1>5. CASE AskRead /\ mcBusy
  <2>1. drState' = 11 /\ ~r_rd' /\ r_stall' = r_stall
    BY <1>5 DEF AskRead
  <2>2. r_stall'
    BY <1>1, <2>1, Zenon
  <2>3. QED
    BY <1>2, <1>3, <1>4, <1>5, <2>1, <2>2 DEF PortInv
<1>6. CASE AskRead /\ ~mcBusy
  <2>1. drState = 10 /\ drState' = 10 /\ r_rd' = r_rd /\ r_stall' = r_stall
    BY <1>6 DEF AskRead
  <2>2. r_stall' /\ r_rd'
    BY <1>1, <2>1, Zenon
  <2>3. QED
    BY <1>2, <1>3, <1>4, <1>6, <2>1, <2>2 DEF PortInv
<1>7. CASE AwaitRead
  <2>1. drState = 11 /\ ~r_rd /\ r_rd' = r_rd
    BY <1>1, <1>7 DEF AwaitRead
  <2>2. ~r_rd'
    BY <2>1, Zenon
  <2>3. CASE mcBusy
    <3>1. drState' = 11 /\ r_stall' = r_stall
      BY <1>7, <2>3 DEF AwaitRead
    <3>2. r_stall'
      BY <1>1, <3>1, Zenon
    <3>3. QED
      BY <1>2, <1>3, <1>4, <2>1, <2>2, <2>3, <3>1, <3>2 DEF PortInv
  <2>4. CASE ~mcBusy
    <3>1. drState' = 0 /\ ~r_stall'
      BY <1>7, <2>4 DEF AwaitRead
    <3>2. QED
      BY <1>2, <1>3, <1>4, <2>1, <2>2, <2>4, <3>1 DEF PortInv
  <2>5. QED
    BY <2>3, <2>4
<1>8. QED
  BY <1>1, <1>5, <1>6, <1>7

LEMMA PortStepWrite ==
  ASSUME TypeOK, CtrlInv, CtrlInv', PortInv, Tick,
         drState \in {20, 21, 22, 100}
  PROVE  PortInv'
<1> USE DEF w_busy
<1>1. /\ AskWrite \/ HoldWrite \/ AwaitWrite \/ Release
      /\ ~r_rd /\ ~r_refresh /\ ~mcInit /\ r_stall
      /\ ~read_request /\ ~write_request
      /\ r_we <=> drState = 21
      /\ drState \in {22, 100} => rq = NoReq
      /\ drState \in {21, 22} /\ mcBusy => mcOp = "write"
      /\ drState \in {20, 100} => ~mcBusy
  BY DEF Tick, DramTick, PortInv, Idle, AskRefresh, AwaitRefresh,
         AskRead, AwaitRead
<1>2. /\ ~mcInit'
      /\ ~mcBusy /\ drState = 21 => mcBusy' /\ mcOp' = "write" /\ mcWcycles' = 1
      /\ ~mcBusy /\ drState # 21 => ~mcBusy'
      /\ mcBusy => mcOp' = mcOp
  BY <1>1, CommandOf, CommandOutType, McEffect DEF Tick
<1>3. ~r_rd' /\ ~r_refresh' /\ ~read_request' /\ ~write_request'
  <2>1. /\ r_rd' = r_rd /\ r_refresh' = r_refresh
        /\ read_request' = read_request /\ write_request' = write_request
    BY <1>1 DEF AskWrite, HoldWrite, AwaitWrite, Release, Unrequested
  <2>2. QED
    BY <1>1, <2>1, Zenon
<1>4. rq' = NoReq
  BY <1>1, RqEffect DEF Tick
<1>5. CASE AskWrite
  <2>1. drState = 20 /\ drState' = 21 /\ r_we' /\ r_stall' = r_stall
    BY <1>5 DEF AskWrite
  <2>2. r_stall'
    BY <1>1, <2>1, Zenon
  <2>3. QED
    BY <1>1, <1>2, <1>3, <1>4, <2>1, <2>2 DEF PortInv
<1>6. CASE HoldWrite /\ mcBusy
  <2>1. drState = 21 /\ drState' = 22 /\ ~r_we' /\ r_stall' = r_stall
    BY <1>6 DEF HoldWrite
  <2>2. r_stall'
    BY <1>1, <2>1, Zenon
  <2>3. QED
    BY <1>1, <1>2, <1>3, <1>4, <1>6, <2>1, <2>2 DEF PortInv
<1>7. CASE HoldWrite /\ ~mcBusy
  <2>1. drState = 21 /\ drState' = 21 /\ r_we' = r_we /\ r_stall' = r_stall
    BY <1>7 DEF HoldWrite
  <2>2. r_stall' /\ r_we'
    BY <1>1, <2>1, Zenon
  <2>3. mcBusy' /\ ~mcInit' /\ mcOp' = "write" /\ mcWcycles' = 1
    BY <1>2, <1>7, <2>1
  <2>4. sdState' = "WRITE"
    BY <2>3 DEF CtrlInv
  <2>5. QED
    BY <1>3, <1>4, <2>1, <2>2, <2>3, <2>4 DEF PortInv
<1>8. CASE AwaitWrite
  <2>1. /\ drState = 22 /\ r_we' = r_we /\ r_stall' = r_stall /\ ~r_we
        /\ drState' = IF mcBusy THEN 22 ELSE 100
    BY <1>1, <1>8 DEF AwaitWrite
  <2>2. r_stall' /\ ~r_we'
    BY <1>1, <2>1, Zenon
  <2>3. QED
    BY <1>1, <1>2, <1>3, <1>4, <2>1, <2>2 DEF PortInv
<1>9. CASE Release
  <2>1. drState = 100 /\ r_we' = r_we /\ ~r_stall' /\ ~r_we /\ drState' = 0
    BY <1>1, <1>9 DEF Release
  <2>2. ~r_we'
    BY <2>1, Zenon
  <2>3. QED
    BY <1>1, <1>2, <1>3, <1>4, <2>1, <2>2 DEF PortInv
<1>10. QED
  BY <1>1, <1>5, <1>6, <1>7, <1>8, <1>9

(* The flags of the port match its state, and the controller does what     *)
(* that state is waiting for.                                              *)
THEOREM PortInStep == Spec => []PortInv
<1>1. ASSUME TypeOK, CtrlInv, CtrlInv', PortInv, [Tick]_vars PROVE PortInv'
  <2>1. CASE Tick
    <3>1. drState \in {0, 10, 11, 20, 21, 22, 50, 51, 100}
      BY <1>1 DEF TypeOK, DrTypeOK
    <3>2. QED
      BY <1>1, <2>1, <3>1, PortStep0, PortStep50, PortStep51, PortStepRead,
         PortStepWrite
  <2>2. CASE UNCHANGED vars
    BY <1>1, <2>2, Zenon DEF vars, sdVars, mcVars, drVars, PortInv
  <2>3. QED
    BY <1>1, <2>1, <2>2
<1>2. QED
  BY <1>1, InitPort, TypeCorrect, InStep, PTL DEF Spec

(* When a refresh ends with nothing to serve, no requester is held off.    *)
THEOREM NoForgottenStall == Spec => []NoStallWithoutRequest
<1>1. PortInv => NoStallWithoutRequest
  BY DEF PortInv, NoStallWithoutRequest
<1>2. QED
  BY <1>1, PortInStep, PTL

-----------------------------------------------------------------------------
(* How far an operation under way gets in one edge.                        *)
LEMMA McProgress ==
  ASSUME SdTypeOK, McTypeOK, CtrlInv, CtrlInv', NEW cmd \in Command, NEW a,
         NEW din, NEW ctrl, McTick(cmd, a, din, ctrl), mcBusy, ~mcInit
  PROVE  /\ mcOp = "read" => /\ mcCycles \in 1 .. 4
                             /\ mcBusy' => mcCycles' = mcCycles + 1
         /\ mcOp = "write" /\ sdState = "WRITE" =>
              /\ sdCycle \in 1 .. WRITE_LEN
              /\ mcWcycles = 1 => sdCycle = 1
              /\ sdState' = "WRITE" => sdCycle' = sdCycle + 1
         /\ mcOp = "write" /\ sdState # "WRITE" => ~mcBusy'
<1>0. McFinish \/ McWait
  BY DEF McTick, McStart, McIdle, McInitialize
<1>1. ASSUME mcOp = "read"
      PROVE  mcCycles \in 1 .. 4 /\ (mcBusy' => mcCycles' = mcCycles + 1)
  <2>1. mcCycles \in 1 .. 4
    BY <1>1, TimingFacts DEF CtrlInv
  <2>2. mcCycles' = mcCycles + 1
    <3>1. Count
      BY <1>0 DEF McFinish, McWait
    <3>2. QED
      BY <2>1, <3>1 DEF Count, Saturate
  <2>3. QED
    BY <2>1, <2>2
<1>2. ASSUME mcOp = "write", sdState = "WRITE"
      PROVE  /\ sdCycle \in 1 .. WRITE_LEN
             /\ mcWcycles = 1 => sdCycle = 1
             /\ sdState' = "WRITE" => sdCycle' = sdCycle + 1
  <2>1. sdCycle \in 1 .. WRITE_LEN /\ (mcWcycles = 1 => sdCycle = 1)
    BY <1>2, TimingFacts DEF CtrlInv
  <2>2. SdWrite(ToSdramAddr(a), ToSdramDin(din), ctrl)
    BY <1>2, WhichEdge DEF McTick
  <2>3. CASE sdCycle = WRITE_LEN
    BY <2>1, <2>2, <2>3, WriteEnd
  <2>4. CASE sdCycle # WRITE_LEN
    BY <2>1, <2>2, <2>4, WriteWait
  <2>5. QED
    BY <2>1, <2>3, <2>4
<1>3. ASSUME mcOp = "write", sdState # "WRITE"
      PROVE  ~mcBusy'
  <2>1. mcWcycles = 5 /\ ~sdBusy
    BY <1>3 DEF CtrlInv
  <2>2. Finished
    BY <1>3, <2>1 DEF Finished, WRITE_CYCLES
  <2>3. QED
    BY <1>0, <2>2 DEF McFinish, McWait
<1>4. QED
  BY <1>1, <1>2, <1>3

LEMMA LagBounds ==
  ASSUME TypeOK
  PROVE  Lag \in Nat
BY TimingFacts DEF TypeOK, SdTypeOK, McTypeOK, DrTypeOK, Lag, REFRESH_LAG, WCYCLES_MAX

(* A cycle of the clock takes the port at most one cycle closer to its bound. *)
LEMMA LagStep ==
  ASSUME TypeOK, TypeOK', CtrlInv, CtrlInv', PortInv, PortInv', LagInv, Tick
  PROVE  LagInv'
<1>1. CASE drState = 51
  <2>1. r_refreshcnt' = 0
    BY <1>1 DEF Tick, DramTick, RefreshCounter
  <2>2. Lag' \in Nat
    BY TimingFacts DEF TypeOK, SdTypeOK, McTypeOK, DrTypeOK, Lag, REFRESH_LAG,
       WCYCLES_MAX
  <2>3. ~mcInit
    BY <1>1 DEF PortInv
  <2>4. ~mcInit'
    BY <2>3, CommandOutType, McEffect DEF Tick
  <2>5. REFRESH_CNT \in Nat
    BY TimingFacts
  <2>6. r_refreshcnt' <= REFRESH_CNT + Lag'
    <3>1. \A m, n \in Nat : 0 <= m + n
      OBVIOUS
    <3>2. 0 <= REFRESH_CNT + Lag'
      BY <2>2, <2>5, <3>1, Zenon
    <3>3. QED
      BY <2>1, <3>2, Zenon
  <2>7. QED
    BY <2>4, <2>6 DEF LagInv
<1>2. CASE drState # 51 /\ ~refreshed
  <2>1. refreshed' = (refreshed \/ drState = 51)
    BY DEF Tick, DramTick
  <2>2. ~refreshed'
    BY <1>2, <2>1
  <2>3. QED
    BY <2>2 DEF LagInv
<1>3. CASE drState # 51 /\ refreshed
  <2>1. /\ r_refreshcnt' = r_refreshcnt + 1 /\ r_refreshcnt \in Nat
        /\ r_refreshcnt <= REFRESH_CNT + Lag /\ ~mcInit
    BY <1>3 DEF Tick, DramTick, RefreshCounter, LagInv, TypeOK, DrTypeOK
  <2>2. /\ ~mcInit'
        /\ ~mcBusy /\ CommandOut # "none" => mcBusy' /\ mcOp' = CommandOut
        /\ ~mcBusy /\ CommandOut = "none" => ~mcBusy'
    BY <2>1, CommandOutType, McEffect DEF Tick
  <2>3. /\ drState = 10 => CommandOut = "read"
        /\ drState = 21 => CommandOut = "write"
        /\ drState = 50 => CommandOut = "refresh"
        /\ drState \notin {10, 21, 50} => CommandOut = "none"
    BY CommandOf
  <2>4. /\ r_stall => rq' = NoReq
        /\ ~r_stall /\ rq # NoReq => rq' = rq
    BY RqEffect DEF Tick
  <2>5. REFRESH_CNT \in Nat /\ WRITE_LEN \in 4 .. 14
    BY TimingFacts
  <2>6. SUFFICES r_refreshcnt' <= REFRESH_CNT + Lag'
    BY <2>2 DEF LagInv
  <2>7. CASE drState = 0
    <3>1. Idle /\ ~mcBusy /\ ~mcBusy'
      BY <2>1, <2>2, <2>3, <2>7 DEF Tick, DramTick, PortInv, AskRefresh,
         AwaitRefresh, AskRead, AwaitRead, AskWrite, HoldWrite, AwaitWrite,
         Release
    <3>2. CASE rq # NoReq
      <4>1. r_refreshcnt <= REFRESH_CNT + 1
        BY <2>1, <2>7, <3>2 DEF Lag
      <4>2. drState' \in {10, 20}
        BY <3>1, <3>2 DEF Idle, StartRead, StartWrite, w_busy
      <4>3. Lag' = 2
        BY <3>1, <4>2 DEF Lag
      <4>4. QED
        BY <2>1, <2>5, <4>1, <4>3
    <3>3. CASE rq = NoReq /\ RefreshDue
      <4>1. r_refreshcnt <= REFRESH_CNT + WRITE_LEN + 7
        BY <2>1, <2>5, <2>7, <3>3 DEF Lag
      <4>2. drState' = 50
        BY <3>1, <3>3 DEF Idle, i_rd_en, i_wr_en, w_busy
      <4>3. Lag' = WRITE_LEN + 8
        BY <3>1, <4>2 DEF Lag
      <4>4. QED
        BY <2>1, <2>5, <4>1, <4>3
    <3>4. CASE rq = NoReq /\ ~RefreshDue
      <4>1. r_refreshcnt <= REFRESH_CNT
        BY <2>1, <2>5, <3>4 DEF RefreshDue
      <4>2. drState' = 0
        BY <3>1, <3>4 DEF Idle, i_rd_en, i_wr_en, w_busy
      <4>3. Lag' = WRITE_LEN + 7 \/ Lag' = 1
        BY <4>2 DEF Lag
      <4>4. QED
        BY <2>1, <2>5, <4>1, <4>3
    <3>5. QED
      BY <3>2, <3>3, <3>4
  <2>8. CASE drState = 50
    <3>1. AskRefresh
      BY <2>8 DEF Tick, DramTick, Idle, AwaitRefresh, AskRead, AwaitRead,
         AskWrite, HoldWrite, AwaitWrite, Release
    <3>2. CASE mcBusy
      <4>1. Lag = WRITE_LEN + 9 /\ drState' = 51
        BY <2>8, <3>1, <3>2 DEF Lag, AskRefresh, w_busy
      <4>2. Lag' = WRITE_LEN + 10
        BY <4>1 DEF Lag, REFRESH_LAG, WRITE_LEN
      <4>3. QED
        BY <2>1, <2>5, <4>1, <4>2
    <3>3. CASE ~mcBusy
      <4>1. Lag = WRITE_LEN + 8 /\ drState' = 50 /\ mcBusy'
        BY <2>2, <2>3, <2>8, <3>1, <3>3 DEF Lag, AskRefresh, w_busy
      <4>2. Lag' = WRITE_LEN + 9
        BY <4>1 DEF Lag
      <4>3. QED
        BY <2>1, <2>5, <4>1, <4>2
    <3>4. QED
      BY <3>2, <3>3
  <2>9. CASE drState = 10
    <3>1. AskRead
      BY <2>9 DEF Tick, DramTick, Idle, AskRefresh, AwaitRefresh, AwaitRead,
         AskWrite, HoldWrite, AwaitWrite, Release
    <3>2. CASE mcBusy
      <4>1. Lag = 3 /\ drState' = 11 /\ mcCycles = 1 /\ mcOp = "read"
        BY <2>9, <3>1, <3>2 DEF Lag, AskRead, w_busy, PortInv
      <4>2. mcBusy' => mcCycles' = 2
        BY <2>1, <3>2, <4>1, CommandOutType, McProgress DEF Tick, TypeOK
      <4>3. Lag' = 4 \/ Lag' = 7
        BY <4>1, <4>2 DEF Lag
      <4>4. QED
        BY <2>1, <2>5, <4>1, <4>3
    <3>3. CASE ~mcBusy
      <4>1. Lag = 2 /\ drState' = 10 /\ mcBusy'
        BY <2>2, <2>3, <2>9, <3>1, <3>3 DEF Lag, AskRead, w_busy
      <4>2. Lag' = 3
        BY <4>1 DEF Lag
      <4>3. QED
        BY <2>1, <2>5, <4>1, <4>2
    <3>4. QED
      BY <3>2, <3>3
  <2>10. CASE drState = 11
    <3>1. AwaitRead /\ r_stall
      BY <2>10 DEF Tick, DramTick, Idle, AskRefresh, AwaitRefresh, AskRead,
         AskWrite, HoldWrite, AwaitWrite, Release, PortInv
    <3>2. CASE mcBusy
      <4>1. Lag = 2 + mcCycles /\ drState' = 11 /\ mcOp = "read"
        BY <2>10, <3>1, <3>2 DEF Lag, AwaitRead, w_busy, PortInv
      <4>2. mcCycles \in 1 .. 4 /\ (mcBusy' => mcCycles' = mcCycles + 1)
        BY <2>1, <3>2, <4>1, CommandOutType, McProgress DEF Tick, TypeOK
      <4>3. Lag' = 2 + (mcCycles + 1) \/ Lag' = 7
        BY <4>1, <4>2 DEF Lag
      <4>4. QED
        BY <2>1, <2>5, <4>1, <4>2, <4>3
    <3>3. CASE ~mcBusy
      <4>1. Lag = 7 /\ drState' = 0 /\ rq' = NoReq
        BY <2>4, <2>10, <3>1, <3>3 DEF Lag, AwaitRead, w_busy
      <4>2. Lag' = WRITE_LEN + 7
        BY <4>1 DEF Lag
      <4>3. QED
        BY <2>1, <2>5, <4>1, <4>2
    <3>4. QED
      BY <3>2, <3>3
  <2>11. CASE drState = 20
    <3>1. AskWrite /\ ~mcBusy
      BY <2>11 DEF Tick, DramTick, Idle, AskRefresh, AwaitRefresh, AskRead,
         AwaitRead, HoldWrite, AwaitWrite, Release, PortInv
    <3>2. Lag = 2 /\ drState' = 21 /\ ~mcBusy'
      BY <2>2, <2>3, <2>11, <3>1 DEF Lag, AskWrite
    <3>3. Lag' = 3
      BY <3>2 DEF Lag
    <3>4. QED
      BY <2>1, <2>5, <3>2, <3>3
  <2>12. CASE drState = 21
    <3>1. HoldWrite
      BY <2>12 DEF Tick, DramTick, Idle, AskRefresh, AwaitRefresh, AskRead,
         AwaitRead, AskWrite, AwaitWrite, Release
    <3>2. CASE mcBusy
      <4>1. /\ Lag = 4 /\ drState' = 22
            /\ mcOp = "write" /\ mcWcycles = 1 /\ sdState = "WRITE"
        BY <2>12, <3>1, <3>2 DEF Lag, HoldWrite, w_busy, PortInv
      <4>2. sdState' = "WRITE" => sdCycle' = 2
        BY <2>1, <3>2, <4>1, CommandOutType, McProgress DEF Tick, TypeOK
      <4>3. Lag' = 5 \/ Lag' = WRITE_LEN + 4 \/ Lag' = WRITE_LEN + 5
        BY <4>1, <4>2 DEF Lag
      <4>4. QED
        BY <2>1, <2>5, <4>1, <4>3
    <3>3. CASE ~mcBusy
      <4>1. Lag = 3 /\ drState' = 21 /\ mcBusy'
        BY <2>2, <2>3, <2>12, <3>1, <3>3 DEF Lag, HoldWrite, w_busy
      <4>2. Lag' = 4
        BY <4>1 DEF Lag
      <4>3. QED
        BY <2>1, <2>5, <4>1, <4>2
    <3>4. QED
      BY <3>2, <3>3
  <2>13. CASE drState = 22
    <3>1. AwaitWrite /\ (mcBusy => mcOp = "write")
      BY <2>13 DEF Tick, DramTick, Idle, AskRefresh, AwaitRefresh, AskRead,
         AwaitRead, AskWrite, HoldWrite, Release, PortInv
    <3>2. CASE mcBusy /\ sdState = "WRITE"
      <4>1. Lag = 3 + sdCycle /\ drState' = 22
        BY <2>13, <3>1, <3>2 DEF Lag, AwaitWrite, w_busy
      <4>2. /\ sdCycle \in 1 .. WRITE_LEN
            /\ sdState' = "WRITE" => sdCycle' = sdCycle + 1
        BY <2>1, <3>1, <3>2, CommandOutType, McProgress DEF Tick, TypeOK
      <4>3. \/ Lag' = 3 + (sdCycle + 1)
            \/ Lag' = WRITE_LEN + 4 \/ Lag' = WRITE_LEN + 5
        BY <4>1, <4>2 DEF Lag
      <4>4. QED
        BY <2>1, <2>5, <4>1, <4>2, <4>3
    <3>3. CASE mcBusy /\ sdState # "WRITE"
      <4>1. Lag = WRITE_LEN + 4 /\ drState' = 22
        BY <2>13, <3>1, <3>3 DEF Lag, AwaitWrite, w_busy
      <4>2. ~mcBusy'
        BY <2>1, <3>1, <3>3, CommandOutType, McProgress DEF Tick, TypeOK
      <4>3. Lag' = WRITE_LEN + 5
        BY <4>1, <4>2 DEF Lag
      <4>4. QED
        BY <2>1, <2>5, <4>1, <4>3
    <3>4. CASE ~mcBusy
      <4>1. Lag = WRITE_LEN + 5 /\ drState' = 100
        BY <2>13, <3>1, <3>4 DEF Lag, AwaitWrite, w_busy
      <4>2. Lag' = WRITE_LEN + 6
        BY <4>1 DEF Lag
      <4>3. QED
        BY <2>1, <2>5, <4>1, <4>2
    <3>5. QED
      BY <3>2, <3>3, <3>4
  <2>14. CASE drState = 100
    <3>1. Release /\ r_stall
      BY <2>14 DEF Tick, DramTick, Idle, AskRefresh, AwaitRefresh, AskRead,
         AwaitRead, AskWrite, HoldWrite, AwaitWrite, PortInv
    <3>2. Lag = WRITE_LEN + 6 /\ drState' = 0 /\ rq' = NoReq
      BY <2>4, <2>14, <3>1 DEF Lag, Release
    <3>3. Lag' = WRITE_LEN + 7
      BY <3>2 DEF Lag
    <3>4. QED
      BY <2>1, <2>5, <3>2, <3>3
  <2>15. drState \in {0, 10, 11, 20, 21, 22, 50, 51, 100}
    BY DEF TypeOK, DrTypeOK
  <2>16. QED
    BY <1>3, <2>7, <2>8, <2>9, <2>10, <2>11, <2>12, <2>13, <2>14, <2>15
<1>4. QED
  BY <1>1, <1>2, <1>3

LEMMA LagBoundsRefresh ==
  ASSUME TypeOK, CtrlInv, PortInv
  PROVE  Lag <= REFRESH_LAG
<1>1. WRITE_LEN \in 4 .. 14
  BY TimingFacts
<1>2. drState = 22 /\ mcBusy /\ sdState = "WRITE" => sdCycle <= WRITE_LEN
  BY DEF CtrlInv, PortInv
<1>3. drState = 11 /\ mcBusy => mcCycles <= 4
  BY TimingFacts DEF CtrlInv, PortInv
<1>4. sdCycle \in Nat /\ mcCycles \in Nat
  BY DEF TypeOK, SdTypeOK, McTypeOK
<1>5. drState \in {0, 10, 11, 20, 21, 22, 50, 51, 100}
  BY DEF TypeOK, DrTypeOK
<1> HIDE DEF WRITE_LEN
<1>6. QED
  BY <1>1, <1>2, <1>3, <1>4, <1>5 DEF Lag, REFRESH_LAG

(* Whatever the requester does, the next refresh starts at most            *)
(* REFRESH_LAG cycles after it is due.                                     *)
THEOREM RefreshNeverLate == Spec => []RefreshInTime
<1>1. ASSUME TypeOK, TypeOK', CtrlInv, CtrlInv', PortInv, PortInv', LagInv,
             [Tick]_vars
      PROVE  LagInv'
  <2>1. CASE Tick
    BY <1>1, <2>1, LagStep
  <2>2. CASE UNCHANGED vars
    BY <1>1, <2>2, Zenon DEF vars, sdVars, mcVars, drVars, LagInv, Lag
  <2>3. QED
    BY <1>1, <2>1, <2>2
<1>2. ASSUME TypeOK, CtrlInv, PortInv, LagInv
      PROVE  RefreshInTime
  <2>1. Lag <= REFRESH_LAG /\ Lag \in Nat
    BY <1>2, LagBounds, LagBoundsRefresh
  <2>2. REFRESH_CNT \in Nat /\ REFRESH_LAG \in Nat /\ r_refreshcnt \in Nat
    BY <1>2, TimingFacts DEF REFRESH_LAG, TypeOK, DrTypeOK
  <2>3. QED
    BY <1>2, <2>1, <2>2 DEF LagInv, RefreshInTime
<1>3. QED
  BY <1>1, <1>2, InitLag, TypeCorrect, InStep, PortInStep, PTL DEF Spec

-----------------------------------------------------------------------------
(* The data of an edge: what the sequencer selects, reads and writes.      *)
LEMMA WhichDr ==
  ASSUME DramTick
  PROVE  /\ drState = 0 => Idle
         /\ drState = 50 => AskRefresh
         /\ drState = 51 => AwaitRefresh
         /\ drState = 10 => AskRead
         /\ drState = 11 => AwaitRead
         /\ drState = 20 => AskWrite
         /\ drState = 21 => HoldWrite
         /\ drState = 22 => AwaitWrite
         /\ drState = 100 => Release
BY DEF DramTick, Idle, AskRefresh, AwaitRefresh, AskRead, AwaitRead, AskWrite,
       HoldWrite, AwaitWrite, Release

LEMMA SdSelects ==
  ASSUME SdTypeOK, NEW rd, NEW wr, NEW refresh, NEW a, NEW din, NEW ctrl,
         SdTick(rd, wr, refresh, a, din, ctrl)
  PROVE  /\ sdState = "IDLE" /\ (rd \/ wr) => sdSel'[1] = a[1] /\ sdCycle' = 1
         /\ sdState \in {"READ", "WRITE"} => sdSel'[1] = sdSel[1]
         /\ sdState = "READ" =>
              /\ sdCycle = T_RCD => sdSel' = <<sdSel[1], a[2]>>
              /\ sdCycle # T_RCD => sdSel' = sdSel
              /\ sdCycle = T_RCD + CAS => dq' = mem[sdSel]
<1>1. ASSUME sdState = "IDLE", rd \/ wr PROVE sdSel'[1] = a[1] /\ sdCycle' = 1
  <2>1. SdIdle(rd, wr, refresh, a)
    BY <1>1, WhichEdge
  <2>2. sdSel' = <<a[1], sdSel[2]>> /\ sdCycle' = 1
    BY <1>1, <2>1, Zenon DEF SdIdle
  <2> QED
    BY <2>2
<1>2. ASSUME sdState = "READ"
      PROVE  /\ sdSel'[1] = sdSel[1]
             /\ sdCycle = T_RCD => sdSel' = <<sdSel[1], a[2]>>
             /\ sdCycle # T_RCD => sdSel' = sdSel
             /\ sdCycle = T_RCD + CAS => dq' = mem[sdSel]
  <2>1. SdRead(a)
    BY <1>2, WhichEdge
  <2>2. T_RCD + CAS = 3 /\ READ_LEN = 4
    BY TimingFacts
  <2>3. sdCycle = T_RCD + CAS => dq' = mem[sdSel]
    BY <2>1, <2>2 DEF SdRead
  <2>4. sdSel' = IF sdCycle = T_RCD THEN <<sdSel[1], a[2]>> ELSE sdSel
    BY <2>1 DEF SdRead
  <2> QED
    BY <2>3, <2>4
<1>3. ASSUME sdState = "WRITE" PROVE sdSel'[1] = sdSel[1]
  <2>1. SdWrite(a, din, ctrl)
    BY <1>3, WhichEdge
  <2>2. sdSel' = <<sdSel[1], a[2]>> \/ sdSel' = sdSel
    BY <2>1, Zenon DEF SdWrite
  <2> QED
    BY <2>2
<1> QED
  BY <1>1, <1>2, <1>3

LEMMA SdStores ==
  ASSUME SdTypeOK, NEW rd, NEW wr, NEW refresh, NEW a, NEW din, NEW ctrl,
         SdTick(rd, wr, refresh, a, din, ctrl)
  PROVE  IF sdState = "WRITE" /\ sdCycle = T_RCD
         THEN mem' = [mem EXCEPT ![<<sdSel[1], a[2]>>] = Merge(@, din, ctrl)]
         ELSE mem' = mem
<1>1. T_RCD # WRITE_LEN
  BY TimingFacts
<1>2. CASE sdState = "WRITE"
  <2>1. SdWrite(a, din, ctrl)
    BY <1>2, WhichEdge
  <2> QED
    BY <1>1, <1>2, <2>1 DEF SdWrite
<1>3. CASE sdState # "WRITE"
  BY <1>3 DEF SdTick, SdPowerOn, SdConfigure, SdIdle, SdRead, SdWrite, SdRefresh
<1> QED
  BY <1>2, <1>3

LEMMA McHolds ==
  ASSUME CtrlInv, NEW cmd \in Command, NEW a, NEW din, NEW ctrl,
         McTick(cmd, a, din, ctrl)
  PROVE  /\ ~mcBusy /\ cmd # "none" => mcAddr' = a /\ mcDin' = din
         /\ mcBusy => mcAddr' = mcAddr /\ mcDin' = mcDin
         /\ ~mcBusy => mcDa' = mcDa
         /\ mcBusy /\ ~mcInit /\ mcOp = "read" =>
              IF mcCycles = 4 THEN mcDa' = dq /\ ~mcBusy' ELSE mcBusy'
<1>1. CASE ~mcBusy
  BY <1>1 DEF McTick, McStart, McIdle, McInitialize, McFinish, McWait
<1>2. CASE mcBusy /\ mcInit
  BY <1>2 DEF McTick, McStart, McIdle, McInitialize, McFinish, McWait
<1>3. CASE mcBusy /\ ~mcInit
  <2>1. mcOp = "read" => mcReadA
    BY <1>3 DEF CtrlInv
  <2>2. mcOp = "read" => (Finished <=> mcCycles = 4)
    BY DEF Finished, READ_CYCLES
  <2>3. CASE McFinish
    BY <2>1, <2>2, <2>3 DEF McFinish
  <2>4. CASE McWait
    BY <2>1, <2>2, <2>4 DEF McWait
  <2> QED
    BY <1>3, <2>3, <2>4 DEF McTick, McStart, McIdle, McInitialize
<1> QED
  BY <1>1, <1>2, <1>3

(* The captured request stays as it is until the port is released.         *)
Stays == UNCHANGED <<r_maddr, r_ctrl, r_wdata_ui>>

LEMMA CapturedStays ==
  ASSUME DramTick, drState \in {10, 11, 20, 21, 22, 100}
  PROVE  Stays /\ UNCHANGED <<read_request, write_request>>
BY WhichDr DEF AskRead, AwaitRead, AskWrite, HoldWrite, AwaitWrite, Release,
   Unrequested, Stays

LEMMA DataIdle ==
  ASSUME drState' \notin {10, 11, 21, 22, 100} \/ (drState' = 10 /\ ~mcBusy')
  PROVE  DataInv'
BY DEF DataInv

(* States in which the port has no command under way.                      *)
LEMMA DataStepIdle ==
  ASSUME TypeOK, CtrlInv, PortInv, PortInv', Tick,
         drState \in {0, 50, 51, 100} \/ (drState = 11 /\ ~mcBusy)
  PROVE  DataInv'
<1> USE DEF w_busy
<1>1. DramTick /\ McTick(CommandOut, r_maddr, r_wdata, r_mask)
  BY DEF Tick
<1>2. CASE drState \in {0, 51}
  <2>1. CommandOut = "none"
    BY <1>2, CommandOf
  <2>2. ~mcBusy => ~mcBusy'
    BY <1>1, <2>1, CommandOutType, McEffect
  <2>3. drState' \in {0, 10, 20, 50, 51} /\ (drState' = 10 => ~mcBusy)
    <3>1. CASE drState = 0
      <4>1. Idle
        BY <1>1, <3>1, WhichDr
      <4>2. (drState' = 10 /\ ~mcBusy) \/ drState' = 20 \/ drState' = 50 \/ drState' = drState
        BY <4>1, Zenon DEF Idle, StartRead, StartWrite
      <4> QED
        BY <3>1, <4>2
    <3>2. CASE drState = 51
      <4>1. AwaitRefresh
        BY <1>1, <3>2, WhichDr
      <4>2. (drState' = 10 /\ ~mcBusy) \/ drState' = 20 \/ drState' = 0 \/ drState' = drState
        BY <4>1, Zenon DEF AwaitRefresh, StartRead, StartWrite
      <4> QED
        BY <3>2, <4>2
    <3> QED
      BY <1>2, <3>1, <3>2
  <2> QED
    BY <2>2, <2>3, DataIdle
<1>3. CASE drState \in {50, 100} \/ (drState = 11 /\ ~mcBusy)
  <2>1. drState' \in {0, 50, 51}
    BY <1>1, <1>3, WhichDr DEF AskRefresh, Release, AwaitRead
  <2> QED
    BY <2>1, DataIdle
<1> QED
  BY <1>2, <1>3

(* The read goes to the controller and comes back.                         *)
LEMMA DataStepRead ==
  ASSUME TypeOK, CtrlInv, CtrlInv', PortInv, DataInv, Tick,
         drState = 10 \/ (drState = 11 /\ mcBusy)
  PROVE  DataInv'
<1> USE DEF w_busy
<1>1. /\ DramTick /\ McTick(CommandOut, r_maddr, r_wdata, r_mask)
      /\ SdTypeOK /\ r_maddr' = r_maddr
  BY CapturedStays DEF Tick, TypeOK, Stays
<1>2. CASE ~mcBusy
  <2>1. drState = 10 /\ drState' = 10 /\ CommandOut = "read"
    BY <1>1, <1>2, WhichDr, CommandOf DEF AskRead
  <2>2. mcAddr' = r_maddr
    BY <1>1, <1>2, <2>1, CommandOutType, McHolds
  <2>3. sdState = "IDLE"
    BY <1>2 DEF CtrlInv
  <2>4. sdSel'[1] = r_maddr[1] /\ sdCycle' = 1
    BY <1>1, <1>2, <2>1, <2>3, SdSelects DEF McTick, ToSdram, ToSdramAddr
  <2> QED
    BY <1>1, <2>1, <2>2, <2>4, TimingFacts DEF DataInv, Selected
<1>3. CASE mcBusy
  <2>1. drState' = 11
    BY <1>1, <1>3, WhichDr DEF AskRead, AwaitRead
  <2>2. mcOp = "read" /\ ~mcInit /\ Selected
    BY <1>3 DEF PortInv, DataInv
  <2>3. /\ sdState = "READ" /\ sdCycle = mcCycles /\ mcCycles \in 1 .. 4
    BY <1>3, <2>2, TimingFacts DEF CtrlInv
  <2>4. mcAddr' = mcAddr /\ mem' = mem
    BY <1>1, <1>3, <2>3, CommandOutType, McHolds, SdStores DEF McTick
  <2>5. /\ sdSel'[1] = sdSel[1]
        /\ sdCycle = T_RCD => sdSel' = <<sdSel[1], r_maddr[2]>>
        /\ sdCycle # T_RCD => sdSel' = sdSel
        /\ sdCycle = T_RCD + CAS => dq' = mem[sdSel]
    BY <1>1, <1>3, <2>2, <2>3, SdSelects DEF McTick, ToSdramAddr, Selected
  <2>6. <<r_maddr[1], r_maddr[2]>> = r_maddr
    BY DEF TypeOK, DrTypeOK, Addr
  <2>7. CASE mcCycles = 4
    <3>1. mcDa' = dq /\ ~mcBusy'
      BY <1>1, <1>3, <2>2, <2>7, CommandOutType, McHolds
    <3>2. dq = mem[r_maddr]
      BY <1>3, <2>3, <2>7, TimingFacts DEF DataInv
    <3> QED
      BY <1>1, <2>1, <2>4, <3>1, <3>2 DEF DataInv
  <2>8. CASE mcCycles # 4
    <3>1. mcBusy'
      BY <1>1, <1>3, <2>2, <2>8, CommandOutType, McHolds
    <3>2. sdCycle' = sdCycle + 1
      <4>1. SdRead(mcAddr)
        BY <1>1, <1>3, <2>3, WhichEdge DEF McTick, ToSdramAddr
      <4> QED
        BY <2>3, <2>8, <4>1, AdvanceStep DEF SdRead
    <3>3. sdCycle' > T_RCD => sdSel' = r_maddr
      <4>1. CASE sdCycle = T_RCD
        BY <2>2, <2>5, <2>6, <4>1 DEF Selected
      <4>2. CASE sdCycle # T_RCD
        BY <1>3, <2>3, <2>5, <3>2, <4>2, TimingFacts DEF DataInv
      <4> QED
        BY <4>1, <4>2
    <3>4. sdCycle' = READ_LEN => dq' = mem[r_maddr]
      <4>1. SUFFICES ASSUME sdCycle = 3 PROVE dq' = mem[r_maddr]
        BY <2>3, <3>2, TimingFacts
      <4>2. T_RCD + CAS = 3 /\ sdCycle > T_RCD
        BY <4>1, TimingFacts
      <4> QED
        BY <1>3, <2>5, <4>1, <4>2 DEF DataInv
    <3> QED
      BY <1>1, <2>1, <2>2, <2>4, <2>5, <3>1, <3>3, <3>4 DEF DataInv, Selected
  <2> QED
    BY <2>7, <2>8
<1> QED
  BY <1>2, <1>3

(* The write goes to the controller and to the chip.                       *)
LEMMA DataStepWrite ==
  ASSUME TypeOK, CtrlInv, CtrlInv', PortInv, DataInv, Tick,
         drState \in {20, 21, 22}
  PROVE  DataInv'
<1> USE DEF w_busy
<1>1. /\ DramTick /\ McTick(CommandOut, r_maddr, r_wdata, r_mask)
      /\ SdTypeOK /\ Stays
  BY CapturedStays DEF Tick, TypeOK
<1>2. CASE drState = 20
  <2>1. /\ drState' = 21 /\ r_mask' = r_ctrl /\ r_wdata' = r_wdata_ui
    BY <1>1, <1>2, WhichDr DEF AskWrite
  <2>2. ~mcBusy'
    BY <1>1, <1>2, CommandOf, CommandOutType, McEffect DEF PortInv
  <2> QED
    BY <1>1, <2>1, <2>2 DEF DataInv, Stays
<1>3. CASE drState = 21 /\ ~mcBusy
  <2>1. drState' = 21 /\ r_mask' = r_mask /\ r_wdata' = r_wdata
    BY <1>1, <1>3, WhichDr DEF HoldWrite
  <2>2. CommandOut = "write"
    BY <1>3, CommandOf
  <2>3. mcAddr' = r_maddr /\ mcDin' = r_wdata
    BY <1>1, <1>3, <2>2, CommandOutType, McHolds
  <2>4. sdState = "IDLE"
    BY <1>3 DEF CtrlInv
  <2>5. sdSel'[1] = r_maddr[1]
    <3>1. ToSdram(CommandOut) = "write" /\ ToSdramAddr(r_maddr) = r_maddr
      BY <1>3, <2>2 DEF ToSdram, ToSdramAddr
    <3>2. SdTick(FALSE, TRUE, FALSE, r_maddr, ToSdramDin(r_wdata), r_mask)
      BY <1>1, <3>1 DEF McTick
    <3> QED
      BY <1>1, <2>4, <3>2, SdSelects
  <2> QED
    BY <1>1, <1>3, <2>1, <2>3, <2>5 DEF DataInv, Stays, Selected
<1>4. CASE drState = 22 /\ ~mcBusy
  <2>1. drState' = 100 /\ r_mask' = r_mask /\ r_wdata' = r_wdata
    BY <1>1, <1>4, WhichDr DEF AwaitWrite
  <2> QED
    BY <1>1, <1>4, <2>1 DEF DataInv, Stays
<1>5. CASE drState \in {21, 22} /\ mcBusy
  <2>1. drState' = 22 /\ r_mask' = r_mask /\ r_wdata' = r_wdata
    BY <1>1, <1>5, WhichDr DEF HoldWrite, AwaitWrite
  <2>2. mcOp = "write" /\ ~mcInit
    BY <1>5 DEF PortInv
  <2>3. mcAddr' = mcAddr /\ mcDin' = mcDin
    BY <1>1, <1>5, CommandOutType, McHolds
  <2>4. CASE sdState = "WRITE"
    <3>1. sdSel'[1] = sdSel[1]
      BY <1>1, <2>4, SdSelects DEF McTick
    <3> QED
      BY <1>1, <1>5, <2>1, <2>3, <2>4, <3>1 DEF DataInv, Stays, Selected
  <2>5. CASE sdState # "WRITE"
    <3>1. sdState = "IDLE" /\ mcPulse = "none"
      BY <1>5, <2>2, <2>5 DEF CtrlInv
    <3>2. sdState' = "IDLE"
      BY <1>1, <1>5, <3>1, WhichEdge, QuietEdge DEF McTick, ToSdram
    <3> QED
      BY <1>1, <1>5, <2>1, <3>2 DEF DataInv, Stays
  <2> QED
    BY <2>4, <2>5
<1> QED
  BY <1>2, <1>3, <1>4, <1>5

(* The controller and the sequencer work at the captured request, and the  *)
(* word of a read is that of its cell.                                     *)
THEOREM WorksAtTheRequest == Spec => []DataInv
<1>1. Init => DataInv
  BY DEF Init, DrInit, DataInv
<1>2. ASSUME TypeOK, CtrlInv, CtrlInv', PortInv, PortInv', DataInv, [Tick]_vars
      PROVE  DataInv'
  <2>1. CASE Tick
    <3>1. drState \in {0, 10, 11, 20, 21, 22, 50, 51, 100}
      BY <1>2 DEF TypeOK, DrTypeOK
    <3> QED
      BY <1>2, <2>1, <3>1, DataStepIdle, DataStepRead, DataStepWrite
  <2>2. CASE UNCHANGED vars
    BY <1>2, <2>2 DEF vars, sdVars, mcVars, drVars, DataInv, Selected
  <2> QED
    BY <1>2, <2>1, <2>2
<1> QED
  BY <1>1, <1>2, TypeCorrect, InStep, PortInStep, PTL DEF Spec

-----------------------------------------------------------------------------
(* The port implements MemPort.                                            *)
ReadRec  == [op |-> "read", addr |-> r_maddr, ctrl |-> r_ctrl]
WriteRec == [op |-> "write", addr |-> r_maddr, ctrl |-> r_ctrl, data |-> r_wdata_ui]

LEMMA CapturedType ==
  ASSUME TypeOK
  PROVE  /\ Captured \in Request /\ Captured # NoReq
         /\ ReadRec \in Request /\ WriteRec \in Request
BY NoReqAssumption
   DEF TypeOK, DrTypeOK, Captured, Request, ReadRequest, WriteRequest, ReadRec, WriteRec

(* What the port is busy with, by its state.                               *)
LEMMA PendOf ==
  /\ ~r_stall => pendBar = NoReq
  /\ r_stall /\ drState \in {10, 11} => pendBar = ReadRec
  /\ r_stall /\ drState \in {20, 21} /\ ~read_request => pendBar = WriteRec
  /\ r_stall /\ drState = 22 /\ ~read_request =>
       pendBar = IF sdState = "WRITE" => sdCycle > T_RCD THEN Written ELSE WriteRec
  /\ r_stall /\ drState = 100 => pendBar = Written
  /\ r_stall /\ drState \in {0, 50, 51} =>
       pendBar = IF read_request THEN ReadRec ELSE WriteRec
BY DEF pendBar, WriteReached, Captured, ReadRec, WriteRec

(* The requester.                                                          *)
LEMMA RequesterMaps ==
  ASSUME TypeOK, PortInv, RequesterTick
  PROVE  Port!Requester
<1>1. CASE RaiseRequest
  BY <1>1, PendOf DEF RaiseRequest, o_busy, Port!Requester, Port!Raise
<1>2. CASE LowerRequest
  <2>1. r_stall /\ rq # NoReq /\ rq' = NoReq /\ drState \notin {22, 100}
    BY <1>2 DEF LowerRequest, o_busy, PortInv
  <2>2. pendBar = Captured
    BY <2>1 DEF pendBar, WriteReached
  <2> QED
    BY <2>1, <2>2, CapturedType DEF Port!Requester, Port!Lower
<1>3. CASE HoldRequest \/ StayQuiet
  BY <1>3 DEF HoldRequest, StayQuiet, Port!Requester, Port!Hold
<1> QED
  BY <1>1, <1>2, <1>3 DEF RequesterTick

(* The memory changes only in the cycle in which the chip gets its data.   *)
Writing == drState \in {21, 22} /\ mcBusy /\ sdState = "WRITE" /\ sdCycle = T_RCD

LEMMA MemStep ==
  ASSUME TypeOK, CtrlInv, PortInv, DataInv, Tick
  PROVE  IF Writing
         THEN mem' = [mem EXCEPT ![r_maddr] =
                        [l \in Lane |-> IF l \in r_ctrl THEN r_wdata_ui[l] ELSE @[l]]]
         ELSE mem' = mem
<1>1. CASE sdState = "WRITE" /\ sdCycle = T_RCD
  <2>1. mcBusy /\ ~mcInit /\ mcOp = "write"
    BY <1>1 DEF CtrlInv
  <2>2. drState \in {21, 22}
    BY <2>1 DEF PortInv, TypeOK, DrTypeOK
  <2>3. Selected /\ mcDin = r_wdata /\ r_wdata = r_wdata_ui /\ r_mask = r_ctrl
    BY <1>1, <2>1, <2>2 DEF DataInv
  <2>4. <<sdSel[1], mcAddr[2]>> = r_maddr
    BY <2>3 DEF Selected, TypeOK, DrTypeOK, Addr
  <2>5. mem' = [mem EXCEPT ![<<sdSel[1], mcAddr[2]>>] = Merge(@, mcDin, r_mask)]
    BY <1>1, <2>1, SdStores DEF Tick, McTick, ToSdramAddr, ToSdramDin, TypeOK
  <2>6. mem' = [mem EXCEPT ![r_maddr] = Merge(@, r_wdata_ui, r_ctrl)]
    BY <2>3, <2>4, <2>5
  <2> QED
    BY <1>1, <2>1, <2>2, <2>6 DEF Writing, Merge
<1>2. CASE ~(sdState = "WRITE" /\ sdCycle = T_RCD)
  <2>1. mem' = mem
    BY <1>2, SdStores DEF Tick, McTick, TypeOK
  <2> QED
    BY <1>2, <2>1 DEF Writing
<1> QED
  BY <1>1, <1>2

(* A request that is captured is accepted as it stands.                    *)
LEMMA AcceptRead ==
  ASSUME TypeOK, ~r_stall, i_rd_en, CaptureRead, mem' = mem,
         r_dram_odata1' = r_dram_odata1,
         (drState' \in {50, 51} /\ read_request') \/ drState' = 10
  PROVE  Port!Accept
<1>1. rq \in Request /\ rq.op = "read" /\ rq # NoReq
  BY DEF TypeOK, DrTypeOK, i_rd_en
<1>2. rq = [op |-> "read", addr |-> rq.addr, ctrl |-> rq.ctrl]
  BY <1>1 DEF Request, ReadRequest, WriteRequest
<1>3. pendBar = NoReq
  BY PendOf
<1>4. pendBar' = [op |-> "read", addr |-> rq.addr, ctrl |-> rq.ctrl]
  BY DEF CaptureRead, pendBar, WriteReached, Captured
<1> QED
  BY <1>1, <1>2, <1>3, <1>4 DEF Port!Accept

LEMMA AcceptWrite ==
  ASSUME TypeOK, ~r_stall, i_wr_en, CaptureWrite, mem' = mem,
         r_dram_odata1' = r_dram_odata1, ~read_request',
         drState' \in {20, 50, 51}
  PROVE  Port!Accept
<1>1. rq \in Request /\ rq.op = "write" /\ rq # NoReq
  BY DEF TypeOK, DrTypeOK, i_wr_en
<1>2. rq = [op |-> "write", addr |-> rq.addr, ctrl |-> rq.ctrl, data |-> rq.data]
  BY <1>1 DEF Request, ReadRequest, WriteRequest
<1>3. pendBar = NoReq
  BY PendOf
<1>4. pendBar' = [op |-> "write", addr |-> rq.addr, ctrl |-> rq.ctrl, data |-> rq.data]
  BY DEF CaptureWrite, pendBar, WriteReached, Captured
<1> QED
  BY <1>1, <1>2, <1>3, <1>4 DEF Port!Accept

LEMMA NoneAccepted ==
  ASSUME ~r_stall, CaptureNothing, mem' = mem, r_dram_odata1' = r_dram_odata1
  PROVE  Port!Quiet
<1>1. ~r_stall'
  <2>1. r_stall' = r_stall
    BY DEF CaptureNothing
  <2> QED
    BY <2>1, Zenon
<1> QED
  BY <1>1 DEF pendBar, Port!Quiet

(* A refresh does not touch what it has captured.                          *)
LEMMA LaterMaps ==
  ASSUME TypeOK, PortInv, CaptureLater, drState \in {50, 51}, drState' \in {50, 51},
         mem' = mem, r_dram_odata1' = r_dram_odata1
  PROVE  Port!Accept \/ Port!Quiet
<1>1. /\ ~(read_request /\ write_request)
      /\ r_stall <=> read_request \/ write_request
      /\ read_request => rq = NoReq \/ rq.op = "read"
      /\ write_request => rq = NoReq \/ rq.op = "write"
  BY DEF PortInv
<1>2. CASE r_stall
  <2>1. CaptureNothing /\ UNCHANGED <<read_request, write_request>>
    BY <1>1, <1>2 DEF CaptureLater, i_rd_en, i_wr_en
  <2>2. ~WriteReached /\ ~WriteReached'
    BY DEF WriteReached
  <2>3. Captured' = Captured
    BY <2>1 DEF CaptureNothing, Captured
  <2>4. r_stall' = r_stall
    BY <2>1 DEF CaptureNothing
  <2> QED
    BY <2>2, <2>3, <2>4 DEF pendBar, Port!Quiet
<1>3. CASE ~r_stall /\ i_rd_en
  <2>1. CaptureRead /\ read_request'
    BY <1>1, <1>3 DEF CaptureLater
  <2> QED
    BY <1>3, <2>1, AcceptRead
<1>4. CASE ~r_stall /\ i_wr_en
  <2>1. CaptureWrite /\ read_request' = read_request /\ ~read_request
    BY <1>1, <1>4 DEF CaptureLater, i_rd_en, i_wr_en
  <2>2. ~read_request'
    BY <2>1, Zenon
  <2> QED
    BY <1>4, <2>1, <2>2, AcceptWrite
<1>5. CASE ~r_stall /\ rq = NoReq
  <2>1. CaptureNothing
    BY <1>5 DEF CaptureLater, i_rd_en, i_wr_en
  <2> QED
    BY <1>5, <2>1, NoneAccepted
<1> QED
  BY <1>2, <1>3, <1>4, <1>5, RqKinds

(* The port, state by state.                                               *)
LEMMA MapStep0 ==
  ASSUME TypeOK, CtrlInv, PortInv, DataInv, Tick, drState = 0
  PROVE  Port!Accept \/ Port!Quiet
<1> USE DEF w_busy
<1>1. Idle /\ ~r_stall /\ ~read_request /\ ~write_request
  BY WhichDr DEF Tick, PortInv
<1>2. mem' = mem /\ r_dram_odata1' = r_dram_odata1
  BY <1>1, MemStep DEF Writing, Idle, Unserved
<1>3. CASE i_rd_en /\ ~mcBusy
  <2>1. CaptureRead /\ drState' = 10
    BY <1>1, <1>3 DEF Idle, StartRead, i_rd_en, i_wr_en
  <2> QED
    BY <1>1, <1>2, <1>3, <2>1, AcceptRead
<1>4. CASE i_wr_en /\ ~mcBusy
  <2>1. CaptureWrite /\ drState' = 20 /\ read_request' = read_request
    BY <1>1, <1>4 DEF Idle, StartWrite, i_rd_en, i_wr_en
  <2>2. ~read_request'
    BY <1>1, <2>1, Zenon
  <2> QED
    BY <1>1, <1>2, <1>4, <2>1, <2>2, AcceptWrite
<1>5. CASE rq = NoReq \/ mcBusy
  <2>1. CaptureNothing
    BY <1>1, <1>5, Zenon DEF Idle, i_rd_en, i_wr_en
  <2> QED
    BY <1>1, <1>2, <2>1, NoneAccepted
<1> QED
  BY <1>3, <1>4, <1>5, RqKinds

LEMMA MapStep50 ==
  ASSUME TypeOK, CtrlInv, PortInv, DataInv, Tick, drState = 50
  PROVE  Port!Accept \/ Port!Quiet
<1>1. AskRefresh
  BY WhichDr DEF Tick
<1>2. mem' = mem /\ r_dram_odata1' = r_dram_odata1
  BY <1>1, MemStep DEF Writing, AskRefresh, Unserved
<1>3. CaptureLater /\ drState' \in {50, 51}
  BY <1>1 DEF AskRefresh
<1> QED
  BY <1>2, <1>3, LaterMaps

LEMMA MapStep51 ==
  ASSUME TypeOK, CtrlInv, PortInv, DataInv, Tick, drState = 51
  PROVE  Port!Accept \/ Port!Quiet
<1> USE DEF w_busy
<1>1. AwaitRefresh
  BY WhichDr DEF Tick
<1>2. mem' = mem /\ r_dram_odata1' = r_dram_odata1
  BY <1>1, MemStep DEF Writing, AwaitRefresh, Unserved
<1>3. CASE mcBusy
  <2>1. CaptureLater /\ drState' = 51
    BY <1>1, <1>3 DEF AwaitRefresh
  <2> QED
    BY <1>2, <2>1, LaterMaps
<1>4. CASE ~mcBusy /\ read_request
  <2>1. CaptureNothing /\ drState' = 10
    BY <1>1, <1>4 DEF AwaitRefresh, StartRead
  <2>2. r_stall /\ r_stall'
    <3>1. r_stall' = r_stall
      BY <2>1 DEF CaptureNothing
    <3>2. r_stall
      BY <1>4 DEF PortInv
    <3> QED
      BY <3>1, <3>2, Zenon
  <2>3. pendBar = ReadRec
    BY <1>4, <2>2, PendOf
  <2>4. pendBar' = ReadRec'
    BY <2>1, <2>2 DEF pendBar, WriteReached, Captured, ReadRec
  <2> QED
    BY <1>2, <2>1, <2>3, <2>4 DEF ReadRec, CaptureNothing, Port!Quiet
<1>5. CASE ~mcBusy /\ ~read_request /\ write_request
  <2>1. CaptureNothing /\ drState' = 20 /\ read_request' = read_request
    BY <1>1, <1>5 DEF AwaitRefresh, StartWrite
  <2>2. r_stall /\ r_stall' /\ ~read_request'
    <3>1. r_stall' = r_stall
      BY <2>1 DEF CaptureNothing
    <3>2. r_stall
      BY <1>5 DEF PortInv
    <3> QED
      BY <1>5, <2>1, <3>1, <3>2, Zenon
  <2>3. pendBar = WriteRec
    BY <1>5, <2>2, PendOf
  <2>4. pendBar' = WriteRec'
    BY <2>1, <2>2 DEF pendBar, WriteReached, Captured, WriteRec
  <2> QED
    BY <1>2, <2>1, <2>3, <2>4 DEF WriteRec, CaptureNothing, Port!Quiet
<1>6. CASE ~mcBusy /\ ~read_request /\ ~write_request
  <2>1. ~r_stall
    BY <1>6 DEF PortInv
  <2>2. CASE i_rd_en /\ CaptureRead /\ StartRead
    BY <1>2, <2>1, <2>2, AcceptRead DEF StartRead
  <2>3. CASE i_wr_en /\ CaptureWrite /\ StartWrite
    <3>1. read_request' = read_request
      BY <1>1, <1>6, Zenon DEF AwaitRefresh
    <3>2. ~read_request'
      BY <1>6, <3>1, Zenon
    <3> QED
      BY <1>2, <2>1, <2>3, <3>2, AcceptWrite DEF StartWrite
  <2>4. CASE CaptureNothing
    BY <1>2, <2>1, <2>4, NoneAccepted
  <2> QED
    BY <1>1, <1>6, <2>2, <2>3, <2>4 DEF AwaitRefresh
<1> QED
  BY <1>3, <1>4, <1>5, <1>6

LEMMA MapStepRead ==
  ASSUME TypeOK, CtrlInv, PortInv, DataInv, Tick, drState \in {10, 11}
  PROVE  Port!EndRead \/ Port!Quiet
<1> USE DEF w_busy
<1>1. /\ r_stall /\ mem' = mem /\ Stays /\ pendBar = ReadRec
  BY CapturedStays, MemStep, PendOf DEF Writing, Tick, PortInv
<1>2. CASE drState = 10 \/ mcBusy
  <2>1. /\ drState' \in {10, 11} /\ r_dram_odata1' = r_dram_odata1
        /\ r_stall' = r_stall
    BY <1>2, WhichDr DEF Tick, AskRead, AwaitRead
  <2>2. r_stall'
    BY <1>1, <2>1, Zenon
  <2>3. pendBar' = ReadRec'
    BY <2>1, <2>2 DEF pendBar, WriteReached, Captured, ReadRec
  <2> QED
    BY <1>1, <2>1, <2>3 DEF Stays, ReadRec, Port!Quiet
<1>3. CASE drState = 11 /\ ~mcBusy
  <2>1. AwaitRead
    BY <1>3, WhichDr DEF Tick
  <2>2. ~r_stall' /\ r_dram_odata1' = DoutA
    BY <1>3, <2>1 DEF AwaitRead
  <2>3. DoutA = mem[r_maddr]
    BY <1>3 DEF DoutA, CtrlInv, DataInv
  <2>4. rq = NoReq /\ pendBar \in Request
    BY <1>1, <1>3, CapturedType DEF PortInv
  <2>5. pendBar' = NoReq
    BY <2>2 DEF pendBar
  <2> QED
    BY <1>1, <2>2, <2>3, <2>4, <2>5 DEF ReadRec, Port!EndRead
<1> QED
  BY <1>2, <1>3

LEMMA MapStepWrite ==
  ASSUME TypeOK, CtrlInv, CtrlInv', PortInv, PortInv', DataInv, Tick,
         drState \in {20, 21, 22, 100}
  PROVE  Port!Write \/ Port!EndWrite \/ Port!Quiet
<1> USE DEF w_busy
<1>1. /\ r_stall /\ Stays /\ ~read_request /\ r_dram_odata1' = r_dram_odata1
      /\ DramTick /\ McTick(CommandOut, r_maddr, r_wdata, r_mask)
  <2>1. DramTick /\ McTick(CommandOut, r_maddr, r_wdata, r_mask)
    BY DEF Tick
  <2>2. r_stall /\ ~read_request
    BY DEF PortInv
  <2>3. AskWrite \/ HoldWrite \/ AwaitWrite \/ Release
    BY <2>1, WhichDr
  <2>4. r_dram_odata1' = r_dram_odata1
    BY <2>3 DEF AskWrite, HoldWrite, AwaitWrite, Release
  <2> QED
    BY <2>1, <2>2, <2>4, CapturedStays
<1>2. ~read_request'
  <2>1. read_request' = read_request
    BY <1>1, CapturedStays
  <2> QED
    BY <1>1, <2>1, Zenon
<1>3. drState # 100 => r_stall'
  <2>1. drState # 100 => r_stall' = r_stall
    BY <1>1, WhichDr DEF AskWrite, HoldWrite, AwaitWrite
  <2> QED
    BY <1>1, <2>1, Zenon
<1>4. WriteRec' = WriteRec
  BY <1>1 DEF Stays, WriteRec
<1>5. CASE drState = 20 \/ (drState = 21 /\ ~mcBusy)
  <2>1. mem' = mem
    BY <1>5, MemStep DEF Writing
  <2>2. drState' = 21
    BY <1>1, <1>5, WhichDr DEF AskWrite, HoldWrite
  <2>3. pendBar = WriteRec /\ pendBar' = WriteRec'
    BY <1>1, <1>2, <1>3, <1>5, <2>2 DEF pendBar, WriteReached, Captured, WriteRec
  <2> QED
    BY <1>1, <1>4, <2>1, <2>3 DEF Port!Quiet
<1>6. CASE drState = 22 /\ ~mcBusy
  <2>1. sdState = "IDLE" /\ drState' = 100 /\ mem' = mem
    BY <1>1, <1>6, WhichDr, MemStep DEF CtrlInv, AwaitWrite, Writing
  <2>2. pendBar = Written /\ pendBar' = Written
    BY <1>1, <1>3, <1>6, <2>1 DEF pendBar, WriteReached
  <2> QED
    BY <1>1, <2>1, <2>2 DEF Port!Quiet
<1>7. CASE drState = 100
  <2>1. rq = NoReq /\ mem' = mem /\ ~r_stall'
    BY <1>1, <1>7, WhichDr, MemStep DEF PortInv, Writing, Release
  <2>2. pendBar = Written /\ pendBar' = NoReq
    BY <1>1, <1>7, <2>1 DEF pendBar, WriteReached
  <2> QED
    BY <1>1, <2>1, <2>2 DEF Port!EndWrite
<1>8. CASE drState \in {21, 22} /\ mcBusy
  <2>1. drState' = 22 /\ mcOp = "write" /\ ~mcInit
    BY <1>1, <1>8, WhichDr DEF HoldWrite, AwaitWrite, PortInv
  <2>2. pendBar' = IF (sdState = "WRITE" => sdCycle > T_RCD)' THEN Written ELSE WriteRec
    BY <1>2, <1>3, <1>4, <1>8, <2>1 DEF pendBar, WriteReached, Captured, WriteRec
  <2>3. pendBar = IF drState = 22 /\ (sdState = "WRITE" => sdCycle > T_RCD)
                  THEN Written ELSE WriteRec
    BY <1>1, <1>8 DEF pendBar, WriteReached, Captured, WriteRec
  <2>4. CASE sdState # "WRITE"
    <3>1. drState = 22 /\ mem' = mem
      BY <1>8, <2>4, MemStep DEF PortInv, Writing
    <3>2. ~mcBusy'
      BY <1>1, <1>8, <2>1, <2>4, McProgress, CommandOutType DEF TypeOK
    <3>3. sdState' = "IDLE"
      BY <3>2 DEF CtrlInv
    <3> QED
      BY <1>1, <2>2, <2>3, <2>4, <3>1, <3>3 DEF Port!Quiet
  <2>5. CASE sdState = "WRITE"
    <3>1. sdCycle \in 1 .. WRITE_LEN
      BY <1>8, <2>1, <2>5 DEF CtrlInv
    <3>2. sdState' = "WRITE" => sdCycle' = sdCycle + 1
      BY <1>1, <1>8, <2>1, <2>5, McProgress, CommandOutType DEF TypeOK
    <3>3. sdCycle # WRITE_LEN => sdState' = "WRITE"
      BY <1>1, <2>5, <3>1, WhichEdge, WriteWait DEF McTick
    <3>4. drState = 21 => sdCycle = 1
      <4>1. drState = 21 => mcWcycles = 1
        BY <1>8 DEF PortInv
      <4> QED
        BY <1>1, <1>8, <2>1, <2>5, <4>1, McProgress, CommandOutType DEF TypeOK
    <3>5. CASE sdCycle = T_RCD
      <4>1. /\ pendBar = WriteRec /\ pendBar' = Written
        BY <2>2, <2>3, <2>5, <3>1, <3>2, <3>3, <3>5, TimingFacts
      <4>2. mem' = [mem EXCEPT ![r_maddr] =
                      [l \in Lane |-> IF l \in r_ctrl THEN r_wdata_ui[l] ELSE @[l]]]
        BY <1>8, <2>5, <3>5, MemStep DEF Writing
      <4>3. pendBar \in Request
        BY <4>1, CapturedType
      <4> QED
        BY <1>1, <4>1, <4>2, <4>3 DEF WriteRec, Port!Write
    <3>6. CASE sdCycle < T_RCD
      <4>1. /\ pendBar = WriteRec /\ pendBar' = WriteRec
        BY <2>2, <2>3, <2>5, <3>1, <3>2, <3>3, <3>6, TimingFacts
      <4>2. mem' = mem
        BY <3>6, MemStep, TimingFacts DEF Writing
      <4> QED
        BY <1>1, <4>1, <4>2 DEF Port!Quiet
    <3>7. CASE sdCycle > T_RCD
      <4>1. drState = 22
        BY <1>8, <3>1, <3>4, <3>7, TimingFacts
      <4>2. /\ pendBar = Written /\ pendBar' = Written
        BY <2>2, <2>3, <2>5, <3>1, <3>2, <3>7, <4>1, TimingFacts
      <4>3. mem' = mem
        BY <3>7, MemStep, TimingFacts DEF Writing
      <4> QED
        BY <1>1, <4>2, <4>3 DEF Port!Quiet
    <3> QED
      BY <3>1, <3>5, <3>6, <3>7, TimingFacts
  <2> QED
    BY <2>4, <2>5
<1> QED
  BY <1>5, <1>6, <1>7, <1>8

(* memorytn.v: the port, the controller and the sequencer implement the    *)
(* safety part of MemPort, for every geometry and every admitted timing: a *)
(* request is accepted once, a write changes its own cell once, a read     *)
(* returns the word of its cell.  (That requests are served to their end   *)
(* is left to the run.)                                                    *)
THEOREM PortImplemented == Spec => Port!Init /\ [][Port!Next]_(Port!vars)
<1>1. Init => Port!Init
  BY DEF Init, DrInit, SdInit, Port!Init, pendBar
<1>2. ASSUME TypeOK, CtrlInv, CtrlInv', PortInv, PortInv', DataInv, [Tick]_vars
      PROVE  [Port!Next]_(Port!vars)
  <2>1. CASE Tick
    <3>1. drState \in {0, 10, 11, 20, 21, 22, 50, 51, 100}
      BY <1>2 DEF TypeOK, DrTypeOK
    <3>2. Port!Serve \/ Port!Quiet
      BY <1>2, <2>1, <3>1, MapStep0, MapStep50, MapStep51, MapStepRead,
         MapStepWrite DEF Port!Serve
    <3>3. Port!Requester
      BY <1>2, <2>1, RequesterMaps DEF Tick
    <3> QED
      BY <3>2, <3>3 DEF Port!Next
  <2>2. CASE UNCHANGED vars
    BY <2>2 DEF vars, sdVars, mcVars, drVars, Port!vars, pendBar, WriteReached, Captured
  <2> QED
    BY <1>2, <2>1, <2>2
<1> QED
  BY <1>1, <1>2, TypeCorrect, InStep, PortInStep, WorksAtTheRequest, PTL DEF Spec
=============================================================================
