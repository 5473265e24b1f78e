---------------------------- MODULE Timer_proofs ----------------------------
(***************************************************************************)
(* The timer behind its bridge, for halves of any size: what its registers *)
(* hold reads back, and an alarm set by halves is neither early nor lost.  *)
(***************************************************************************)
EXTENDS Timer, Integers, TLAPS

-----------------------------------------------------------------------------
(* Numbers of two halves.                                                  *)

Halved == 0 .. Half - 1

LEMMA Sizes ==
  /\ Half \in Nat /\ Half >= 2
  /\ Double \in Nat /\ Top \in Nat /\ Double = Half * Half /\ Top = Double - 1
BY TimerAssumption DEF Double, Top

LEMMA Quotient ==
  ASSUME NEW n \in Nat \ {0}, NEW x \in Nat
  PROVE  x \div n \in Nat /\ x % n \in 0 .. n - 1 /\ x = n * (x \div n) + (x % n)
<1>1. x % n \in 0 .. n - 1
  OBVIOUS
<1>2. x \div n \in Int
  OBVIOUS
<1>3. x = n * (x \div n) + (x % n)
  OBVIOUS
<1>4. x \div n >= 0
  OBVIOUS
<1>. QED BY <1>1, <1>2, <1>3, <1>4

LEMMA Bigger ==
  ASSUME NEW n \in Nat, NEW a \in Int, NEW b \in Int, a < b
  PROVE  n * a + n <= n * b
OBVIOUS

LEMMA Halves ==
  ASSUME NEW x \in 0 .. Top
  PROVE  /\ Lo(x) \in Halved /\ Hi(x) \in Halved
         /\ x = Half * Hi(x) + Lo(x)
<1>1. x \in Nat /\ Half \in Nat \ {0} /\ x < Half * Half
  BY Sizes
<1>2. Hi(x) \in Nat /\ Lo(x) \in Halved /\ x = Half * Hi(x) + Lo(x)
  BY <1>1, Quotient DEF Hi, Lo, Halved
<1>3. ~(Half - 1 < Hi(x))
  <2>1. SUFFICES ASSUME Half - 1 < Hi(x) PROVE FALSE
    OBVIOUS
  <2>2. Half * (Half - 1) + Half <= Half * Hi(x)
    BY <1>1, <1>2, <2>1, Bigger
  <2>. QED BY <1>1, <1>2, <2>2 DEF Halved
<1>. QED BY <1>1, <1>2, <1>3 DEF Halved

LEMMA Joined ==
  ASSUME NEW h \in Halved, NEW l \in Halved
  PROVE  /\ h * Half + l \in 0 .. Top
         /\ Lo(h * Half + l) = l /\ Hi(h * Half + l) = h
<1> DEFINE x == h * Half + l
<1>1. Half \in Nat \ {0} /\ h \in Nat /\ l \in Nat /\ h < Half /\ l < Half
  BY Sizes DEF Halved
<1>2. x \in Nat /\ x = Half * h + l
  BY <1>1
<1>3. x < Half * Half
  <2>1. Half * h + Half <= Half * Half
    BY <1>1, Bigger
  <2>. QED BY <1>1, <1>2, <2>1
<1>4. Hi(x) \in Nat /\ Lo(x) \in Halved /\ x = Half * Hi(x) + Lo(x)
  BY <1>1, <1>2, Quotient DEF Hi, Lo, Halved
<1> HIDE DEF x
<1>5. ~(h < Hi(x))
  <2>1. SUFFICES ASSUME h < Hi(x) PROVE FALSE
    OBVIOUS
  <2>2. Half * h + Half <= Half * Hi(x)
    BY <1>1, <1>4, <2>1, Bigger
  <2>. QED BY <1>1, <1>2, <1>4, <2>2 DEF Halved
<1>6. ~(Hi(x) < h)
  <2>1. SUFFICES ASSUME Hi(x) < h PROVE FALSE
    OBVIOUS
  <2>2. Half * Hi(x) + Half <= Half * h
    BY <1>1, <1>4, <2>1, Bigger
  <2>. QED BY <1>1, <1>2, <1>4, <2>2 DEF Halved
<1>7. Hi(x) = h
  BY <1>1, <1>4, <1>5, <1>6
<1>8. Lo(x) = l
  BY <1>1, <1>2, <1>4, <1>7 DEF Halved
<1>. QED BY <1>2, <1>3, <1>7, <1>8, Sizes DEF x

(* Numbers compare by their high halves first.                             *)
LEMMA ByHalves ==
  ASSUME NEW x \in 0 .. Top, NEW y \in 0 .. Top
  PROVE  /\ Hi(x) = Half - 1 /\ Lo(x) = Lo(y) => x >= y
         /\ Hi(x) = Hi(y) /\ Lo(x) = Lo(y) => x = y
<1>1. /\ Half \in Nat /\ x = Half * Hi(x) + Lo(x) /\ y = Half * Hi(y) + Lo(y)
      /\ Hi(x) \in Halved /\ Lo(x) \in Halved /\ Hi(y) \in Halved /\ Lo(y) \in Halved
  BY Halves, Sizes
<1>2. Hi(x) = Hi(y) /\ Lo(x) = Lo(y) => x = y
  BY <1>1
<1>3. ASSUME Hi(x) = Half - 1, Lo(x) = Lo(y), Hi(y) # Half - 1 PROVE x >= y
  <2>1. Hi(y) < Hi(x)
    BY <1>1, <1>3 DEF Halved
  <2>2. Half * Hi(y) + Half <= Half * Hi(x)
    BY <1>1, <2>1, Bigger DEF Halved
  <2> DEFINE p == Half * Hi(y)  q == Half * Hi(x)
  <2>3. p \in Nat /\ q \in Nat
    BY <1>1 DEF Halved
  <2> HIDE DEF p, q
  <2>4. x = q + Lo(x) /\ y = p + Lo(y) /\ p + Half <= q
    BY <1>1, <2>2 DEF p, q
  <2>. QED BY <1>1, <1>3, <2>3, <2>4 DEF Halved
<1>. QED BY <1>1, <1>2, <1>3

LEMMA Remains == ASSUME NEW n \in Nat \ {0}, NEW x \in 0 .. n - 1 PROVE x % n = x
OBVIOUS

LEMMA Wraps == ASSUME NEW n \in Nat \ {0} PROVE n % n = 0
OBVIOUS

(* One more, by halves: the carry goes to the high one.                    *)
OneMore(x) == (x + 1) % Double
LEMMA Added ==
  ASSUME NEW x \in 0 .. Top
  PROVE  /\ OneMore(x) \in 0 .. Top
         /\ Lo(OneMore(x)) = (Lo(x) + 1) % Half
         /\ Hi(OneMore(x)) = (Hi(x) + (IF Lo(x) = Half - 1 THEN 1 ELSE 0)) % Half
<1> DEFINE h == Hi(x)  l == Lo(x)
<1>1. /\ Half \in Nat \ {0} /\ Half >= 2 /\ Double \in Nat \ {0} /\ Top = Double - 1
      /\ h \in 0 .. Half - 1 /\ l \in 0 .. Half - 1 /\ x = Half * h + l
  BY Sizes, Halves DEF Halved
<1> HIDE DEF h, l
<1>2. CASE l < Half - 1
  <2>1. x + 1 = h * Half + (l + 1) /\ l + 1 \in Halved /\ h \in Halved
    BY <1>1, <1>2 DEF Halved
  <2>2. x + 1 \in 0 .. Top /\ Lo(x + 1) = l + 1 /\ Hi(x + 1) = h
    BY <2>1, Joined
  <2>3. OneMore(x) = x + 1
    BY <1>1, <2>2, Remains DEF OneMore
  <2>4. (l + 1) % Half = l + 1 /\ (h + 0) % Half = h
    BY <1>1, <1>2, Remains
  <2>. QED BY <1>1, <1>2, <2>2, <2>3, <2>4 DEF h, l
<1>3. CASE l = Half - 1 /\ h < Half - 1
  <2>1. x + 1 = (h + 1) * Half + 0 /\ 0 \in Halved /\ h + 1 \in Halved
    BY <1>1, <1>3 DEF Halved
  <2>2. x + 1 \in 0 .. Top /\ Lo(x + 1) = 0 /\ Hi(x + 1) = h + 1
    BY <2>1, Joined
  <2>3. OneMore(x) = x + 1
    BY <1>1, <2>2, Remains DEF OneMore
  <2>4. (l + 1) % Half = 0 /\ (h + 1) % Half = h + 1
    BY <1>1, <1>3, Remains, Wraps
  <2>. QED BY <1>3, <2>2, <2>3, <2>4 DEF h, l
<1>4. CASE l = Half - 1 /\ h = Half - 1
  <2>1. x + 1 = Half * Half
    BY <1>1, <1>4
  <2>2. OneMore(x) = 0
    BY <1>1, <2>1, Sizes, Wraps DEF OneMore
  <2>3. 0 = 0 * Half + 0 /\ 0 \in Halved
    BY <1>1 DEF Halved
  <2>4. 0 \in 0 .. Top /\ Lo(0) = 0 /\ Hi(0) = 0
    BY <2>3, Joined
  <2>5. (l + 1) % Half = 0 /\ (h + 1) % Half = 0
    BY <1>1, <1>4, Wraps
  <2>. QED BY <1>4, <2>2, <2>4, <2>5 DEF h, l
<1>. QED BY <1>1, <1>2, <1>3, <1>4
-----------------------------------------------------------------------------
(* The inductive invariant.                                                *)

(* What the bridge holds belongs to its state.                             *)
BridgeInv ==
  /\ apb_state \in BridgeState
  /\ dphase \in Transfer \cup {NoTransfer}
  /\ apb_state # "IDLE" => dphase # NoTransfer
  /\ apb_state \in {"WR0", "WR1", "WR2", "WR3"} => dphase.write
  /\ apb_state \in {"RD0", "RD1", "RD2"} => ~dphase.write
  /\ apb_state = "WR1" => apbm_pwdata = dphase.data
  /\ apbm_pwdata \in Halved

(* The timer has left state 0 only for the access under way: every write   *)
(* finds it there.                                                         *)
AccessInv ==
  /\ state \in 0 .. 2 /\ pready \in BOOLEAN
  /\ state = 1 => apb_state \in {"RD1", "RD2"} /\ dphase.dev = Dev
  /\ state = 2 => apb_state = "WR2" /\ dphase.dev = Dev

(* The registers hold what was written last, the time with its ticks.      *)
RegisterInv ==
  /\ mtime \in 0 .. Top /\ mtimecmp \in [Hart -> 0 .. Top]
  /\ soft_irq \in [Hart -> {0, 1}] /\ timer_irq \in [Hart -> BOOLEAN]
  /\ written \in [Kept \cup Time -> Halved]
  /\ written[ADDR_MTIME] = Lo(mtime) /\ written[ADDR_MTIMEH] = Hi(mtime)
  /\ \A h \in Hart :
       /\ written[ADDR_IPI + 4 * h] = soft_irq[h]
       /\ written[ADDR_MTIMECMP + 8 * h] = Half - 1 - Lo(mtimecmp[h])
       /\ written[ADDR_MTIMECMPH + 8 * h] = Half - 1 - Hi(mtimecmp[h])

(* Where hart 0 is with its alarm: what it is writing and what it has left *)
(* to write, and which halves are those of the old alarm and of the new.   *)
Writing == dphase \notin Other \cup {NoTransfer}
Left    == Len(todo) + (IF Writing /\ apb_state \in {"WR0", "WR1"} THEN 1 ELSE 0)
CmpLo   == Half - 1 - Lo(mtimecmp[0])
CmpHi   == Half - 1 - Hi(mtimecmp[0])
LastOne == <<Compare(ADDR_MTIMECMPH, Hi(setting))>>
LastTwo == <<Compare(ADDR_MTIMECMP, Lo(setting)), Compare(ADDR_MTIMECMPH, Hi(setting))>>
WriteInv ==
  /\ alarm \in 0 .. Top /\ setting \in 0 .. Top
  /\ todo \in {<<>>, LastOne, LastTwo} /\ (todo # <<>> => setting \in Alarm)
  /\ Writing =>
       /\ apb_state \in {"WR0", "WR1", "WR2", "WR3"}
       /\ todo = LastTwo => dphase = Compare(ADDR_MTIMECMPH, Half - 1)
       /\ todo = LastOne => dphase = Compare(ADDR_MTIMECMP, Lo(setting))
       /\ todo = <<>>    => dphase = Compare(ADDR_MTIMECMPH, Hi(setting))
StageInv ==
  /\ Left = 3 => CmpHi = Hi(alarm) /\ CmpLo = Lo(alarm)
  /\ Left = 2 => CmpHi = Half - 1 /\ CmpLo = Lo(alarm)
  /\ Left = 1 => CmpHi = Half - 1 /\ CmpLo = Lo(setting)
  /\ Left = 0 => CmpHi = Hi(setting) /\ CmpLo = Lo(setting) /\ alarm = setting

ReadInv == ahbls_hrdata \in Halved /\ ReadBack

IInv == BridgeInv /\ AccessInv /\ RegisterInv /\ WriteInv /\ StageInv /\ ReadInv

LEMMA KeptIs == Kept = {0, 4, 16, 20, 24, 28}
BY DEF Kept, Hart, ADDR_IPI, ADDR_MTIMECMP, ADDR_MTIMECMPH

LEMMA TimeIs == Time = {8, 12}
BY DEF Time, ADDR_MTIME, ADDR_MTIMEH

LEMMA InitInv == Init => IInv
<1> SUFFICES ASSUME Init PROVE IInv
  OBVIOUS
<1> USE DEF Init, BridgeInit
<1>1. BridgeInv
  BY Sizes DEF BridgeInv, BridgeState, Halved
<1>2. AccessInv
  <2>1. state = 0 /\ state # 1 /\ state # 2
    OBVIOUS
  <2>2. pready \in BOOLEAN
    OBVIOUS
  <2>. QED BY <2>1, <2>2 DEF AccessInv
<1>3. Top \in 0 .. Top /\ 0 \in 0 .. Top /\ Lo(0) = 0 /\ Hi(0) = 0
  <2>1. 0 \in Halved /\ 0 * Half + 0 = 0
    BY Sizes DEF Halved
  <2>. QED BY <2>1, Joined, Sizes
<1>4. Lo(Top) = Half - 1 /\ Hi(Top) = Half - 1
  <2>1. Half - 1 \in Halved /\ (Half - 1) * Half + (Half - 1) = Top
    BY Sizes DEF Halved
  <2>. QED BY <2>1, Joined
<1>5. RegisterInv
  <2>1. written \in [Kept \cup Time -> Halved]
    BY Sizes, KeptIs, TimeIs DEF Halved, ADDR_MTIMECMP
  <2>2. \A h \in Hart : ADDR_IPI + 4 * h \in Kept /\ ADDR_IPI + 4 * h < ADDR_MTIMECMP
    BY KeptIs DEF Hart, ADDR_IPI, ADDR_MTIMECMP
  <2>3. \A h \in Hart : /\ ADDR_MTIMECMP + 8 * h \in Kept /\ ADDR_MTIMECMPH + 8 * h \in Kept
                        /\ ~(ADDR_MTIMECMP + 8 * h < ADDR_MTIMECMP)
                        /\ ~(ADDR_MTIMECMPH + 8 * h < ADDR_MTIMECMP)
    BY KeptIs DEF Hart, ADDR_MTIMECMP, ADDR_MTIMECMPH
  <2>4. \A h \in Hart : written[ADDR_IPI + 4 * h] = 0
    BY <2>2
  <2>5. \A h \in Hart : /\ written[ADDR_MTIMECMP + 8 * h] = Half - 1
                        /\ written[ADDR_MTIMECMPH + 8 * h] = Half - 1
    BY <2>3
  <2>6. \A h \in Hart : /\ Half - 1 - Lo(mtimecmp[h]) = Half - 1
                         /\ Half - 1 - Hi(mtimecmp[h]) = Half - 1
    BY <1>3, Sizes
  <2>7. /\ mtime \in 0 .. Top /\ mtimecmp \in [Hart -> 0 .. Top]
        /\ soft_irq \in [Hart -> {0, 1}] /\ timer_irq \in [Hart -> BOOLEAN]
    BY <1>3
  <2>8. \A h \in Hart : soft_irq[h] = 0
    OBVIOUS
  <2>9. written[ADDR_MTIME] = 0 /\ written[ADDR_MTIMEH] = 0
    BY DEF Time, ADDR_MTIME, ADDR_MTIMEH, ADDR_MTIMECMP
  <2>10. Lo(mtime) = 0 /\ Hi(mtime) = 0
    BY <1>3
  <2>. QED BY <2>1, <2>4, <2>5, <2>6, <2>7, <2>8, <2>9, <2>10 DEF RegisterInv
<1>6. WriteInv
  BY <1>3 DEF WriteInv, Writing
<1>7. StageInv
  <2>1. Left = 0
    BY DEF Left, Writing
  <2>2. CmpHi = Half - 1 /\ CmpLo = Half - 1
    BY <1>3, Sizes DEF CmpHi, CmpLo, Hart
  <2>. QED BY <1>4, <2>1, <2>2 DEF StageInv
<1>8. ReadInv
  BY Sizes DEF ReadInv, ReadBack, ReadsBack, Halved
<1>. QED BY <1>1, <1>2, <1>5, <1>6, <1>7, <1>8 DEF IInv
-----------------------------------------------------------------------------
(* The bridge.                                                             *)

LEMMA BridgeMoves ==
  ASSUME BridgeInv, Tick
  PROVE  /\ BridgeInv'
         /\ ahbls_hready_resp =>
              apb_state' = IF dphase' = NoTransfer THEN "IDLE"
                           ELSE IF dphase'.write THEN "WR0" ELSE "RD0"
         /\ ~ahbls_hready_resp => dphase' = dphase
         /\ apb_state = "WR0" => apb_state' = "WR1"
         /\ apb_state = "WR1" => apb_state' = "WR2"
         /\ apb_state = "WR2" => \/ apb_state' \in {"WR2", "WR3"}
                                 \/ apb_state' = "ERR0" /\ dphase.dev # Dev
         /\ apb_state = "RD0" => apb_state' = "RD1"
         /\ apb_state = "RD1" => \/ apb_state' \in {"RD1", "RD2"}
                                 \/ apb_state' = "ERR0" /\ dphase.dev # Dev
         /\ apb_state = "ERR0" => apb_state' = "ERR1"
<1>1. BridgeTick(pready /\ dphase.dev = Dev, IF bus_read(Dev) THEN prdata(dphase.reg) ELSE 0)
  BY DEF Tick
<1>2. apbm_pwdata' \in Halved
  <2>1. apb_state = "WR0" => dphase.data \in Halved
    BY TransferAssumption DEF BridgeInv, Halved
  <2>. QED BY <1>1, <2>1 DEF BridgeTick, BridgeInv
<1>3. CASE ahbls_hready_resp
  <2>1. PICK t \in Transfer \cup {NoTransfer} :
          /\ dphase' = t
          /\ apb_state' = IF t = NoTransfer THEN "IDLE"
                          ELSE IF t.write THEN "WR0" ELSE "RD0"
    BY <1>1, <1>3 DEF BridgeTick, setup
  <2>2. apb_state' \in {"IDLE", "RD0", "WR0"}
    BY <2>1
  <2>3. BridgeInv'
    BY <1>2, <2>1 DEF BridgeInv, BridgeState
  <2>. QED
    BY <1>3, <2>1, <2>3 DEF ahbls_hready_resp
<1>4. CASE ~ahbls_hready_resp
  <2>1. apb_state' = AfterCycle(pready /\ dphase.dev = Dev) /\ dphase' = dphase
    BY <1>1, <1>4 DEF BridgeTick
  <2>2. apb_state \in {"WR0", "WR1", "WR2", "RD0", "RD1", "ERR0"}
    BY <1>4 DEF BridgeInv, BridgeState, ahbls_hready_resp
  <2>3. apb_state = "WR0" => apb_state' = "WR1" /\ apbm_pwdata' = dphase.data
    BY <1>1, <2>1 DEF BridgeTick, AfterCycle
  <2>4. apb_state = "WR1" => apb_state' = "WR2"
    BY <2>1 DEF AfterCycle
  <2>5. apb_state = "WR2" => \/ apb_state' \in {"WR2", "WR3"}
                             \/ apb_state' = "ERR0" /\ dphase.dev # Dev
    BY <2>1, TransferAssumption DEF AfterCycle, Answered
  <2>6. apb_state = "RD0" => apb_state' = "RD1"
    BY <2>1 DEF AfterCycle
  <2>7. apb_state = "RD1" => \/ apb_state' \in {"RD1", "RD2"}
                             \/ apb_state' = "ERR0" /\ dphase.dev # Dev
    BY <2>1, TransferAssumption DEF AfterCycle, Answered
  <2>8. apb_state = "ERR0" => apb_state' = "ERR1"
    BY <2>1 DEF AfterCycle
  <2>9. BridgeInv'
    BY <1>2, <2>1, <2>2, <2>3, <2>4, <2>5, <2>6, <2>7, <2>8 DEF BridgeInv, BridgeState
  <2>. QED
    BY <1>4, <2>1, <2>3, <2>4, <2>5, <2>6, <2>7, <2>8, <2>9
<1>. QED BY <1>3, <1>4

LEMMA Accesses ==
  ASSUME BridgeInv
  PROVE  /\ bus_write(Dev) <=> apb_state = "WR1" /\ dphase.dev = Dev
         /\ bus_read(Dev) <=> apb_state = "RD1" /\ dphase.dev = Dev
BY DEF BridgeInv, bus_write, bus_read, Offered

LEMMA AccessStep ==
  ASSUME BridgeInv, AccessInv, Tick
  PROVE  AccessInv'
<1>1. ReadyTick
  BY DEF Tick
<1>2. state' \in 0 .. 2 /\ pready' \in BOOLEAN
  BY <1>1 DEF ReadyTick, AccessInv
<1>3. CASE state = 0
  <2>1. bus_read(Dev) => state' = 1 /\ (state' # 2)
    BY <1>1, <1>3, Accesses DEF ReadyTick, BridgeInv
  <2>2. bus_write(Dev) => state' = 2
    BY <1>1, <1>3, Accesses DEF ReadyTick, BridgeInv
  <2>3. ~bus_read(Dev) /\ ~bus_write(Dev) => state' = 0
    BY <1>1, <1>3 DEF ReadyTick
  <2>. QED
    BY <1>2, <2>1, <2>2, <2>3, Accesses, BridgeMoves DEF AccessInv, ahbls_hready_resp
<1>4. CASE state = 1
  <2>1. apb_state = "RD2" => state' = 0
    BY <1>1, <1>4, Accesses DEF ReadyTick
  <2>2. state' \in {0, 1}
    BY <1>1, <1>4 DEF ReadyTick
  <2>. QED
    BY <1>2, <1>4, <2>1, <2>2, BridgeMoves DEF AccessInv, ahbls_hready_resp
<1>5. CASE state = 2
  <2>1. state' = 0
    BY <1>1, <1>5, Accesses DEF ReadyTick, AccessInv
  <2>. QED BY <1>2, <2>1 DEF AccessInv
<1>. QED BY <1>3, <1>4, <1>5 DEF AccessInv

(* A write meets the timer in state 0.                                     *)
LEMMA WriteMeets ==
  ASSUME BridgeInv, AccessInv, bus_write(Dev)
  PROVE  state = 0
BY Accesses DEF AccessInv
-----------------------------------------------------------------------------
(* The registers.                                                          *)

(* What the history has of a register.                                     *)
LEMMA WrittenStep ==
  ASSUME BridgeInv, RegisterInv, NEW tick \in BOOLEAN, HistoryStep(tick)
  PROVE  /\ written' \in [Kept \cup Time -> Halved]
         /\ \A r \in Kept :
              written'[r] = IF writes(r)
                            THEN IF r < ADDR_MTIME /\ apbm_pwdata # 0 THEN 1 ELSE apbm_pwdata
                            ELSE written[r]
         /\ \A r \in Time :
              written'[r] = IF writes(r) THEN apbm_pwdata
                            ELSE IF tick THEN (written[r] + Counts(r)) % Half ELSE written[r]
<1>1. 1 \in Halved /\ apbm_pwdata \in Halved /\ Half \in Nat \ {0}
  BY Sizes DEF BridgeInv, Halved
<1>2. \A r \in Kept \cup Time :
        /\ written[r] \in Halved /\ Counts(r) \in {0, 1}
        /\ (written[r] + Counts(r)) % Half \in Halved
  <2> SUFFICES ASSUME NEW r \in Kept \cup Time
               PROVE  /\ written[r] \in Halved /\ Counts(r) \in {0, 1}
                      /\ (written[r] + Counts(r)) % Half \in Halved
    OBVIOUS
  <2>1. written[r] \in Halved /\ Counts(r) \in {0, 1}
    BY DEF RegisterInv, Counts
  <2>2. written[r] + Counts(r) \in Nat
    BY <1>1, <2>1 DEF Halved
  <2>. QED BY <1>1, <2>1, <2>2, Quotient DEF Halved
<1>3. \A r \in Kept : Counts(r) = 0 /\ (written[r] + 0) % Half = written[r]
  <2> TAKE r \in Kept
  <2>1. written[r] \in 0 .. Half - 1 /\ written[r] + 0 = written[r]
    BY <1>1, <1>2 DEF Halved
  <2>2. Counts(r) = 0
    BY KeptIs DEF Counts, ADDR_MTIME, ADDR_MTIMEH
  <2>. QED BY <1>1, <2>1, <2>2, Remains
<1>4. \A r \in Time : ~(r < ADDR_MTIME)
  BY TimeIs DEF ADDR_MTIME
<1>. QED BY <1>1, <1>2, <1>3, <1>4 DEF HistoryStep

(* The time and its history: a write of one half leaves the other.         *)
LEMMA TimeStep ==
  ASSUME BridgeInv, RegisterInv, NEW tick \in BOOLEAN, mtime' = MtimeAfter(tick), HistoryStep(tick)
  PROVE  /\ mtime' \in 0 .. Top
         /\ written'[ADDR_MTIME] = Lo(mtime') /\ written'[ADDR_MTIMEH] = Hi(mtime')
<1> DEFINE t == IF tick THEN OneMore(mtime) ELSE mtime
           low == IF tick THEN (written[ADDR_MTIME] + Counts(ADDR_MTIME)) % Half
                          ELSE written[ADDR_MTIME]
           high == IF tick THEN (written[ADDR_MTIMEH] + Counts(ADDR_MTIMEH)) % Half
                           ELSE written[ADDR_MTIMEH]
<1>1. mtime \in 0 .. Top /\ written[ADDR_MTIME] = Lo(mtime) /\ written[ADDR_MTIMEH] = Hi(mtime)
  BY DEF RegisterInv
<1>2. /\ Counts(ADDR_MTIME) = 1
      /\ Counts(ADDR_MTIMEH) = IF Lo(mtime) = Half - 1 THEN 1 ELSE 0
  BY <1>1 DEF Counts, ADDR_MTIME, ADDR_MTIMEH
<1>3. t \in 0 .. Top /\ low = Lo(t) /\ high = Hi(t)
  <2>1. CASE tick
    BY <1>1, <1>2, <2>1, Added
  <2>2. CASE ~tick
    BY <1>1, <2>2
  <2>. QED BY <2>1, <2>2
<1>4. apbm_pwdata \in Halved /\ Lo(t) \in Halved /\ Hi(t) \in Halved
  BY <1>3, Halves DEF BridgeInv
<1>5. /\ written'[ADDR_MTIME] = IF writes(ADDR_MTIME) THEN apbm_pwdata ELSE low
      /\ written'[ADDR_MTIMEH] = IF writes(ADDR_MTIMEH) THEN apbm_pwdata ELSE high
  BY WrittenStep DEF Time
<1>6. mtime' = IF writes(ADDR_MTIME) THEN SetLo(t, apbm_pwdata)
               ELSE IF writes(ADDR_MTIMEH) THEN SetHi(t, apbm_pwdata) ELSE t
  BY DEF MtimeAfter, OneMore
<1> HIDE DEF t, low, high
<1>7. /\ SetLo(t, apbm_pwdata) \in 0 .. Top /\ SetHi(t, apbm_pwdata) \in 0 .. Top
      /\ Lo(SetLo(t, apbm_pwdata)) = apbm_pwdata /\ Hi(SetLo(t, apbm_pwdata)) = Hi(t)
      /\ Lo(SetHi(t, apbm_pwdata)) = Lo(t) /\ Hi(SetHi(t, apbm_pwdata)) = apbm_pwdata
  BY <1>4, Joined DEF SetLo, SetHi
<1>8. ~(writes(ADDR_MTIME) /\ writes(ADDR_MTIMEH))
  BY DEF writes, ADDR_MTIME, ADDR_MTIMEH
<1>9. CASE writes(ADDR_MTIME)
  BY <1>3, <1>5, <1>6, <1>7, <1>8, <1>9
<1>10. CASE writes(ADDR_MTIMEH)
  BY <1>3, <1>5, <1>6, <1>7, <1>8, <1>10
<1>11. CASE ~writes(ADDR_MTIME) /\ ~writes(ADDR_MTIMEH)
  BY <1>3, <1>5, <1>6, <1>11
<1>. QED BY <1>9, <1>10, <1>11

(* A write of one half leaves the other.                                   *)
LEMMA CompareStep ==
  ASSUME BridgeInv, RegisterInv, NEW h \in Hart
  PROVE  /\ MtimecmpAfter(h) \in 0 .. Top
         /\ Half - 1 - Lo(MtimecmpAfter(h)) =
              IF writes(ADDR_MTIMECMP + 8 * h) THEN apbm_pwdata ELSE Half - 1 - Lo(mtimecmp[h])
         /\ Half - 1 - Hi(MtimecmpAfter(h)) =
              IF writes(ADDR_MTIMECMPH + 8 * h) THEN apbm_pwdata ELSE Half - 1 - Hi(mtimecmp[h])
<1> DEFINE c == mtimecmp[h]  inverted == Half - 1 - apbm_pwdata
<1>1. c \in 0 .. Top /\ apbm_pwdata \in Halved /\ Half \in Nat
  BY Sizes DEF RegisterInv, BridgeInv
<1>2. inverted \in Halved /\ Half - 1 - inverted = apbm_pwdata
  BY <1>1 DEF Halved
<1>3. /\ SetLo(c, inverted) \in 0 .. Top
      /\ Lo(SetLo(c, inverted)) = inverted /\ Hi(SetLo(c, inverted)) = Hi(c)
      /\ SetHi(c, inverted) \in 0 .. Top
      /\ Lo(SetHi(c, inverted)) = Lo(c) /\ Hi(SetHi(c, inverted)) = inverted
  <2> HIDE DEF c, inverted
  <2>. QED BY <1>1, <1>2, Halves, Joined DEF SetLo, SetHi
<1>4. writes(ADDR_MTIMECMP + 8 * h) => ~writes(ADDR_MTIMECMPH + 8 * h)
  BY DEF writes, ADDR_MTIMECMP, ADDR_MTIMECMPH, Hart
<1>5. CASE writes(ADDR_MTIMECMP + 8 * h)
  <2>1. MtimecmpAfter(h) = SetLo(c, inverted)
    BY <1>5 DEF MtimecmpAfter
  <2> HIDE DEF c, inverted
  <2>. QED BY <1>2, <1>3, <1>4, <1>5, <2>1 DEF c
<1>6. CASE ~writes(ADDR_MTIMECMP + 8 * h) /\ writes(ADDR_MTIMECMPH + 8 * h)
  <2>1. MtimecmpAfter(h) = SetHi(c, inverted)
    BY <1>6 DEF MtimecmpAfter
  <2> HIDE DEF c, inverted
  <2>. QED BY <1>2, <1>3, <1>6, <2>1 DEF c
<1>7. CASE ~writes(ADDR_MTIMECMP + 8 * h) /\ ~writes(ADDR_MTIMECMPH + 8 * h)
  BY <1>1, <1>7 DEF MtimecmpAfter
<1>. QED BY <1>5, <1>6, <1>7

LEMMA RegisterStep ==
  ASSUME BridgeInv, AccessInv, RegisterInv, Tick
  PROVE  RegisterInv'
<1>0. PICK tick \in BOOLEAN : mtime' = MtimeAfter(tick) /\ HistoryStep(tick)
  BY DEF Tick
<1>1. mtimecmp' = [h \in Hart |-> MtimecmpAfter(h)]
  BY DEF Tick
<1>2. soft_irq' = [h \in Hart |-> SoftIrqAfter(h)] /\ timer_irq' = [h \in Hart |-> Reached(h)]
  BY DEF Tick
<1>3. mtimecmp' \in [Hart -> 0 .. Top]
  BY <1>1, CompareStep
<1>4. soft_irq' \in [Hart -> {0, 1}]
  <2>1. \A h \in Hart : SoftIrqAfter(h) \in {0, 1}
    BY DEF RegisterInv, SoftIrqAfter
  <2>. QED BY <1>2, <2>1
<1>5. timer_irq' \in [Hart -> BOOLEAN]
  BY <1>2 DEF Reached
<1>6. \A h \in Hart : written'[ADDR_IPI + 4 * h] = soft_irq'[h]
  <2> TAKE h \in Hart
  <2>1. ADDR_IPI + 4 * h \in Kept /\ ADDR_IPI + 4 * h < ADDR_MTIME
    BY KeptIs DEF Hart, ADDR_IPI, ADDR_MTIME
  <2>2. writes(ADDR_IPI + 4 * h) => state = 0
    BY WriteMeets DEF writes
  <2>3. written[ADDR_IPI + 4 * h] = soft_irq[h]
    BY DEF RegisterInv
  <2>4. soft_irq'[h] = SoftIrqAfter(h)
    BY <1>2
  <2>. QED BY <2>1, <2>2, <2>3, <2>4, <1>0, WrittenStep DEF SoftIrqAfter
<1>7. \A h \in Hart : written'[ADDR_MTIMECMP + 8 * h] = Half - 1 - Lo(mtimecmp'[h])
  <2> TAKE h \in Hart
  <2>1. ADDR_MTIMECMP + 8 * h \in Kept /\ ~(ADDR_MTIMECMP + 8 * h < ADDR_MTIME)
    BY KeptIs DEF Hart, ADDR_MTIMECMP, ADDR_MTIME
  <2>2. written[ADDR_MTIMECMP + 8 * h] = Half - 1 - Lo(mtimecmp[h])
    BY DEF RegisterInv
  <2>. QED BY <1>1, <2>1, <2>2, <1>0, WrittenStep, CompareStep
<1>8. \A h \in Hart : written'[ADDR_MTIMECMPH + 8 * h] = Half - 1 - Hi(mtimecmp'[h])
  <2> TAKE h \in Hart
  <2>1. ADDR_MTIMECMPH + 8 * h \in Kept /\ ~(ADDR_MTIMECMPH + 8 * h < ADDR_MTIME)
    BY KeptIs DEF Hart, ADDR_MTIMECMPH, ADDR_MTIME
  <2>2. written[ADDR_MTIMECMPH + 8 * h] = Half - 1 - Hi(mtimecmp[h])
    BY DEF RegisterInv
  <2>. QED BY <1>1, <2>1, <2>2, <1>0, WrittenStep, CompareStep
<1>. QED
  BY <1>0, <1>3, <1>4, <1>5, <1>6, <1>7, <1>8, TimeStep, WrittenStep DEF RegisterInv

(* What a register reads.                                                  *)
LEMMA ReadValue ==
  ASSUME RegisterInv, NEW r
  PROVE  /\ prdata(r) \in Halved
         /\ r \in Kept \ {ADDR_MTIMECMPH + 8} => prdata(r) = written[r]
<1> USE DEF ADDR_IPI, ADDR_MTIME, ADDR_MTIMEH, ADDR_MTIMECMP, ADDR_MTIMECMPH
<1>1. /\ written[0] = soft_irq[0] /\ written[4] = soft_irq[1]
      /\ written[16] = Half - 1 - Lo(mtimecmp[0]) /\ written[20] = Half - 1 - Hi(mtimecmp[0])
      /\ written[24] = Half - 1 - Lo(mtimecmp[1])
  BY DEF RegisterInv, Hart
<1>2. /\ Lo(mtime) \in Halved /\ Hi(mtime) \in Halved
      /\ \A h \in Hart : Lo(mtimecmp[h]) \in Halved /\ Hi(mtimecmp[h]) \in Halved
  BY Halves DEF RegisterInv
<1>3. \A x \in Halved : Half - 1 - x \in Halved
  BY Sizes DEF Halved
<1>4. soft_irq[0] \in Halved /\ soft_irq[1] \in Halved /\ 0 \in Halved
  BY Sizes DEF RegisterInv, Hart, Halved
<1>5. (\E h \in Hart : r = ADDR_IPI + 4 * h) <=> r \in {0, 4}
  BY DEF Hart
<1>6. CASE r = 0
  BY <1>1, <1>4, <1>5, <1>6 DEF prdata
<1>7. CASE r = 4
  BY <1>1, <1>4, <1>5, <1>7 DEF prdata
<1>8. CASE r \notin {0, 4}
  <2>1. prdata(r) = CASE r = 8  -> Lo(mtime)
                      [] r = 12 -> Hi(mtime)
                      [] r = 16 -> Half - 1 - Lo(mtimecmp[0])
                      [] r = 20 -> Half - 1 - Hi(mtimecmp[0])
                      [] r = 24 -> Half - 1 - Lo(mtimecmp[1])
                      [] r = 32 -> Half - 1 - Hi(mtimecmp[1])
                      [] OTHER  -> 0
    BY <1>5, <1>8 DEF prdata
  <2>2. prdata(r) \in Halved
    BY <1>2, <1>3, <1>4, <2>1 DEF Hart
  <2>3. r \in Kept \ {28} => r \in {16, 20, 24}
    BY <1>8, KeptIs
  <2>. QED BY <1>1, <2>1, <2>2, <2>3
<1>. QED BY <1>6, <1>7, <1>8

LEMMA ReadStep ==
  ASSUME BridgeInv, AccessInv, RegisterInv, ReadInv, Tick
  PROVE  ReadInv'
<1>1. ahbls_hrdata' = IF apb_state = "RD1" /\ apbs_pready(pready /\ dphase.dev = Dev)
                      THEN IF dphase.dev = NoDevice THEN 0
                           ELSE IF bus_read(Dev) THEN prdata(dphase.reg) ELSE 0
                      ELSE ahbls_hrdata
  BY DEF Tick, BridgeTick
<1>2. ahbls_hrdata' \in Halved
  <2>1. 0 \in Halved
    BY Sizes DEF Halved
  <2>. QED BY <1>1, <2>1, ReadValue DEF ReadInv
<1>3. ASSUME apb_state' = "RD2", dphase'.dev = Dev, dphase'.reg \in Kept \ {ADDR_MTIMECMPH + 8}
      PROVE  ahbls_hrdata' = written'[dphase'.reg]
  <2>1. ~ahbls_hready_resp /\ apb_state = "RD1" /\ dphase' = dphase
    BY <1>3, BridgeMoves DEF BridgeInv, BridgeState, ahbls_hready_resp
  <2>2. bus_read(Dev) /\ ~bus_write(Dev) /\ dphase.dev # NoDevice
    BY <1>3, <2>1, Accesses, TransferAssumption
  <2>3. apbs_pready(pready /\ dphase.dev = Dev)
    BY <1>3, <2>1, <2>2 DEF Tick, BridgeTick, AfterCycle, ahbls_hready_resp
  <2>4. ahbls_hrdata' = prdata(dphase.reg)
    BY <1>1, <2>1, <2>2, <2>3
  <2>5. \A r : ~writes(r)
    BY <2>2 DEF writes
  <2>6. PICK tick \in BOOLEAN : mtime' = MtimeAfter(tick) /\ HistoryStep(tick)
    BY DEF Tick
  <2>. QED BY <1>3, <2>1, <2>4, <2>5, <2>6, WrittenStep, ReadValue
<1>. QED BY <1>2, <1>3 DEF ReadInv, ReadBack, ReadsBack
-----------------------------------------------------------------------------
(* Hart 0 and its alarm.                                                   *)

LEMMA OwnWrites ==
  /\ \A r, v : Compare(r, v).dev = Dev /\ Compare(r, v).write
               /\ Compare(r, v).reg = r /\ Compare(r, v).data = v
  /\ \A v : /\ Compare(ADDR_MTIMECMP, v) \notin Other
            /\ Compare(ADDR_MTIMECMPH, v) \notin Other
<1>1. \A r, v : Compare(r, v).dev = Dev /\ Compare(r, v).write
                /\ Compare(r, v).reg = r /\ Compare(r, v).data = v
  BY DEF Compare
<1>. QED BY <1>1, TransferAssumption

LEMMA AlarmWrites ==
  ASSUME NEW v \in Alarm
  PROVE  /\ v \in 0 .. Top
         /\ Compare(ADDR_MTIMECMPH, Half - 1) \in Transfer
         /\ Compare(ADDR_MTIMECMP, Lo(v)) \in Transfer
         /\ Compare(ADDR_MTIMECMPH, Hi(v)) \in Transfer
<1> DEFINE a == Compare(ADDR_MTIMECMPH, Half - 1)
           b == Compare(ADDR_MTIMECMP, Lo(v))
           c == Compare(ADDR_MTIMECMPH, Hi(v))
<1>1. set_mtimecmp(v) = <<a, b, c>>
  BY DEF set_mtimecmp
<1> HIDE DEF a, b, c
<1>2. Len(<<a, b, c>>) = 3 /\ <<a, b, c>>[1] = a /\ <<a, b, c>>[2] = b /\ <<a, b, c>>[3] = c
  OBVIOUS
<1>3. a \in Transfer /\ b \in Transfer /\ c \in Transfer
  <2>1. 1 \in 1 .. 3 /\ 2 \in 1 .. 3 /\ 3 \in 1 .. 3
    OBVIOUS
  <2>2. \A k \in 1 .. 3 : set_mtimecmp(v)[k] \in Transfer
    BY <1>1, <1>2, AlarmAssumption
  <2>. QED BY <1>1, <1>2, <2>1, <2>2
<1>. QED BY <1>3, AlarmAssumption DEF a, b, c

(* What is left to write, and its length.                                  *)
LEMMA Todo ==
  /\ Len(<<>>) = 0 /\ Len(LastOne) = 1 /\ Len(LastTwo) = 2
  /\ LastOne # <<>> /\ LastTwo # <<>> /\ LastOne # LastTwo
  /\ Head(LastOne) = Compare(ADDR_MTIMECMPH, Hi(setting)) /\ Tail(LastOne) = <<>>
  /\ Head(LastTwo) = Compare(ADDR_MTIMECMP, Lo(setting)) /\ Tail(LastTwo) = LastOne
<1> DEFINE b == Compare(ADDR_MTIMECMP, Lo(setting))  c == Compare(ADDR_MTIMECMPH, Hi(setting))
<1>1. LastOne = <<c>> /\ LastTwo = <<b, c>>
  BY DEF LastOne, LastTwo
<1> HIDE DEF b, c
<1>2. Len(<<>>) = 0 /\ Len(<<c>>) = 1 /\ Len(<<b, c>>) = 2
  OBVIOUS
<1>3. Head(<<c>>) = c /\ Tail(<<c>>) = <<>> /\ Head(<<b, c>>) = b /\ Tail(<<b, c>>) = <<c>>
  OBVIOUS
<1>. QED BY <1>1, <1>2, <1>3 DEF b, c

(* A cycle of hart 0: it goes on, or issues what it has left, or begins.   *)
GoesOn  == /\ setting' = setting /\ todo' = todo
           /\ IF ahbls_hready_resp THEN ~Writing' ELSE dphase' = dphase
Issues  == /\ ahbls_hready_resp /\ todo # <<>> /\ setting' = setting
           /\ dphase' = Head(todo) /\ todo' = Tail(todo)
Begins  == /\ ahbls_hready_resp /\ ~Setting /\ setting' \in Alarm
           /\ dphase' = Compare(ADDR_MTIMECMPH, Half - 1) /\ todo' = LastTwo'

LEMMA HartStep ==
  ASSUME BridgeInv, Tick
  PROVE  GoesOn \/ Issues \/ Begins
<1>1. SoftwareStep
  BY DEF Tick
<1>2. CASE /\ dphase' \in Other \cup {NoTransfer} \/ ~ahbls_hready_resp
           /\ UNCHANGED <<setting, todo>>
  <2>1. CASE ahbls_hready_resp
    BY <1>2, <2>1 DEF GoesOn, Writing
  <2>2. CASE ~ahbls_hready_resp
    BY <1>2, <2>2, BridgeMoves DEF GoesOn
  <2>. QED BY <2>1, <2>2
<1>3. CASE /\ ahbls_hready_resp /\ todo # <<>>
           /\ dphase' = Head(todo) /\ todo' = Tail(todo) /\ UNCHANGED setting
  BY <1>3 DEF Issues
<1>4. ASSUME ahbls_hready_resp, ~Setting, NEW v \in Alarm, setting' = v,
             dphase' = Head(set_mtimecmp(v)), todo' = Tail(set_mtimecmp(v))
      PROVE  Begins
  <2> DEFINE a == Compare(ADDR_MTIMECMPH, Half - 1)
             b == Compare(ADDR_MTIMECMP, Lo(v))
             c == Compare(ADDR_MTIMECMPH, Hi(v))
  <2>1. set_mtimecmp(v) = <<a, b, c>> /\ LastTwo' = <<b, c>>
    BY <1>4 DEF set_mtimecmp, LastTwo, Compare, Lo, Hi
  <2> HIDE DEF a, b, c
  <2>2. Head(<<a, b, c>>) = a /\ Tail(<<a, b, c>>) = <<b, c>>
    OBVIOUS
  <2>. QED BY <1>4, <2>1, <2>2 DEF Begins, a
<1>. QED BY <1>1, <1>2, <1>3, <1>4 DEF SoftwareStep

LEMMA WriteStep ==
  ASSUME BridgeInv, WriteInv, Tick
  PROVE  WriteInv'
<1>1. alarm' \in 0 .. Top
  BY DEF Tick, SoftwareStep, WriteInv
<1>2. CASE GoesOn
  <2>1. LastOne' = LastOne /\ LastTwo' = LastTwo
    BY <1>2 DEF GoesOn, LastOne, LastTwo
  <2>2. /\ setting' \in 0 .. Top
        /\ todo' \in {<<>>, LastOne', LastTwo'} /\ (todo' # <<>> => setting' \in Alarm)
    BY <1>2, <2>1 DEF GoesOn, WriteInv
  <2>3. CASE ahbls_hready_resp
    BY <1>1, <1>2, <2>2, <2>3 DEF GoesOn, WriteInv
  <2>4. CASE ~ahbls_hready_resp
    <3>1. dphase' = dphase /\ Writing' = Writing /\ setting' = setting /\ todo' = todo
      BY <1>2, <2>4 DEF GoesOn, Writing
    <3>2. Writing => /\ apb_state \in {"WR0", "WR1", "WR2", "WR3"}
                     /\ dphase.dev = Dev
      BY OwnWrites DEF WriteInv
    <3>3. Writing' => apb_state' \in {"WR0", "WR1", "WR2", "WR3"}
      BY <2>4, <3>1, <3>2, BridgeMoves DEF ahbls_hready_resp
    <3>4. Writing' =>
            /\ todo' = LastTwo' => dphase' = Compare(ADDR_MTIMECMPH, Half - 1)
            /\ todo' = LastOne' => dphase' = Compare(ADDR_MTIMECMP, Lo(setting'))
            /\ todo' = <<>>     => dphase' = Compare(ADDR_MTIMECMPH, Hi(setting'))
      BY <2>1, <3>1 DEF WriteInv
    <3>. QED BY <1>1, <2>2, <3>3, <3>4 DEF WriteInv
  <2>. QED BY <2>3, <2>4
<1>3. CASE Issues
  <2>1. /\ LastOne' = LastOne /\ LastTwo' = LastTwo
        /\ setting \in Alarm /\ setting' = setting /\ ahbls_hready_resp
    BY <1>3 DEF Issues, LastOne, LastTwo, WriteInv
  <2>2. \/ /\ todo = LastTwo /\ todo' = LastOne'
           /\ dphase' = Compare(ADDR_MTIMECMP, Lo(setting))
        \/ /\ todo = LastOne /\ todo' = <<>>
           /\ dphase' = Compare(ADDR_MTIMECMPH, Hi(setting))
    BY <1>3, <2>1, Todo DEF Issues, WriteInv
  <2>3. dphase' \in Transfer /\ dphase'.write /\ dphase' # NoTransfer
    BY <2>1, <2>2, AlarmWrites, OwnWrites, TransferAssumption
  <2>4. apb_state' = "WR0"
    BY <2>1, <2>3, BridgeMoves
  <2>5. LastOne' # <<>> /\ LastTwo' # <<>> /\ LastOne' # LastTwo'
    BY <2>1, Todo
  <2>. QED BY <1>1, <2>1, <2>2, <2>4, <2>5 DEF WriteInv
<1>4. CASE Begins
  <2>1. dphase' \in Transfer /\ dphase'.write /\ dphase' # NoTransfer
    BY <1>4, AlarmWrites, OwnWrites, TransferAssumption DEF Begins
  <2>2. apb_state' = "WR0"
    BY <1>4, <2>1, BridgeMoves DEF Begins
  <2>3. LastTwo' # <<>> /\ LastTwo' # LastOne'
    BY DEF LastOne, LastTwo
  <2>4. setting' \in 0 .. Top
    BY <1>4, AlarmWrites DEF Begins
  <2>. QED BY <1>1, <1>4, <2>2, <2>3, <2>4 DEF Begins, WriteInv
<1>. QED BY <1>2, <1>3, <1>4, HartStep

(* The halves of the compare register of hart 0, and its alarm.            *)
LEMMA AlarmHalves ==
  ASSUME BridgeInv, RegisterInv, Tick
  PROVE  /\ CmpLo' = IF writes(ADDR_MTIMECMP) THEN apbm_pwdata ELSE CmpLo
         /\ CmpHi' = IF writes(ADDR_MTIMECMPH) THEN apbm_pwdata ELSE CmpHi
         /\ alarm' = IF bus_write(Dev) /\ Writing /\ todo = <<>> THEN setting ELSE alarm
         /\ writes(ADDR_MTIMECMP) \/ writes(ADDR_MTIMECMPH) => Writing
<1>1. 0 \in Hart /\ mtimecmp'[0] = MtimecmpAfter(0)
  BY DEF Tick, Hart
<1>2. ADDR_MTIMECMP + 8 * 0 = ADDR_MTIMECMP /\ ADDR_MTIMECMPH + 8 * 0 = ADDR_MTIMECMPH
  BY DEF ADDR_MTIMECMP, ADDR_MTIMECMPH
<1>3. /\ CmpLo' = IF writes(ADDR_MTIMECMP) THEN apbm_pwdata ELSE CmpLo
      /\ CmpHi' = IF writes(ADDR_MTIMECMPH) THEN apbm_pwdata ELSE CmpHi
  BY <1>1, <1>2, CompareStep DEF CmpLo, CmpHi
<1>4. bus_write(Dev) => dphase # NoTransfer /\ dphase.dev = Dev /\ dphase.write
  BY DEF BridgeInv, bus_write, Offered
<1>5. alarm' = IF bus_write(Dev) /\ dphase \notin Other /\ todo = <<>> THEN setting ELSE alarm
  BY DEF Tick, SoftwareStep
<1>6. writes(ADDR_MTIMECMP) \/ writes(ADDR_MTIMECMPH) => Writing
  BY <1>4, TransferAssumption DEF writes, Writing
<1>. QED BY <1>3, <1>4, <1>5, <1>6 DEF Writing

LEMMA StageStep ==
  ASSUME BridgeInv, RegisterInv, WriteInv, StageInv, Tick
  PROVE  StageInv'
<1>1. CASE ~(Writing /\ apb_state = "WR1")
  <2>1. CmpLo' = CmpLo /\ CmpHi' = CmpHi /\ alarm' = alarm
    <3>1. ~(bus_write(Dev) /\ Writing)
      BY <1>1, Accesses
    <3>. QED BY <3>1, AlarmHalves DEF writes
  <2>2. CASE GoesOn
    <3>1. setting' = setting /\ todo' = todo
      BY <2>2 DEF GoesOn
    <3>2. Left' = Left
      <4>1. CASE ahbls_hready_resp
        BY <2>2, <3>1, <4>1 DEF GoesOn, Left, ahbls_hready_resp
      <4>2. CASE ~ahbls_hready_resp
        <5>1. Writing' = Writing
          BY <2>2, <4>2 DEF GoesOn, Writing
        <5>2. Writing => (apb_state' \in {"WR0", "WR1"} <=> apb_state \in {"WR0", "WR1"})
          BY <1>1, <4>2, BridgeMoves DEF WriteInv, ahbls_hready_resp
        <5>. QED BY <3>1, <5>1, <5>2 DEF Left
      <4>. QED BY <4>1, <4>2
    <3>. QED BY <2>1, <3>1, <3>2 DEF StageInv
  <2>3. CASE Issues
    <3>1. /\ setting' = setting /\ setting \in Alarm /\ ahbls_hready_resp
          /\ \/ /\ Len(todo) = 2 /\ Len(todo') = 1
                /\ dphase' = Compare(ADDR_MTIMECMP, Lo(setting))
             \/ /\ Len(todo) = 1 /\ Len(todo') = 0
                /\ dphase' = Compare(ADDR_MTIMECMPH, Hi(setting))
      BY <2>3, Todo DEF Issues, WriteInv
    <3>2. dphase' \in Transfer /\ dphase'.write /\ dphase' # NoTransfer /\ dphase' \notin Other
      BY <3>1, AlarmWrites, OwnWrites, TransferAssumption
    <3>3. Writing' /\ apb_state' = "WR0"
      BY <3>1, <3>2, BridgeMoves DEF Writing
    <3>4. Left = Len(todo) /\ Left' = Len(todo') + 1
      BY <3>1, <3>3 DEF Left, ahbls_hready_resp
    <3>5. CASE Len(todo) = 2 /\ Len(todo') = 1
      BY <2>1, <3>1, <3>4, <3>5 DEF StageInv
    <3>6. CASE Len(todo) = 1 /\ Len(todo') = 0
      BY <2>1, <3>1, <3>4, <3>6 DEF StageInv
    <3>. QED BY <3>1, <3>5, <3>6 DEF StageInv
  <2>4. CASE Begins
    <3>1. Left = 0
      BY <2>4, Todo DEF Begins, Setting, Left, Writing
    <3>2. dphase' \in Transfer /\ dphase'.write /\ dphase' # NoTransfer /\ dphase' \notin Other
      BY <2>4, AlarmWrites, OwnWrites, TransferAssumption DEF Begins
    <3>3. Writing' /\ apb_state' = "WR0"
      BY <2>4, <3>2, BridgeMoves DEF Begins, Writing
    <3>4. Len(todo') = 2
      BY <2>4 DEF Begins, LastTwo
    <3>5. Left' = 3
      BY <3>3, <3>4 DEF Left
    <3>. QED BY <2>1, <3>1, <3>5 DEF StageInv
  <2>. QED BY <2>2, <2>3, <2>4, HartStep
<1>2. CASE Writing /\ apb_state = "WR1"
  <2>1. bus_write(Dev) /\ apbm_pwdata = dphase.data /\ apb_state' = "WR2"
    <3>1. dphase.dev = Dev
      BY <1>2, OwnWrites DEF WriteInv
    <3>. QED BY <1>2, <3>1, Accesses, BridgeMoves DEF BridgeInv
  <2>2. setting' = setting /\ todo' = todo
    BY <1>2, HartStep DEF GoesOn, Issues, Begins, ahbls_hready_resp
  <2>3. Left = Len(todo) + 1 /\ Left' = Len(todo)
    BY <1>2, <2>1, <2>2 DEF Left
  <2>4. ADDR_MTIMECMP # ADDR_MTIMECMPH
    BY DEF ADDR_MTIMECMP, ADDR_MTIMECMPH
  <2>5. CASE todo = LastTwo
    <3>1. dphase = Compare(ADDR_MTIMECMPH, Half - 1)
      BY <1>2, <2>5 DEF WriteInv
    <3>2. writes(ADDR_MTIMECMPH) /\ ~writes(ADDR_MTIMECMP) /\ apbm_pwdata = Half - 1
      BY <2>1, <2>4, <3>1, OwnWrites DEF writes
    <3>3. CmpHi' = Half - 1 /\ CmpLo' = CmpLo /\ alarm' = alarm
      BY <2>5, <3>2, AlarmHalves, Todo
    <3>4. Left = 3 /\ Left' = 2
      BY <2>3, <2>5, Todo
    <3>. QED BY <3>3, <3>4 DEF StageInv
  <2>6. CASE todo = LastOne
    <3>1. dphase = Compare(ADDR_MTIMECMP, Lo(setting))
      BY <1>2, <2>6 DEF WriteInv
    <3>2. writes(ADDR_MTIMECMP) /\ ~writes(ADDR_MTIMECMPH) /\ apbm_pwdata = Lo(setting)
      BY <2>1, <2>4, <3>1, OwnWrites DEF writes
    <3>3. CmpHi' = CmpHi /\ CmpLo' = Lo(setting')
      BY <2>2, <2>6, <3>2, AlarmHalves
    <3>4. Left = 2 /\ Left' = 1
      BY <2>3, <2>6, Todo
    <3>. QED BY <3>3, <3>4 DEF StageInv
  <2>7. CASE todo = <<>>
    <3>1. dphase = Compare(ADDR_MTIMECMPH, Hi(setting))
      BY <1>2, <2>7 DEF WriteInv
    <3>2. writes(ADDR_MTIMECMPH) /\ ~writes(ADDR_MTIMECMP) /\ apbm_pwdata = Hi(setting)
      BY <2>1, <2>4, <3>1, OwnWrites DEF writes
    <3>3. CmpHi' = Hi(setting') /\ CmpLo' = CmpLo /\ alarm' = setting'
      BY <1>2, <2>1, <2>2, <2>7, <3>2, AlarmHalves
    <3>4. Left = 1 /\ Left' = 0
      BY <2>3, <2>7, Todo
    <3>. QED BY <2>2, <3>3, <3>4 DEF StageInv
  <2>. QED BY <2>5, <2>6, <2>7 DEF WriteInv
<1>. QED BY <1>1, <1>2

LEMMA NextInv == IInv /\ [Tick]_vars => IInv'
<1>1. ASSUME IInv, Tick PROVE IInv'
  BY <1>1, BridgeMoves, AccessStep, RegisterStep, WriteStep, StageStep, ReadStep DEF IInv
<1>2. ASSUME IInv, UNCHANGED vars PROVE IInv'
  <2> USE <1>2 DEF vars, bridgeVars, timerVars, swVars
  <2>1. BridgeInv'
    BY DEF IInv, BridgeInv
  <2>2. AccessInv'
    BY DEF IInv, AccessInv
  <2>3. RegisterInv'
    BY DEF IInv, RegisterInv
  <2>4. WriteInv'
    BY DEF IInv, WriteInv, Writing, LastOne, LastTwo
  <2>5. StageInv'
    BY DEF IInv, StageInv, Left, Writing, CmpLo, CmpHi
  <2>6. ReadInv'
    BY DEF IInv, ReadInv, ReadBack, ReadsBack
  <2>. QED BY <2>1, <2>2, <2>3, <2>4, <2>5, <2>6 DEF IInv
<1>. QED BY <1>1, <1>2

LEMMA Invariant == Spec => []IInv
BY InitInv, NextInv, PTL DEF Spec
-----------------------------------------------------------------------------
LEMMA ImpliesInv == IInv => Inv
<1> SUFFICES ASSUME IInv PROVE Inv
  OBVIOUS
<1>1. Len(todo) <= 2
  BY Todo DEF IInv, WriteInv
<1>2. state \in 0 .. 2 /\ pready \in BOOLEAN
  BY DEF IInv, AccessInv
<1>3. apb_state \in BridgeState /\ apbm_pwdata \in 0 .. Half - 1 /\ ahbls_hrdata \in 0 .. Half - 1
  BY DEF IInv, BridgeInv, ReadInv, Halved
<1>4. alarm \in 0 .. Top /\ setting \in 0 .. Top
  BY DEF IInv, WriteInv
<1>5. /\ mtime \in 0 .. Top /\ mtimecmp \in [Hart -> 0 .. Top]
      /\ soft_irq \in [Hart -> {0, 1}] /\ timer_irq \in [Hart -> BOOLEAN]
      /\ written \in [Kept \cup Time -> 0 .. Half - 1]
  BY DEF IInv, RegisterInv, Halved
<1>6. TimeKept
  <2>1. /\ mtime = Half * Hi(mtime) + Lo(mtime) /\ Hi(mtime) \in Int /\ Half \in Int
        /\ written[ADDR_MTIME] = Lo(mtime) /\ written[ADDR_MTIMEH] = Hi(mtime)
    BY <1>5, Halves, Sizes DEF IInv, RegisterInv, Halved
  <2>2. Half * Hi(mtime) = Hi(mtime) * Half
    BY <2>1
  <2>. QED BY <2>1, <2>2 DEF TimeKept
<1>. QED BY <1>1, <1>2, <1>3, <1>4, <1>5, <1>6 DEF Inv, TypeOK, IInv, ReadInv

(* hazard3_riscv_timer.v:98: the time is what was written to its halves    *)
(* and the ticks since, a carry in the cycle of a write included; and :129,*)
(* every register that only writes change reads as it was written, whatever*)
(* else is accessed while the time passes (but for the high half of        *)
(* mtimecmp1, which the code reads elsewhere).                             *)
THEOREM RegistersReadBack == Spec => []Inv
BY Invariant, ImpliesInv, PTL

(* While an alarm is written the compare register is never below both the  *)
(* old alarm and the new one, and when nothing is left to write it is the  *)
(* alarm.                                                                  *)
LEMMA Compared ==
  ASSUME IInv
  PROVE  /\ Top - mtimecmp[0] \in 0 .. Top
         /\ Top - mtimecmp[0] >= alarm \/ Top - mtimecmp[0] >= setting
         /\ ~Setting => Top - mtimecmp[0] = alarm
<1> DEFINE c == mtimecmp[0]  x == Top - mtimecmp[0]
<1>1. c \in 0 .. Top /\ Lo(c) \in Halved /\ Hi(c) \in Halved /\ c = Half * Hi(c) + Lo(c)
  BY Halves DEF IInv, RegisterInv, Hart
<1>2. x \in 0 .. Top
  BY <1>1, Sizes
<1>3. CmpLo \in Halved /\ CmpHi \in Halved /\ x = CmpHi * Half + CmpLo
  <2>1. CmpLo = Half - 1 - Lo(c) /\ CmpHi = Half - 1 - Hi(c)
    BY DEF CmpLo, CmpHi
  <2>2. x = Half * Half - 1 - (Half * Hi(c) + Lo(c))
    BY <1>1, Sizes
  <2>3. CmpHi * Half = Half * Half - Half - Half * Hi(c)
    BY <1>1, <2>1, Sizes DEF Halved
  <2> HIDE DEF c, x
  <2>. QED BY <1>1, <2>1, <2>2, <2>3, Sizes DEF Halved
<1>4. Lo(x) = CmpLo /\ Hi(x) = CmpHi
  BY <1>3, Joined
<1>5. alarm \in 0 .. Top /\ setting \in 0 .. Top
  BY DEF IInv, WriteInv
<1> HIDE DEF x
<1>6. /\ Hi(x) = Half - 1 /\ Lo(x) = Lo(alarm) => x >= alarm
      /\ Hi(x) = Half - 1 /\ Lo(x) = Lo(setting) => x >= setting
      /\ Hi(x) = Hi(alarm) /\ Lo(x) = Lo(alarm) => x = alarm
      /\ Hi(x) = Hi(setting) /\ Lo(x) = Lo(setting) => x = setting
  BY <1>2, <1>5, ByHalves
<1>7. Left \in 0 .. 3
  BY Todo DEF Left, IInv, WriteInv
<1>8. StageInv
  BY DEF IInv
<1>9. alarm >= alarm /\ setting >= setting
  BY <1>5, Sizes
<1>10. x >= alarm \/ x >= setting
  <2>1. CASE Left = 3
    BY <1>4, <1>6, <1>8, <1>9, <2>1 DEF StageInv
  <2>2. CASE Left = 2
    BY <1>4, <1>6, <1>8, <2>2 DEF StageInv
  <2>3. CASE Left = 1
    BY <1>4, <1>6, <1>8, <2>3 DEF StageInv
  <2>4. CASE Left = 0
    BY <1>4, <1>6, <1>8, <1>9, <2>4 DEF StageInv
  <2>. QED BY <1>7, <2>1, <2>2, <2>3, <2>4
<1>11. ~Setting => x = alarm
  <2>1. ~Setting => Left = 0
    BY Todo DEF Setting, Left, Writing
  <2>. QED BY <1>4, <1>6, <1>8, <2>1 DEF StageInv
<1>. QED BY <1>2, <1>10, <1>11 DEF x

(* riscv_mtimer_set_mtimecmp (nuttx-patch-12.8.0.patch:3977): no interrupt *)
(* comes before the earlier of the old and the new alarm, and once the     *)
(* alarm is set it comes when the time is there, for halves of any size    *)
(* and whatever the other hart does.                                       *)
THEOREM AlarmNeitherEarlyNorLost == Spec => AlarmTrue
<1>1. ASSUME IInv, Tick
      PROVE  /\ timer_irq'[0] => mtime >= alarm \/ mtime >= setting
             /\ ~Setting /\ mtime >= alarm => timer_irq'[0]
  <2>1. timer_irq'[0] = Reached(0)
    BY <1>1 DEF Tick, Hart
  <2>2. mtime \in 0 .. Top /\ mtimecmp[0] \in 0 .. Top
    BY <1>1 DEF IInv, RegisterInv, Hart
  <2>3. alarm \in 0 .. Top /\ setting \in 0 .. Top
    BY <1>1 DEF IInv, WriteInv
  <2>4. Reached(0) <=> mtime >= Top - mtimecmp[0]
    BY <2>2, Sizes DEF Reached
  <2>. QED BY <2>1, <2>2, <2>3, <2>4, <1>1, Compared, Sizes
<1>2. IInv /\ [Tick]_vars =>
        [/\ timer_irq'[0] => mtime >= alarm \/ mtime >= setting
         /\ ~Setting /\ mtime >= alarm => timer_irq'[0]]_vars
  BY <1>1
<1>. QED BY <1>2, Invariant, PTL DEF Spec, AlarmTrue
=============================================================================
