-------------------------------- MODULE Timer --------------------------------
(***************************************************************************)
(* soc/peri/hazard3_riscv_timer.v behind the bridge: the interrupts        *)
(* between the harts, the time, and a compare register for each hart.      *)
(* Registers of 64 bits are accessed by halves, which hold Half values:    *)
(* 2^32 in the code.                                                       *)
(*                                                                         *)
(* The harts issue the transfers Other; besides, hart 0 sets its alarm as  *)
(* riscv_mtimer_set_mtimecmp does (src/nuttx-patch-12.8.0.patch:3977).     *)
(***************************************************************************)
EXTENDS ApbBridge, Sequences

CONSTANTS Half,
          Dev,        \* the timer
          Other,      \* transfers that harts issue at any time
          Alarm       \* the alarms that hart 0 sets

ASSUME TimerAssumption == Half \in Nat \ {0, 1}

Double == Half * Half
Top    == Double - 1
Lo(x)  == x % Half
Hi(x)  == x \div Half
SetLo(x, v) == Hi(x) * Half + v
SetHi(x, v) == v * Half + Lo(x)

Hart == {0, 1}

ADDR_IPI       == 0
ADDR_MTIME     == 8
ADDR_MTIMEH    == 12
ADDR_MTIMECMP  == 16
ADDR_MTIMECMPH == 20

VARIABLES
  mtime, mtimecmp,       \* mtimecmp is stored inverted, by hart
  soft_irq, timer_irq,   \* by hart
  state, pready,
  alarm,                 \* hart 0: the alarm it has set
  setting,               \* the alarm it is setting
  todo,                  \* the writes of that are left to issue
  written                \* history: what was last written to a register, and
                         \* for a half of the time, the ticks since added to it

timerVars == <<mtime, mtimecmp, soft_irq, timer_irq, state, pready>>
swVars    == <<alarm, setting, todo>>
vars      == <<bridgeVars, timerVars, swVars, written>>

(* The registers that only a write changes.                                *)
Kept == {ADDR_IPI + 4 * h : h \in Hart} \cup {ADDR_MTIMECMP + 8 * h : h \in Hart}
        \cup {ADDR_MTIMECMPH + 8 * h : h \in Hart}
Time == {ADDR_MTIME, ADDR_MTIMEH}

Init ==
  /\ BridgeInit(0)
  /\ mtime = 0 /\ mtimecmp = [h \in Hart |-> 0]
  /\ soft_irq = [h \in Hart |-> 0] /\ timer_irq = [h \in Hart |-> FALSE]
  /\ state = 0 /\ pready = FALSE
  /\ alarm = Top /\ setting = Top /\ todo = <<>>
  /\ written = [r \in Kept \cup Time |-> IF r < ADDR_MTIMECMP THEN 0 ELSE Half - 1]
-----------------------------------------------------------------------------
writes(r) == bus_write(Dev) /\ dphase.reg = r

(* The harts: a transfer of Other, or the next write of the alarm.  The    *)
(* high half is first set to all ones, so that no mixture of the old and   *)
(* the new alarm is earlier than both.                                     *)
Compare(r, v) == [dev |-> Dev, reg |-> r, write |-> TRUE, data |-> v]
set_mtimecmp_unsafe(v) ==      \* mutant: without the first write
  <<Compare(ADDR_MTIMECMP, Lo(v)), Compare(ADDR_MTIMECMPH, Hi(v))>>
set_mtimecmp(v) ==
  <<Compare(ADDR_MTIMECMPH, Half - 1),
    Compare(ADDR_MTIMECMP, Lo(v)), Compare(ADDR_MTIMECMPH, Hi(v))>>

(* A hart writes words, and the compare register of hart 0 is written by    *)
(* set_mtimecmp only.                                                      *)
ASSUME TransferAssumption ==
  /\ Dev # NoDevice /\ NoTransfer \notin Transfer
  /\ \A t \in Transfer : t.write \in BOOLEAN /\ (t.write => t.data \in 0 .. Half - 1)
  /\ \A t \in Other : t.dev = Dev /\ t.write => t.reg \notin {ADDR_MTIMECMP, ADDR_MTIMECMPH}
ASSUME AlarmAssumption ==
  /\ Alarm \subseteq 0 .. Top
  /\ \A v \in Alarm : \A k \in 1 .. Len(set_mtimecmp(v)) : set_mtimecmp(v)[k] \in Transfer

Setting == todo # <<>> \/ dphase \notin Other \cup {NoTransfer}

SoftwareStep ==
  /\ \/ /\ dphase' \in Other \cup {NoTransfer} \/ ~ahbls_hready_resp
        /\ UNCHANGED <<setting, todo>>
     \/ /\ ahbls_hready_resp /\ todo # <<>>
        /\ dphase' = Head(todo) /\ todo' = Tail(todo) /\ UNCHANGED setting
     \/ /\ ahbls_hready_resp /\ ~Setting
        /\ \E v \in Alarm :
             /\ setting' = v /\ dphase' = Head(set_mtimecmp(v))
             /\ todo' = Tail(set_mtimecmp(v))
  /\ alarm' = IF bus_write(Dev) /\ dphase \notin Other /\ todo = <<>>
              THEN setting ELSE alarm

(* The history.  The halves of the time are two counters of their own: the *)
(* low one counts ticks and the high one carries of the low, each but in    *)
(* the cycle in which it is written.                                       *)
Counts(r) == IF r = ADDR_MTIME THEN 1
             ELSE IF r = ADDR_MTIMEH /\ written[ADDR_MTIME] = Half - 1 THEN 1 ELSE 0
HistoryStep(tick) ==
  written' = [r \in Kept \cup Time |->
    IF writes(r) THEN IF r < ADDR_MTIME /\ apbm_pwdata # 0 THEN 1 ELSE apbm_pwdata
    ELSE IF tick THEN (written[r] + Counts(r)) % Half ELSE written[r]]

(* The timer.                                                              *)
SoftIrqAfter(h) ==
  IF writes(ADDR_IPI + 4 * h) /\ state = 0
  THEN IF apbm_pwdata = 0 THEN 0 ELSE 1
  ELSE soft_irq[h]

MtimeAfter_held(tick) ==     \* mutant: a write holds the whole counter
  IF writes(ADDR_MTIME) THEN SetLo(mtime, apbm_pwdata)
  ELSE IF writes(ADDR_MTIMEH) THEN SetHi(mtime, apbm_pwdata)
  ELSE IF tick THEN (mtime + 1) % Double ELSE mtime
MtimeAfter(tick) ==
  LET t == IF tick THEN (mtime + 1) % Double ELSE mtime
  IN  IF writes(ADDR_MTIME) THEN SetLo(t, apbm_pwdata)
      ELSE IF writes(ADDR_MTIMEH) THEN SetHi(t, apbm_pwdata) ELSE t

MtimecmpAfter_both(h) ==    \* mutant: a write of the high half clears the low
  LET inverted == Half - 1 - apbm_pwdata
  IN  IF writes(ADDR_MTIMECMP + 8 * h) THEN SetLo(mtimecmp[h], inverted)
      ELSE IF writes(ADDR_MTIMECMPH + 8 * h) THEN inverted * Half
      ELSE mtimecmp[h]
MtimecmpAfter(h) ==
  LET inverted == Half - 1 - apbm_pwdata
  IN  IF writes(ADDR_MTIMECMP + 8 * h) THEN SetLo(mtimecmp[h], inverted)
      ELSE IF writes(ADDR_MTIMECMPH + 8 * h) THEN SetHi(mtimecmp[h], inverted)
      ELSE mtimecmp[h]

(* The carry of the 64-bit sum.                                            *)
Reached(h) == mtime + mtimecmp[h] + 1 >= Double

prdata(r) ==
  CASE \E h \in Hart : r = ADDR_IPI + 4 * h -> soft_irq[r \div 4]
    [] r = ADDR_MTIME          -> Lo(mtime)
    [] r = ADDR_MTIMEH         -> Hi(mtime)
    [] r = ADDR_MTIMECMP       -> Half - 1 - Lo(mtimecmp[0])
    [] r = ADDR_MTIMECMPH      -> Half - 1 - Hi(mtimecmp[0])
    [] r = ADDR_MTIMECMP + 8   -> Half - 1 - Lo(mtimecmp[1])
    [] r = ADDR_MTIMECMPH + 12 -> Half - 1 - Hi(mtimecmp[1])
    [] OTHER                   -> 0

(* An access is answered in the next cycle, once.                          *)
ReadyTick ==
  LET access == bus_read(Dev) \/ bus_write(Dev)
  IN  /\ pready' = (state = 0 /\ access)
      /\ state' = IF state = 0 /\ access THEN IF dphase.write THEN 2 ELSE 1
                  ELSE IF (state = 1 /\ ~bus_read(Dev)) \/ (state = 2 /\ ~bus_write(Dev)) THEN 0
                  ELSE state

Tick ==
  /\ BridgeTick(pready /\ dphase.dev = Dev,
                IF bus_read(Dev) THEN prdata(dphase.reg) ELSE 0)
  /\ SoftwareStep
  /\ soft_irq' = [h \in Hart |-> SoftIrqAfter(h)]
  /\ \E tick \in BOOLEAN : mtime' = MtimeAfter(tick) /\ HistoryStep(tick)
  /\ mtimecmp' = [h \in Hart |-> MtimecmpAfter(h)]
  /\ timer_irq' = [h \in Hart |-> Reached(h)]
  /\ ReadyTick

Spec == Init /\ [][Tick]_vars
-----------------------------------------------------------------------------
TypeOK ==
  /\ apb_state \in BridgeState
  /\ apbm_pwdata \in 0 .. Half - 1 /\ ahbls_hrdata \in 0 .. Half - 1
  /\ mtime \in 0 .. Top /\ mtimecmp \in [Hart -> 0 .. Top]
  /\ soft_irq \in [Hart -> {0, 1}] /\ timer_irq \in [Hart -> BOOLEAN]
  /\ state \in 0 .. 2 /\ pready \in BOOLEAN
  /\ alarm \in 0 .. Top /\ setting \in 0 .. Top /\ Len(todo) <= 2
  /\ written \in [Kept \cup Time -> 0 .. Half - 1]

(* While hart 0 sets a new alarm, no interrupt comes before the earlier of *)
(* the old one and the new one; once it is set, the interrupt comes when   *)
(* the time reaches it.                                                    *)
AlarmTrue ==
  [][/\ timer_irq'[0] => mtime >= alarm \/ mtime >= setting
     /\ ~Setting /\ mtime >= alarm => timer_irq'[0]]_vars

(* A read of a register that only writes change returns what was written.  *)
ReadsBack(R) ==
  apb_state = "RD2" /\ dphase.dev = Dev /\ dphase.reg \in R
    => ahbls_hrdata = written[dphase.reg]
ReadBack == ReadsBack(Kept \ {ADDR_MTIMECMPH + 8})

(* The time is what was last written to its halves and every tick since,   *)
(* but those of the cycles in which the low half is written: a carry that   *)
(* falls in such a cycle is not lost to the high half, nor does a write of *)
(* one half take or give the other a tick (hazard3_riscv_timer.v:98-100).  *)
TimeKept == mtime = written[ADDR_MTIMEH] * Half + written[ADDR_MTIME]

(* What every state of hazard3_riscv_timer.v owes: the halves stay halves, *)
(* whatever is written while the time passes, the time keeps the ticks,    *)
(* and the other registers read back.                                      *)
Inv == TypeOK /\ TimeKept /\ ReadBack

(* hazard3_riscv_timer.v:11 "Basic implementation of standard 64-bit       *)
(* RISC-V timer": all halves of mtimecmp can be read.                      *)
(* It does not hold: the high half of mtimecmp1 reads at ... + 12.         *)
ReadBackAll == ReadsBack(Kept)
=============================================================================
