------------------------------- MODULE Sdram -------------------------------
(***************************************************************************)
(* The SDRAM command sequencer (mem/sdram.v) and the cells of the chip it  *)
(* drives.  One step of this module is one rising edge of clk; the inputs  *)
(* of the Verilog module are the parameters of SdTick, read in the cycle   *)
(* that the edge ends.                                                     *)
(*                                                                         *)
(* An address is a <<row, column>> pair (the bank is part of the row): the *)
(* sequencer sends the row with BankActivate and the column one command    *)
(* later, so the two halves are read from the address input in different   *)
(* cycles.  A word is a function from byte lanes to values.                *)
(***************************************************************************)
EXTENDS Naturals

CONSTANTS
  Row,       (* rows (bank included) of the chip                            *)
  Col,       (* columns of a row                                            *)
  Lane,      (* byte lanes of a word                                        *)
  Val,       (* values of a byte                                            *)
  RST_CNT,   (* power-on delay in cycles, FREQ / 1000 * 200 / 1000          *)
  CFG_LEN,   (* length of the configuration, T_RP + T_RC + T_RC + T_MRD     *)
  T_RCD,     (* active to read/write                                        *)
  CAS,       (* read command to data                                        *)
  T_WR,      (* write recovery                                              *)
  T_RP,      (* precharge to active                                         *)
  T_RC,      (* refresh/active to refresh/active                            *)
  Junk       (* what the data bus carries when nobody drives it             *)

Addr == Row \X Col
Word == [Lane -> Val]

(* The two instants the memory controller relies on.                       *)
READ_LEN  == T_RCD + CAS + 1
WRITE_LEN == T_RCD + T_WR + T_RP

ASSUME DataAssumption ==
  /\ Row # {} /\ Col # {} /\ Val # {}
  /\ Junk \notin Word

ASSUME TimingAssumption ==
  /\ RST_CNT \in Nat
  /\ CFG_LEN \in 0 .. 14
  /\ T_RCD \in Nat \ {0} /\ CAS \in Nat \ {0}
  /\ T_WR \in Nat \ {0} /\ T_RP \in Nat \ {0}
  /\ T_RC \in Nat \ {0}

VARIABLES
  sdState,     (* INIT, CONFIG, IDLE, READ, WRITE, REFRESH                 *)
  sdCycle,     (* cycle: position inside the current sequence              *)
  sdRst,       (* rst_cnt: cycles since reset was released                 *)
  sdBusy,      (* busy                                                     *)
  sdReady,     (* data_ready                                               *)
  sdSel,       (* what SDRAM_BA and SDRAM_A last selected: <<row, column>> *)
  dq,          (* the data bus                                             *)
  mem          (* the cells                                                *)

sdVars == <<sdState, sdCycle, sdRst, sdBusy, sdReady, sdSel, dq, mem>>

SdFlagsOK == sdBusy \in BOOLEAN /\ sdReady \in BOOLEAN

SdTypeOK ==
  /\ SdFlagsOK
  /\ sdState \in {"INIT", "CONFIG", "IDLE", "READ", "WRITE", "REFRESH"}
  /\ sdCycle \in 0 .. 15
  /\ sdRst \in 0 .. RST_CNT
  /\ sdSel \in Addr
  /\ dq \in Word \cup {Junk}
  /\ mem \in [Addr -> Word]

SdInit ==
  /\ sdState = "INIT" /\ sdCycle = 0 /\ sdRst = 0
  /\ sdBusy = TRUE /\ sdReady = FALSE
  /\ sdSel \in Addr
  /\ dq = Junk
  /\ mem \in [Addr -> Word]

(* A counter that stops at its largest value.                              *)
Saturate(n, max) == IF n = max THEN max ELSE n + 1

(* A write with the byte lanes of ctrl enabled.                            *)
Merge(old, new, ctrl) == [l \in Lane |-> IF l \in ctrl THEN new[l] ELSE old[l]]

Advance == sdCycle' = Saturate(sdCycle, 15)

(* Power-on delay; cfg_now ends it.                                        *)
SdPowerOn ==
  /\ sdState = "INIT"
  /\ \/ /\ sdRst < RST_CNT
        /\ sdRst' = sdRst + 1
        /\ Advance
        /\ UNCHANGED sdState
     \/ /\ sdRst = RST_CNT
        /\ sdState' = "CONFIG"
        /\ sdCycle' = 0
        /\ UNCHANGED sdRst
  /\ dq' = Junk
  /\ UNCHANGED <<sdBusy, sdReady, sdSel, mem>>

(* Precharge all, two refreshes and the mode register, then ready.         *)
SdConfigure ==
  /\ sdState = "CONFIG"
  /\ \/ /\ sdCycle = CFG_LEN
        /\ sdState' = "IDLE"
        /\ sdBusy' = FALSE
     \/ /\ sdCycle # CFG_LEN
        /\ UNCHANGED <<sdState, sdBusy>>
  /\ Advance
  /\ dq' = Junk
  /\ UNCHANGED <<sdRst, sdReady, sdSel, mem>>

(* A command is only looked at in IDLE; rd wins over wr, both over refresh. *)
SdIdle(rd, wr, refresh, a) ==
  /\ sdState = "IDLE"
  /\ \/ /\ rd \/ wr
        /\ sdState' = IF rd THEN "READ" ELSE "WRITE"
        /\ sdSel' = <<a[1], sdSel[2]>>
        /\ sdCycle' = 1
        /\ sdBusy' = TRUE
     \/ /\ ~rd /\ ~wr /\ refresh
        /\ sdState' = "REFRESH"
        /\ sdCycle' = 1
        /\ sdBusy' = TRUE
        /\ UNCHANGED sdSel
     \/ /\ ~rd /\ ~wr /\ ~refresh
        /\ Advance
        /\ UNCHANGED <<sdState, sdSel, sdBusy>>
  /\ dq' = Junk
  /\ UNCHANGED <<sdRst, sdReady, mem>>

(* Read command at T_RCD; the chip drives the bus CAS cycles later, for    *)
(* the one cycle in which data_ready is high.                              *)
SdRead(a) ==
  /\ sdState = "READ"
  /\ sdSel' = IF sdCycle = T_RCD THEN <<sdSel[1], a[2]>> ELSE sdSel
  /\ \/ /\ sdCycle = T_RCD + CAS
        /\ sdReady' = TRUE
        /\ dq' = mem[sdSel]
        /\ UNCHANGED <<sdState, sdBusy>>
     \/ /\ sdCycle = READ_LEN
        /\ sdReady' = FALSE
        /\ dq' = Junk
        /\ sdState' = "IDLE"
        /\ sdBusy' = FALSE
     \/ /\ sdCycle \notin {T_RCD + CAS, READ_LEN}
        /\ dq' = Junk
        /\ UNCHANGED <<sdState, sdBusy, sdReady>>
  /\ Advance
  /\ UNCHANGED <<sdRst, mem>>

(* Write command with its data and byte mask at T_RCD, then the recovery.  *)
SdWrite(a, din, ctrl) ==
  /\ sdState = "WRITE"
  /\ \/ /\ sdCycle = T_RCD
        /\ LET cell == <<sdSel[1], a[2]>>
           IN  /\ sdSel' = cell
               /\ mem' = [mem EXCEPT ![cell] = Merge(@, din, ctrl)]
        /\ UNCHANGED <<sdState, sdBusy>>
     \/ /\ sdCycle = WRITE_LEN
        /\ sdState' = "IDLE"
        /\ sdBusy' = FALSE
        /\ UNCHANGED <<sdSel, mem>>
     \/ /\ sdCycle \notin {T_RCD, WRITE_LEN}
        /\ UNCHANGED <<sdState, sdBusy, sdSel, mem>>
  /\ Advance
  /\ dq' = Junk
  /\ UNCHANGED <<sdRst, sdReady>>

SdRefresh ==
  /\ sdState = "REFRESH"
  /\ \/ /\ sdCycle = T_RC
        /\ sdState' = "IDLE"
        /\ sdBusy' = FALSE
     \/ /\ sdCycle # T_RC
        /\ UNCHANGED <<sdState, sdBusy>>
  /\ Advance
  /\ dq' = Junk
  /\ UNCHANGED <<sdRst, sdReady, sdSel, mem>>

(* One clock edge of the sequencer with the given inputs.                  *)
SdTick(rd, wr, refresh, a, din, ctrl) ==
  \/ SdPowerOn
  \/ SdConfigure
  \/ SdIdle(rd, wr, refresh, a)
  \/ SdRead(a)
  \/ SdWrite(a, din, ctrl)
  \/ SdRefresh
=============================================================================
