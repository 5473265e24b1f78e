-------------------------- MODULE MemoryController --------------------------
(***************************************************************************)
(* mem/memory_controller.v: it passes a command to the sequencer in the    *)
(* very cycle it arrives, raises busy, and lowers it again by counting     *)
(* clock cycles: a read or a refresh is over when cycles = 4, a write once *)
(* wcycles >= 5 and the sequencer is not busy.  Nothing but the counting   *)
(* says that the sequencer is back in IDLE, and a command given to a       *)
(* sequencer that is not in IDLE is lost.                                  *)
(***************************************************************************)
EXTENDS Sdram

READ_CYCLES_early == 3   \* mutant
READ_CYCLES_late  == 5   \* mutant
READ_CYCLES  == 4    (* "Last read data a, available 4 cycles after read_a is set" *)
WRITE_CYCLES == 5
(* wcycles counts to 255 in the code and is only compared with 5.          *)
WCYCLES_MAX  == 5

(* The agreement between this counting and the sequences of sdram.v that   *)
(* the default timing parameters establish: 4 = 1 + 2 + 1, 4 and 1 + 2 + 1. *)
ASSUME LatencyAssumption ==
  /\ READ_LEN = 4
  /\ T_RC <= 4
  /\ WRITE_LEN \in 4 .. 14

VARIABLES
  mcBusy,       (* busy                                                    *)
  mcInit,       (* MemInitializing = ~mem_initialized                      *)
  mcPulse,      (* which of MemRD, MemWR, MemRefresh is high               *)
  mcAddr,       (* MemAddr                                                 *)
  mcDin,        (* MemDin                                                  *)
  mcCycles,     (* cycles                                                  *)
  mcWcycles,    (* wcycles                                                 *)
  mcOp,         (* which of is_read, is_write, is_refresh is high          *)
  mcReadA,      (* r_read_a                                                *)
  mcDa,         (* da: the last word read                                  *)
  fail          (* fail: timing mistake or sdram malfunction detected      *)

mcVars == <<mcBusy, mcInit, mcPulse, mcAddr, mcDin, mcCycles, mcWcycles,
            mcOp, mcReadA, mcDa, fail>>

Command == {"read", "write", "refresh", "none"}

McFlagsOK ==
  /\ mcBusy \in BOOLEAN /\ mcInit \in BOOLEAN
  /\ mcReadA \in BOOLEAN /\ fail \in BOOLEAN

McTypeOK ==
  /\ McFlagsOK
  /\ mcPulse \in Command /\ mcOp \in Command
  /\ mcAddr \in Addr /\ mcDin \in Word
  /\ mcCycles \in 0 .. 7 /\ mcWcycles \in 0 .. WCYCLES_MAX
  /\ mcDa \in Word \cup {Junk}

McInit ==
  /\ mcBusy = TRUE /\ mcInit = TRUE /\ fail = FALSE
  /\ mcPulse = "none" /\ mcOp = "none" /\ mcReadA = FALSE
  /\ mcAddr \in Addr /\ mcDin \in Word
  /\ mcCycles = 0 /\ mcWcycles = 0
  /\ mcDa = Junk

(* The inputs of the sequencer: the caller's while not busy, the captured  *)
(* ones afterwards.                                                        *)
ToSdram(cmd) == IF mcBusy THEN mcPulse ELSE cmd
ToSdramAddr(a) == IF mcBusy THEN mcAddr ELSE a
ToSdramDin(din) == IF mcBusy THEN mcDin ELSE din

Count ==
  /\ mcCycles' = Saturate(mcCycles, 7)
  /\ mcWcycles' = Saturate(mcWcycles, WCYCLES_MAX)

(* Idle with a command: capture it and become busy.                        *)
McStart(cmd, a, din) ==
  /\ ~mcBusy /\ cmd # "none"
  /\ mcBusy' = TRUE
  /\ mcPulse' = cmd /\ mcOp' = cmd
  /\ mcAddr' = a /\ mcDin' = din
  /\ mcCycles' = 1 /\ mcWcycles' = 1
  /\ mcReadA' = (cmd = "read")
  /\ UNCHANGED <<mcInit, mcDa, fail>>

McIdle(cmd) ==
  /\ ~mcBusy /\ cmd = "none"
  /\ mcPulse' = "none"
  /\ Count
  /\ UNCHANGED <<mcBusy, mcInit, mcAddr, mcDin, mcOp, mcReadA, mcDa, fail>>

(* Wait for the sequencer to configure the chip.                           *)
McInitialize ==
  /\ mcBusy /\ mcInit
  /\ mcInit' = sdBusy
  /\ mcBusy' = sdBusy
  /\ mcPulse' = "none"
  /\ Count
  /\ UNCHANGED <<mcAddr, mcDin, mcOp, mcReadA, mcDa, fail>>

Finished ==
  \/ mcCycles = READ_CYCLES /\ mcOp \in {"read", "refresh"}
  \/ mcWcycles >= WRITE_CYCLES /\ mcOp = "write" /\ ~sdBusy

McFinish ==
  /\ mcBusy /\ ~mcInit /\ Finished
  /\ mcBusy' = FALSE
  /\ fail' = (fail \/ (mcReadA /\ ~sdReady))
  /\ mcDa' = IF mcReadA THEN dq ELSE mcDa
  /\ mcReadA' = FALSE
  /\ mcPulse' = "none"
  /\ Count
  /\ UNCHANGED <<mcInit, mcAddr, mcDin, mcOp>>

McWait ==
  /\ mcBusy /\ ~mcInit /\ ~Finished
  /\ mcPulse' = "none"
  /\ Count
  /\ UNCHANGED <<mcBusy, mcInit, mcAddr, mcDin, mcOp, mcReadA, mcDa, fail>>

(* dout_a: the bus itself in the cycle the data arrives, then the copy.    *)
DoutA == IF mcCycles = READ_CYCLES /\ mcReadA THEN dq ELSE mcDa

(* One clock edge of the controller and the sequencer under it.            *)
McTick(cmd, a, din, ctrl) ==
  /\ \/ McStart(cmd, a, din)
     \/ McIdle(cmd)
     \/ McInitialize
     \/ McFinish
     \/ McWait
  /\ LET c == ToSdram(cmd)
     IN  SdTick(c = "read", c = "write", c = "refresh",
                ToSdramAddr(a), ToSdramDin(din), ctrl)
=============================================================================
