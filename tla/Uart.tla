-------------------------------- MODULE Uart --------------------------------
(***************************************************************************)
(* peris/uart/uart_mini.v behind the bridge: a write is answered when its  *)
(* character has been sent.  The receiver at the other end of the line is  *)
(* ideal: it times the bits from the edge of the start bit and samples     *)
(* each in its middle.                                                     *)
(***************************************************************************)
EXTENDS ApbBridge, Sequences

CONSTANTS SERIAL_WCNT,   \* cycles per bit
          NBITS,         \* 8 in the code
          Dev            \* the UART

ASSUME UartAssumption == SERIAL_WCNT \in Nat \ {0, 1} /\ NBITS \in Nat \ {0}
ASSUME DevAssumption  == Dev # NoDevice

VARIABLES
  state, r_tx_ready, r_uart_we, r_uart_data,  \* uart_mini
  TXD, READY, cmd, waitnum, cnt,              \* UartTx
  rxage, rxbits,         \* the receiver: cycles since the start edge, bits
  pending                \* characters written and not yet received

txVars   == <<TXD, READY, cmd, waitnum, cnt>>
miniVars == <<state, r_tx_ready, r_uart_we, r_uart_data>>
rxVars   == <<rxage, rxbits, pending>>
vars     == <<bridgeVars, miniVars, txVars, rxVars>>

Char == [1 .. NBITS -> {0, 1}]
Zero == [i \in 1 .. NBITS |-> 0]
Ones == [i \in 1 .. NBITS + 1 |-> 1]

ASSUME TransferAssumption == \A t \in Transfer : t.write => t.data \in Char

Init ==
  /\ BridgeInit(Zero)
  /\ state = 0 /\ r_tx_ready = FALSE /\ r_uart_we = FALSE /\ r_uart_data = Zero
  /\ TXD = 1 /\ READY = TRUE /\ cmd = Ones /\ waitnum = 0 /\ cnt = 0
  /\ rxage = 0 /\ rxbits = <<>> /\ pending = <<>>
-----------------------------------------------------------------------------
w_tx_ready == READY
wr_cmd     == bus_write(Dev)

(* uart_mini: a character is taken in state 0, given to the transmitter in *)
(* state 1 and awaited in state 2; then the write is answered.  A read is  *)
(* never answered.                                                         *)
Taken      == state = 0 /\ wr_cmd /\ w_tx_ready
Given      == state = 1 /\ ~w_tx_ready
Sent_early == state = 2 /\ ~wr_cmd      \* mutant: answered while it is sent
Sent       == state = 2 /\ w_tx_ready /\ ~wr_cmd
MiniTick ==
  /\ r_uart_data' = IF Taken THEN apbm_pwdata ELSE r_uart_data
  /\ r_uart_we'   = (Taken \/ (r_uart_we /\ ~Given))
  /\ r_tx_ready'  = (Sent \/ (r_tx_ready /\ ~(state = 0 /\ ~wr_cmd)))
  /\ state' = IF Taken THEN 1 ELSE IF Given THEN 2 ELSE IF Sent THEN 0 ELSE state

(* UartTx: the start bit, the character from its lowest bit, the stop bit. *)
FrameBits_short == NBITS + 1      \* mutant: no stop bit
FrameBits       == NBITS + 2
TxTick ==
  LET load  == READY /\ r_uart_we
      shift == ~READY /\ waitnum >= SERIAL_WCNT
  IN  /\ TXD' = IF READY THEN 1 ELSE IF shift THEN cmd[1] ELSE TXD
      /\ READY' = IF READY THEN ~r_uart_we ELSE shift /\ cnt = 1
      /\ cmd' = IF load THEN <<0>> \o r_uart_data
                ELSE IF shift THEN Append(Tail(cmd), 1) ELSE cmd
      /\ waitnum' = IF READY THEN 0 ELSE IF shift THEN 1 ELSE waitnum + 1
      /\ cnt' = IF load THEN FrameBits ELSE IF shift THEN cnt - 1 ELSE cnt

(* The receiver.                                                           *)
Middle(k) == rxage = k * SERIAL_WCNT + SERIAL_WCNT \div 2
Framed    == Middle(NBITS + 1)
RxTick ==
  /\ rxage' = IF Framed \/ (rxage = 0 /\ TXD = 1) THEN 0 ELSE rxage + 1
  /\ rxbits' = IF rxage = 0 THEN <<>>
               ELSE IF \E k \in 1 .. NBITS : Middle(k) THEN Append(rxbits, TXD)
               ELSE rxbits
  /\ pending' =
       LET left == IF Framed /\ pending # <<>> THEN Tail(pending) ELSE pending
       IN  IF wr_cmd THEN Append(left, apbm_pwdata) ELSE left

Tick ==
  /\ BridgeTick(r_tx_ready /\ dphase.dev = Dev, 0)
  /\ MiniTick /\ TxTick /\ RxTick

Spec     == Init /\ [][Tick]_vars
FairSpec == Spec /\ WF_vars(Tick)
-----------------------------------------------------------------------------
TypeOK ==
  /\ apb_state \in BridgeState /\ dphase \in Transfer \cup {NoTransfer}
  /\ apbm_pwdata \in Char \cup {Zero} /\ ahbls_hrdata = 0
  /\ state \in 0 .. 2 /\ r_tx_ready \in BOOLEAN /\ r_uart_we \in BOOLEAN
  /\ r_uart_data \in Char
  /\ TXD \in {0, 1} /\ READY \in BOOLEAN /\ cmd \in [1 .. NBITS + 1 -> {0, 1}]
  /\ waitnum \in 0 .. SERIAL_WCNT /\ cnt \in 0 .. NBITS + 2
  /\ rxage \in 0 .. (NBITS + 2) * SERIAL_WCNT
  /\ Len(rxbits) <= NBITS /\ Len(pending) <= 2

(* The receiver reads the characters that were written, in their order,    *)
(* each with its stop bit.                                                 *)
ReceivedAsWritten ==
  Framed => TXD = 1 /\ pending # <<>> /\ rxbits = Head(pending)

(* Of what every state owes: bridge, UART and receiver stay in their       *)
(* ranges, and what the receiver reads is what uart_mini.v was given.      *)
Inv == TypeOK /\ ReceivedAsWritten

(* A write is only offered when the UART can take it: it is offered for    *)
(* one cycle, and the bridge would wait for an answer for ever.            *)
OfferedWhenReady == wr_cmd => state = 0 /\ w_tx_ready

(* No character stays in the UART.                                         *)
EveryCharacterArrives ==
  \A n \in 1 .. 2 : Len(pending) = n ~> (pending = <<>> \/ Framed)

(* The strengthening of OfferedWhenReady: the UART is at work, or answers, *)
(* only while the bridge waits for it with a write.                        *)
BridgeInv ==
  /\ apb_state \in BridgeState
  /\ apb_state \in {"RD0", "RD1"} => ~dphase.write
  /\ apb_state \in {"WR0", "WR1", "WR2"} => dphase.write
Awaited == apb_state = "WR2" /\ dphase.dev = Dev
MiniInv ==
  /\ state \in 0 .. 2
  /\ state # 0 => Awaited /\ ~r_tx_ready
  /\ state = 0 => READY /\ ~r_uart_we /\ (r_tx_ready => Awaited) /\ (Awaited => r_tx_ready)
  /\ state = 2 => ~r_uart_we
OfferInv == BridgeInv /\ MiniInv

(* The strengthening of Inv.  What the line carries is the character in    *)
(* r_uart_data from its start bit on, each bit SERIAL_WCNT cycles, and the *)
(* receiver keeps step with it; its stop bit is over before the start bit  *)
(* of the next can come.                                                   *)
Waiting   == READY \/ cnt = NBITS + 2      \* no start bit on the line
Bit       == NBITS + 1 - cnt               \* the bit on the line, 0 to start
BitsRead  == IF Bit = 0 THEN 0
             ELSE IF waitnum > SERIAL_WCNT \div 2 + 1 THEN Bit ELSE Bit - 1
StopEdge  == (NBITS + 1) * SERIAL_WCNT
Stopping  == rxage >= StopEdge             \* all bits are read, but the stop
InWork    == state = 1 \/ ~READY           \* the character is not yet sent
Frame     == <<0>> \o r_uart_data
ShiftInv ==
  ~READY => /\ cnt \in 1 .. NBITS + 2
            /\ cmd = [i \in 1 .. NBITS + 1 |->
                        IF i + (NBITS + 2 - cnt) <= NBITS + 1
                        THEN Frame[i + (NBITS + 2 - cnt)] ELSE 1]
WaitInv ==
  Waiting => /\ TXD = 1
             /\ rxage = 0 \/ rxage \in StopEdge .. StopEdge + SERIAL_WCNT \div 2
             /\ ~READY /\ rxage # 0 => rxage > StopEdge + waitnum
SendInv ==
  ~Waiting => /\ waitnum \in 1 .. SERIAL_WCNT
              /\ rxage = Bit * SERIAL_WCNT + (waitnum - 1)
              /\ TXD = Frame[Bit + 1]
              /\ rxage # 0 => rxbits = [i \in 1 .. BitsRead |-> r_uart_data[i]]
ReadInv ==
  /\ Stopping => rxbits \in Char
  /\ pending = (IF Stopping THEN <<rxbits>> ELSE <<>>)
               \o (IF InWork THEN <<r_uart_data>> ELSE <<>>)
DataInv ==
  /\ apb_state = "WR0" => dphase \in Transfer
  /\ state = 1 => r_uart_we
LineInv == TypeOK /\ DataInv /\ ShiftInv /\ WaitInv /\ SendInv /\ ReadInv
=============================================================================
