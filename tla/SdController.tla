---------------------------- MODULE SdController ----------------------------
(***************************************************************************)
(* sd/sd_spi.vhd, of which sd_spi.v is generated: the controller that      *)
(* drives the SD card over SPI, and the card.                              *)
(*                                                                         *)
(* A state is one clock cycle.  The exchange of bytes with the card        *)
(* (SEND_RCV, SEND_CMD) takes any number of cycles: in the states that     *)
(* stand for an exchange the controller stays, or moves on.  In IDLE2 and  *)
(* at the handshakes with the host every cycle is as in the code.          *)
(***************************************************************************)
EXTENDS Naturals, Sequences

CONSTANTS
  Block, Byte,
  BLOCKSIZE,    \* bytes of a block: 512 in the code
  Content,      \* what a block holds at first
  Faults        \* what may go wrong: a subset of Fault

Fault == {"NoR1",     \* the card does not answer a command
          "R1",       \* it answers a command with an error
          "Token",    \* it sends an error token instead of data
          "CRC",      \* data read from it are corrupted
          "Response"} \* it does not accept data, or does not finish in time

ASSUME SdAssumption ==
  /\ BLOCKSIZE \in Nat \ {0} /\ Faults \subseteq Fault
  /\ 0 \in Block /\ 0 \in Byte /\ Content \subseteq [0 .. BLOCKSIZE - 1 -> Byte]

Index == 0 .. BLOCKSIZE - 1

VARIABLES
  cst,                       \* the state
  sd_busy, sd_error,
  address, byte_counter,
  dout, dout_avail,
  din_taken, din_latch, last_din_valid,
  corrupt,                   \* in_crc16 is not zero, or out_crc16 is wrong
  wbuf,                      \* the bytes that the card has received
  card

ctrlVars == <<cst, sd_busy, sd_error, address, byte_counter, dout, dout_avail,
              din_taken, din_latch, last_din_valid, corrupt, wbuf, card>>

Moving == {"INIT", "IDLE", "READ_CMD", "READ_WAIT", "READ_DATA", "READ_CRC",
           "WRITE_CMD", "WRITE_BYTE", "WRITE_RESPONSE", "WRITE_WAIT"}
CtrlState == Moving \cup {"IDLE2", "READ_FINISH", "WRITE_DATA", "WRITE_FINISH", "NO_R1"}

CtrlInit ==
  /\ cst = "INIT" /\ sd_busy = TRUE /\ sd_error = TRUE
  /\ address = 0 /\ byte_counter = 0
  /\ dout = 0 /\ dout_avail = FALSE
  /\ din_taken = FALSE /\ din_latch = FALSE /\ last_din_valid = FALSE
  /\ corrupt = FALSE /\ wbuf = <<>>
  /\ card \in [Block -> Content]

CtrlTypeOK ==
  /\ cst \in CtrlState /\ sd_busy \in BOOLEAN /\ sd_error \in BOOLEAN
  /\ address \in Block /\ byte_counter \in 0 .. BLOCKSIZE
  /\ dout \in Byte /\ dout_avail \in BOOLEAN
  /\ din_taken \in BOOLEAN /\ din_latch \in BOOLEAN /\ last_din_valid \in BOOLEAN
  /\ corrupt \in BOOLEAN /\ Len(wbuf) <= BLOCKSIZE
  /\ card \in [Block -> [Index -> Byte]]
-----------------------------------------------------------------------------
(* What a move leaves alone unless it says otherwise.                      *)
Keep == UNCHANGED <<address, byte_counter, corrupt, wbuf, card>>

GoTo(s)   == cst' = s /\ UNCHANGED sd_error
Fail(f, s) == f \in Faults /\ cst' = s /\ sd_error' = TRUE

(* INIT to CMD59R1: the card is initialised.                               *)
Initialise(rd, wr) ==
  /\ cst = "INIT" /\ Keep
  /\ \/ ~rd /\ ~wr /\ cst' = "IDLE" /\ sd_error' = FALSE
     \/ Fail("NoR1", "NO_R1")

(* A command is taken in IDLE2, with its address.                          *)
Accept(rd, wr, addr) ==
  /\ cst = "IDLE2" /\ (rd \/ wr)
  /\ cst' = IF rd THEN "READ_CMD" ELSE "WRITE_CMD"
  /\ sd_error' = FALSE /\ address' = addr
  /\ UNCHANGED <<byte_counter, corrupt, wbuf, card>>

Command ==
  /\ cst \in {"READ_CMD", "WRITE_CMD"} /\ UNCHANGED <<address, card>>
  /\ \/ /\ GoTo(IF cst = "READ_CMD" THEN "READ_WAIT" ELSE "WRITE_DATA")
        /\ byte_counter' = BLOCKSIZE /\ corrupt' = FALSE /\ wbuf' = <<>>
     \/ /\ \/ Fail("R1", IF cst = "READ_CMD" THEN "READ_FINISH" ELSE "WRITE_FINISH")
           \/ Fail("NoR1", "NO_R1")
        /\ UNCHANGED <<byte_counter, corrupt, wbuf>>

AwaitToken(rd) ==
  /\ cst = "READ_WAIT" /\ Keep
  /\ IF ~rd THEN GoTo("READ_FINISH")
     ELSE GoTo("READ_DATA") \/ Fail("Token", "READ_FINISH")

(* A byte of the card; it waits until the host has taken the one before.   *)
Handed(rd, dout_taken) == rd /\ ~dout_avail /\ ~dout_taken
Sent == card[address][BLOCKSIZE - byte_counter]
ReadByte(rd, dout_taken) ==
  /\ cst = "READ_DATA" /\ (rd => Handed(rd, dout_taken))
  /\ byte_counter' = byte_counter - 1
  /\ GoTo(IF byte_counter = 1 THEN "READ_CRC" ELSE "READ_DATA")
  /\ IF rd THEN \/ dout' = Sent /\ corrupt' = corrupt
                \/ "CRC" \in Faults /\ dout' \in Byte \ {Sent} /\ corrupt' = TRUE
           ELSE UNCHANGED <<dout, corrupt>>
  /\ UNCHANGED <<address, wbuf, card>>

CheckCrc ==
  /\ cst = "READ_CRC" /\ cst' = "READ_FINISH" /\ sd_error' = (sd_error \/ corrupt)
  /\ Keep

Finish(rd, wr) ==
  /\ \/ cst = "READ_FINISH" /\ ~rd
     \/ cst = "WRITE_FINISH" /\ ~wr
  /\ GoTo("IDLE") /\ Keep

(* The bytes of the host; if it drops wr before the last, dummy data and a *)
(* wrong CRC end the block.                                                *)
TakeByte(wr) == cst = "WRITE_DATA" /\ byte_counter # 0 /\ wr /\ din_latch
WriteData(wr, din) ==
  /\ cst = "WRITE_DATA" /\ UNCHANGED <<address, byte_counter, card>>
  /\ \/ /\ byte_counter = 0 \/ ~wr
        /\ GoTo("WRITE_RESPONSE")
        /\ corrupt' = (byte_counter # 0) /\ UNCHANGED wbuf
     \/ /\ TakeByte(wr)
        /\ GoTo("WRITE_BYTE") /\ wbuf' = Append(wbuf, din) /\ UNCHANGED corrupt

WriteByte ==
  /\ cst = "WRITE_BYTE" /\ GoTo("WRITE_DATA")
  /\ byte_counter' = byte_counter - 1
  /\ UNCHANGED <<address, corrupt, wbuf, card>>

WriteResponse ==
  /\ cst = "WRITE_RESPONSE" /\ UNCHANGED <<address, byte_counter, corrupt, wbuf>>
  /\ \/ /\ ~corrupt /\ GoTo("WRITE_WAIT")
        /\ card' = [card EXCEPT ![address] = [i \in Index |-> wbuf[i + 1]]]
     \/ /\ corrupt \/ "Response" \in Faults
        /\ cst' = "WRITE_FINISH" /\ sd_error' = TRUE /\ UNCHANGED card

WriteWait ==
  /\ cst = "WRITE_WAIT" /\ Keep
  /\ GoTo("WRITE_FINISH") \/ Fail("Response", "WRITE_FINISH")

(* A cycle in which the state does not change.                             *)
Stay(rd, wr) ==
  /\ \/ cst \in Moving \cup {"NO_R1"}
     \/ cst = "IDLE2" /\ ~rd /\ ~wr
     \/ cst = "READ_FINISH" /\ rd
     \/ cst = "WRITE_FINISH" /\ wr
     \/ cst = "WRITE_DATA" /\ byte_counter # 0 /\ wr /\ ~din_latch
  /\ GoTo(cst) /\ Keep

(* The handshake of the bytes to the card: a byte is latched when          *)
(* din_valid rises and is reported taken until din_valid falls.            *)
DinTick(wr, din_valid) ==
  LET rises == din_valid /\ ~last_din_valid
      off   == ~din_valid \/ ~wr
  IN  /\ last_din_valid' = din_valid
      /\ din_latch' = (~off /\ (rises \/ (din_latch /\ ~TakeByte(wr))))
      /\ din_taken' = (~off /\ ~rises /\ (din_taken \/ TakeByte(wr)))

CtrlTick(rd, wr, addr, din, din_valid, dout_taken) ==
  /\ \/ ReadByte(rd, dout_taken)
     \/ /\ \/ Initialise(rd, wr) \/ Accept(rd, wr, addr) \/ Command
           \/ AwaitToken(rd) \/ CheckCrc \/ Finish(rd, wr)
           \/ WriteData(wr, din) \/ WriteByte \/ WriteResponse \/ WriteWait
           \/ cst = "IDLE" /\ GoTo("IDLE2") /\ Keep
           \/ Stay(rd, wr)
        /\ UNCHANGED dout
  /\ sd_busy' = ~(cst = "IDLE2" /\ ~rd /\ ~wr)
  /\ dout_avail' =
       \/ cst = "READ_DATA" /\ rd /\ byte_counter' # byte_counter
       \/ dout_avail /\ ~dout_taken
  /\ DinTick(wr, din_valid)
=============================================================================
