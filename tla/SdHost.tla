------------------------------- MODULE SdHost -------------------------------
(***************************************************************************)
(* sd/sd.v: the SD card host.  One state machine (ctrlstate) serves the    *)
(* accesses to it: commands, status, and the bytes of its block memory; a  *)
(* second one (state) moves a block between that memory and the            *)
(* controller.                                                             *)
(*                                                                         *)
(* Addresses are relative to SDSPI_DEVADDR, and SDSPI_BLOCKADDR is at 8,   *)
(* 0x200 in the code.                                                      *)
(***************************************************************************)
EXTENDS SdController

RDBLK     == 0
WRBLK     == 4
BLOCKADDR == 8

VARIABLES
  ctrlstate, pready, prdata,
  maddr1, midata1, mw1, mr1, sdsbaddr,       \* of the first machine
  state, oecnt, outbyte, maddr2, midata2, mw2,
  sdsrd, sdswr, sdsdin, sdsdin_valid, sdsdout_taken,  \* of the second
  m, mout                                    \* sdspibram

busVars  == <<ctrlstate, pready, prdata, maddr1, midata1, mw1, mr1, sdsbaddr>>
moveVars == <<state, oecnt, outbyte, maddr2, midata2, mw2, sdsrd, sdswr, sdsdin,
              sdsdin_valid, sdsdout_taken>>
hostVars == <<ctrlVars, busVars, moveVars, m, mout>>

HostInit ==
  /\ CtrlInit
  /\ ctrlstate = 0 /\ pready = FALSE /\ prdata = 0
  /\ maddr1 = 0 /\ midata1 = 0 /\ mw1 = FALSE /\ mr1 = FALSE
  /\ sdsbaddr = 0
  /\ state = 0 /\ oecnt = 0 /\ outbyte \in Byte
  /\ maddr2 \in Index /\ midata2 = 0 /\ mw2 = FALSE
  /\ sdsrd = FALSE /\ sdswr = FALSE
  /\ sdsdin = 0 /\ sdsdin_valid = FALSE /\ sdsdout_taken = FALSE
  /\ m = [i \in Index |-> 0] /\ mout \in Byte

HostTypeOK ==
  /\ CtrlTypeOK
  /\ ctrlstate \in {0, 1, 2, 12, 5, 6, 15, 16} /\ pready \in BOOLEAN
  /\ prdata \in Byte \cup 0 .. 3
  /\ maddr1 \in Index /\ midata1 \in Byte /\ mw1 \in BOOLEAN /\ mr1 \in BOOLEAN
  /\ sdsbaddr \in Block
  /\ state \in {0, 1, 2, 3, 4, 10, 11, 12, 13, 16} /\ oecnt \in 0 .. BLOCKSIZE
  /\ outbyte \in Byte /\ maddr2 \in Index /\ midata2 \in Byte /\ mw2 \in BOOLEAN
  /\ sdsrd \in BOOLEAN /\ sdswr \in BOOLEAN /\ sdsdin \in Byte
  /\ sdsdin_valid \in BOOLEAN /\ sdsdout_taken \in BOOLEAN
  /\ m \in [Index -> Byte] /\ mout \in Byte
-----------------------------------------------------------------------------
(* sdspi_status, of which two bits tell: busy with a block, and error.     *)
sdspi_status_host ==     \* mutant: that the controller is busy does not show
  (IF state # 0 THEN 1 ELSE 0) + (IF sd_error THEN 2 ELSE 0)
sdspi_status ==
  (IF sd_busy \/ state # 0 THEN 1 ELSE 0) + (IF sd_error THEN 2 ELSE 0)

(* The first machine, for an access bw (write) or br (read) at paddr.  A   *)
(* block command is answered in the cycle after it is seen, taken or not.  *)
Idle(bw, br, paddr, pwdata) ==
  /\ ctrlstate = 0 /\ pready' = FALSE
  /\ \/ /\ bw /\ ~pready /\ paddr < BLOCKADDR
        /\ sdsbaddr' = pwdata
        /\ ctrlstate' = IF paddr = RDBLK THEN 2 ELSE IF paddr = WRBLK THEN 12 ELSE 0
        /\ UNCHANGED <<prdata, maddr1, midata1, mw1, mr1>>
     \/ /\ bw /\ ~pready /\ paddr >= BLOCKADDR
        /\ ctrlstate' = 5
        /\ midata1' = pwdata /\ maddr1' = paddr - BLOCKADDR /\ mw1' = TRUE
        /\ UNCHANGED <<prdata, mr1, sdsbaddr>>
     \/ /\ br /\ ~pready /\ paddr < BLOCKADDR
        /\ ctrlstate' = 1
        /\ UNCHANGED <<prdata, maddr1, midata1, mw1, mr1, sdsbaddr>>
     \/ /\ br /\ ~pready /\ paddr >= BLOCKADDR
        /\ ctrlstate' = 15
        /\ maddr1' = paddr - BLOCKADDR /\ mr1' = TRUE /\ prdata' = 0
        /\ UNCHANGED <<midata1, mw1, sdsbaddr>>
     \/ /\ pready \/ ~(bw \/ br)
        /\ UNCHANGED <<ctrlstate, prdata, maddr1, midata1, mw1, mr1, sdsbaddr>>

(* The next byte address and byte are computed too, but never used.        *)
Serve ==
  /\ ctrlstate # 0
  /\ ctrlstate' = CASE ctrlstate = 5 -> 6 [] ctrlstate = 15 -> 16 [] OTHER -> 0
  /\ pready' = (ctrlstate \notin {5, 15})
  /\ prdata' = CASE ctrlstate = 1 -> sdspi_status [] ctrlstate = 16 -> mout
               [] OTHER -> prdata
  /\ mw1' = (mw1 /\ ctrlstate # 5) /\ mr1' = (mr1 /\ ctrlstate # 15)
  /\ UNCHANGED <<maddr1, midata1, sdsbaddr>>

(* The second machine.  A command is seen only in its one cycle, and only  *)
(* by an idle machine with an idle controller.                             *)
Commanded(cmd) == state = 0 /\ ctrlstate = cmd /\ ~sd_busy

Await ==
  /\ state = 0 /\ oecnt' = 0
  /\ state' = IF Commanded(2) THEN 1 ELSE IF Commanded(12) THEN 10 ELSE 0
  /\ UNCHANGED <<outbyte, maddr2, midata2, mw2, sdsrd, sdswr, sdsdin,
                 sdsdin_valid, sdsdout_taken>>

StartRead ==
  /\ state = 1 /\ sdsrd' = TRUE /\ state' = 2
  /\ UNCHANGED <<oecnt, outbyte, maddr2, midata2, mw2, sdswr, sdsdin,
                 sdsdin_valid, sdsdout_taken>>

GetByte ==
  /\ state = 2
  /\ IF dout_avail /\ ~sd_error THEN outbyte' = dout /\ state' = 3
                               ELSE UNCHANGED <<outbyte, state>>
  /\ UNCHANGED <<oecnt, maddr2, midata2, mw2, sdsrd, sdswr, sdsdin,
                 sdsdin_valid, sdsdout_taken>>

PutByte ==
  /\ state = 3 /\ state' = 4
  /\ sdsdout_taken' = TRUE /\ oecnt' = oecnt + 1
  /\ mw2' = TRUE /\ maddr2' = oecnt /\ midata2' = outbyte
  /\ UNCHANGED <<outbyte, sdsrd, sdswr, sdsdin, sdsdin_valid>>

NextRead_past ==         \* mutant: one byte too many is awaited
  /\ state = 4 /\ mw2' = FALSE
  /\ sdsdout_taken' = (sdsdout_taken /\ dout_avail)
  /\ LET more == oecnt <= BLOCKSIZE
     IN  /\ sdsrd' = IF dout_avail THEN sdsrd ELSE more
         /\ state' = IF dout_avail THEN 4 ELSE IF more THEN 2
                     ELSE IF sd_busy THEN 4 ELSE 0
  /\ UNCHANGED <<oecnt, outbyte, maddr2, midata2, sdswr, sdsdin, sdsdin_valid>>
NextRead ==
  /\ state = 4 /\ mw2' = FALSE
  /\ sdsdout_taken' = (sdsdout_taken /\ dout_avail)
  /\ LET more == oecnt < BLOCKSIZE
     IN  /\ sdsrd' = IF dout_avail THEN sdsrd ELSE more
         /\ state' = IF dout_avail THEN 4 ELSE IF more THEN 2
                     ELSE IF sd_busy THEN 4 ELSE 0
  /\ UNCHANGED <<oecnt, outbyte, maddr2, midata2, sdswr, sdsdin, sdsdin_valid>>

NextWrite_past ==        \* mutant: one byte too many is written
  /\ state = 10
  /\ IF oecnt <= BLOCKSIZE
     THEN maddr2' = oecnt /\ state' = 16 /\ UNCHANGED <<sdswr, oecnt>>
     ELSE /\ sdswr' = FALSE /\ UNCHANGED maddr2
          /\ IF sd_busy THEN UNCHANGED <<state, oecnt>> ELSE state' = 0 /\ oecnt' = 0
  /\ UNCHANGED <<outbyte, midata2, mw2, sdsrd, sdsdin, sdsdin_valid, sdsdout_taken>>
NextWrite_early ==       \* mutant: the cycle in which the memory is read is skipped
  /\ state = 10
  /\ IF oecnt < BLOCKSIZE
     THEN maddr2' = oecnt /\ state' = 11 /\ UNCHANGED <<sdswr, oecnt>>
     ELSE /\ sdswr' = FALSE /\ UNCHANGED maddr2
          /\ IF sd_busy THEN UNCHANGED <<state, oecnt>> ELSE state' = 0 /\ oecnt' = 0
  /\ UNCHANGED <<outbyte, midata2, mw2, sdsrd, sdsdin, sdsdin_valid, sdsdout_taken>>
NextWrite ==
  /\ state = 10
  /\ IF oecnt < BLOCKSIZE
     THEN maddr2' = oecnt /\ state' = 16 /\ UNCHANGED <<sdswr, oecnt>>
     ELSE /\ sdswr' = FALSE /\ UNCHANGED maddr2
          /\ IF sd_busy THEN UNCHANGED <<state, oecnt>> ELSE state' = 0 /\ oecnt' = 0
  /\ UNCHANGED <<outbyte, midata2, mw2, sdsrd, sdsdin, sdsdin_valid, sdsdout_taken>>

OfferByte ==
  /\ \/ state = 16 /\ state' = 11 /\ UNCHANGED <<sdswr, sdsdin, sdsdin_valid>>
     \/ /\ state = 11 /\ state' = 12
        /\ sdswr' = TRUE /\ sdsdin' = mout /\ sdsdin_valid' = TRUE
  /\ UNCHANGED <<oecnt, outbyte, maddr2, midata2, mw2, sdsrd, sdsdout_taken>>

ByteTaken ==
  /\ \/ /\ state = 12 /\ UNCHANGED oecnt
        /\ sdsdin_valid' = (sdsdin_valid /\ ~din_taken)
        /\ state' = IF din_taken THEN 13 ELSE 12
     \/ /\ state = 13 /\ UNCHANGED sdsdin_valid
        /\ oecnt' = IF din_taken THEN oecnt ELSE oecnt + 1
        /\ state' = IF din_taken THEN 13 ELSE 10
  /\ UNCHANGED <<outbyte, maddr2, midata2, mw2, sdsrd, sdswr, sdsdin, sdsdout_taken>>

(* The block memory: one address, that of the first machine if it uses it. *)
maddr  == IF mr1 \/ mw1 THEN maddr1 ELSE maddr2
midata == IF mw1 THEN midata1 ELSE midata2
BramTick ==
  /\ m' = IF mw1 \/ mw2 THEN [m EXCEPT ![maddr] = midata] ELSE m
  /\ mout' = m[maddr]

HostTick(bw, br, paddr, pwdata) ==
  /\ Idle(bw, br, paddr, pwdata) \/ Serve
  /\ \/ Await \/ StartRead \/ GetByte \/ PutByte \/ NextRead
     \/ NextWrite \/ OfferByte \/ ByteTaken
  /\ BramTick
  /\ CtrlTick(sdsrd, sdswr, sdsbaddr, sdsdin, sdsdin_valid, sdsdout_taken)
=============================================================================
