-------------------------------- MODULE Boot --------------------------------
(***************************************************************************)
(* mem/maintn.v before the harts may use the memory: clear it, copy the    *)
(* words the loader offers, read all of it back, then hand the memory and  *)
(* the SD card host over to the bus.  One step is one rising edge of clk   *)
(* for maintn, the loader, the SD card host and the memory port.           *)
(*                                                                         *)
(* The memory port is what DramConRV promises its user: it is busy from    *)
(* the edge after a request for some number of cycles, and at the end the  *)
(* word is stored or its data is there.  Addresses are in words.           *)
(***************************************************************************)
EXTENDS SdLoader

CONSTANTS
  BusyLengths    (* cycles the port may be busy with one request           *)

(* DramConRV takes 6 to 14 cycles.  After one busy cycle the zero fill     *)
(* would leave words out, and with 23 the copy can stop for good.           *)
ASSUME BusyAssumption == BusyLengths \subseteq 2 .. 22 /\ BusyLengths # {}

BinWords == BIN_SIZE \div 4

VARIABLES
  busy, mem, odata, o_init_calib_complete,           \* the memory port
  r_init_state,
  r_zero_we, r_zero_done, r_zeroaddr,
  r_sd_state, r_sd_init_we, r_sd_init_data, r_initaddr3, r_sd_checksum, r_bblsd_done,
  r_rb_state, r_rb_delay, r_initaddr6, r_set_dram_le, r_verify_checksum, r_mem_rb_done

portVars == <<busy, mem, odata, o_init_calib_complete>>
zeroVars == <<r_zero_we, r_zero_done, r_zeroaddr>>
copyVars == <<r_sd_state, r_sd_init_we, r_sd_init_data, r_initaddr3, r_sd_checksum,
              r_bblsd_done>>
backVars == <<r_rb_state, r_rb_delay, r_initaddr6, r_set_dram_le, r_verify_checksum,
              r_mem_rb_done>>
bootVars == <<portVars, r_init_state, zeroVars, copyVars, backVars>>
vars     == <<loaderVars, bootVars>>

w_dram_busy == busy > 0
w_init_done == r_init_state = 5
-----------------------------------------------------------------------------
(* The request that reaches the port: r_init_state says whose it is.       *)
w_wr_en == r_init_state # 6 /\ (r_zero_we \/ r_sd_init_we)
w_dram_addr == CASE r_init_state = 1 -> r_zeroaddr
                 [] r_init_state = 3 -> r_initaddr3
                 [] r_init_state = 6 -> r_initaddr6
                 [] OTHER -> BinWords      \* r_initaddr2, past the image
w_dram_wdata == IF r_init_state = 3 THEN r_sd_init_data ELSE 0

PortTick ==
  /\ o_init_calib_complete' \in {o_init_calib_complete, TRUE}
  /\ IF ~w_dram_busy /\ (w_wr_en \/ r_set_dram_le)
     THEN /\ busy' \in BusyLengths
          /\ IF w_wr_en THEN mem' = [mem EXCEPT ![w_dram_addr] = w_dram_wdata] /\ UNCHANGED odata
                        ELSE odata' = mem[w_dram_addr] /\ UNCHANGED mem
     ELSE busy' = (IF w_dram_busy THEN busy - 1 ELSE 0) /\ UNCHANGED <<mem, odata>>

(* Zeros, to all of the memory that will be copied to.                     *)
ZeroTick ==
  /\ IF ~w_dram_busy /\ ~r_zero_done /\ o_init_calib_complete
     THEN r_zero_we' = TRUE /\ UNCHANGED r_zeroaddr
     ELSE IF w_dram_busy /\ r_zero_we
          THEN r_zero_we' = FALSE /\ r_zeroaddr' = r_zeroaddr + 1
          ELSE UNCHANGED <<r_zero_we, r_zeroaddr>>
  /\ r_zero_done' = (r_zero_done \/ r_zeroaddr >= BinWords)

(* The copy: 0 takes a word on offer, 1 holds the request until the port   *)
(* is busy with it, 2 waits for its end.                                   *)
TakeWord ==
  /\ r_sd_state = 0
  /\ IF WE /\ ~w_dram_busy
     THEN /\ r_sd_state' = 1 /\ r_sd_init_we' = TRUE /\ r_sd_init_data' = DATA
          /\ r_sd_checksum' = Plus(r_sd_checksum, DATA)
     ELSE UNCHANGED <<r_sd_state, r_sd_init_we, r_sd_init_data, r_sd_checksum>>
  /\ UNCHANGED r_initaddr3
HoldWord ==
  /\ r_sd_state = 1
  /\ IF w_dram_busy
     THEN r_sd_state' = 2 /\ r_sd_init_we' = FALSE /\ r_initaddr3' = r_initaddr3 + 1
     ELSE UNCHANGED <<r_sd_state, r_sd_init_we, r_initaddr3>>
  /\ UNCHANGED <<r_sd_init_data, r_sd_checksum>>
WordStored ==
  /\ r_sd_state = 2
  /\ r_sd_state' = IF w_dram_busy THEN 2 ELSE 0
  /\ UNCHANGED <<r_sd_init_we, r_sd_init_data, r_initaddr3, r_sd_checksum>>
CopyTick ==
  /\ TakeWord \/ HoldWord \/ WordStored
  /\ r_bblsd_done' = (r_bblsd_done \/ r_initaddr3 >= BinWords)

(* The read-back, of LAUR_MEM_RB_ONLY_CHECK: 0 idle, 1 asks for the next   *)
(* word, 7 until the port is busy, 2 until the word is there, 20 a delay.  *)
NextWord_last ==     \* mutant: the last word is not read back
  \/ /\ r_rb_state = 0
     /\ r_rb_state' = IF r_mem_rb_done THEN 0 ELSE 1
     /\ UNCHANGED <<r_set_dram_le, r_mem_rb_done>>
  \/ /\ r_rb_state = 1 /\ r_initaddr6 < BinWords - 1
     /\ IF w_dram_busy THEN UNCHANGED <<r_set_dram_le, r_rb_state>>
                       ELSE r_set_dram_le' = TRUE /\ r_rb_state' = 7
     /\ UNCHANGED r_mem_rb_done
  \/ /\ r_rb_state = 1 /\ ~(r_initaddr6 < BinWords - 1)
     /\ r_mem_rb_done' = TRUE /\ r_rb_state' = 0 /\ UNCHANGED r_set_dram_le
NextWord ==
  \/ /\ r_rb_state = 0
     /\ r_rb_state' = IF r_mem_rb_done THEN 0 ELSE 1
     /\ UNCHANGED <<r_set_dram_le, r_mem_rb_done>>
  \/ /\ r_rb_state = 1 /\ r_initaddr6 < BinWords
     /\ IF w_dram_busy THEN UNCHANGED <<r_set_dram_le, r_rb_state>>
                       ELSE r_set_dram_le' = TRUE /\ r_rb_state' = 7
     /\ UNCHANGED r_mem_rb_done
  \/ /\ r_rb_state = 1 /\ ~(r_initaddr6 < BinWords)
     /\ r_mem_rb_done' = TRUE /\ r_rb_state' = 0 /\ UNCHANGED r_set_dram_le
ReadWord ==
  \/ /\ r_rb_state = 7
     /\ IF w_dram_busy THEN r_set_dram_le' = FALSE /\ r_rb_state' = 2
                       ELSE UNCHANGED <<r_set_dram_le, r_rb_state>>
     /\ UNCHANGED <<r_verify_checksum, r_rb_delay, r_initaddr6>>
  \/ /\ r_rb_state = 2 /\ r_set_dram_le' = FALSE
     /\ IF w_dram_busy THEN UNCHANGED <<r_rb_state, r_verify_checksum, r_rb_delay>>
        ELSE /\ r_verify_checksum' = Plus(r_verify_checksum, odata)
             /\ r_rb_state' = 20 /\ r_rb_delay' = 0
     /\ UNCHANGED r_initaddr6
  \/ /\ r_rb_state = 20 /\ UNCHANGED <<r_set_dram_le, r_verify_checksum>>
     /\ IF r_rb_delay < 1
        THEN r_rb_delay' = r_rb_delay + 1 /\ UNCHANGED <<r_rb_state, r_initaddr6>>
        ELSE r_rb_state' = 0 /\ r_rb_delay' = 0 /\ r_initaddr6' = r_initaddr6 + 1
BackTick ==
  \/ /\ r_init_state # 6
     /\ r_rb_state' = 0 /\ r_set_dram_le' = FALSE
     /\ UNCHANGED <<r_rb_delay, r_initaddr6, r_verify_checksum, r_mem_rb_done>>
  \/ /\ r_init_state = 6 /\ NextWord
     /\ UNCHANGED <<r_rb_delay, r_initaddr6, r_verify_checksum>>
  \/ r_init_state = 6 /\ ReadWord /\ UNCHANGED r_mem_rb_done

(* r_init_state.  2, the program loader, is not used, and r_disk_done is   *)
(* up from the start, since BIN_DISK_SIZE is 0.                            *)
InitState_skip ==    \* mutant: the copy starts before the zeros are done
  r_init_state' = CASE r_init_state = 1 /\ o_init_calib_complete -> 3
                    [] r_init_state = 3 /\ r_bblsd_done -> 4
                    [] r_init_state = 4 -> 6
                    [] r_init_state = 6 /\ r_mem_rb_done -> 5
                    [] OTHER -> r_init_state
InitState ==
  r_init_state' = CASE r_init_state = 1 /\ r_zero_done -> 3
                    [] r_init_state = 3 /\ r_bblsd_done -> 4
                    [] r_init_state = 4 -> 6
                    [] r_init_state = 6 /\ r_mem_rb_done -> 5
                    [] OTHER -> r_init_state

Init ==
  /\ LoaderInit
  /\ busy = 0 /\ mem = [w \in 0 .. BinWords |-> None] /\ odata = 0
  /\ o_init_calib_complete = FALSE
  /\ r_init_state = 1
  /\ r_zero_we = FALSE /\ r_zero_done = FALSE /\ r_zeroaddr = 0
  /\ r_sd_state = 0 /\ r_sd_init_we = FALSE /\ r_sd_init_data = 0
  /\ r_initaddr3 = 0 /\ r_sd_checksum = 0 /\ r_bblsd_done = FALSE
  /\ r_rb_state = 0 /\ r_rb_delay = 0 /\ r_initaddr6 = 0
  /\ r_set_dram_le = FALSE /\ r_verify_checksum = 0 /\ r_mem_rb_done = FALSE

Tick ==
  /\ LoaderTick(r_init_state, r_sd_state, ~w_init_done)
  /\ PortTick /\ ZeroTick /\ CopyTick /\ BackTick /\ InitState

(* The clock does not stop, a card answers in the end, and the memory gets *)
(* through its start.                                                      *)
Spec == Init /\ [][Tick]_vars
FairSpec ==
  /\ Spec
  /\ WF_vars(Tick)
  /\ WF_vars(Tick /\ mover' = 0)
  /\ WF_vars(Tick /\ o_init_calib_complete')
-----------------------------------------------------------------------------
(* Types.                                                                  *)
TypeOK ==
  /\ LoaderTypeOK
  /\ busy \in Nat /\ mem \in [0 .. BinWords -> Nat \cup {None}] /\ odata \in Nat \cup {None}
  /\ o_init_calib_complete \in BOOLEAN
  /\ r_init_state \in {1, 3, 4, 5, 6}
  /\ r_zero_we \in BOOLEAN /\ r_zero_done \in BOOLEAN /\ r_zeroaddr \in 0 .. BinWords
  /\ r_sd_state \in 0 .. 2 /\ r_sd_init_we \in BOOLEAN /\ r_sd_init_data \in Nat
  /\ r_initaddr3 \in 0 .. BinWords /\ r_sd_checksum \in Nat /\ r_bblsd_done \in BOOLEAN
  /\ r_rb_state \in {0, 1, 2, 7, 20} /\ r_rb_delay \in 0 .. 1
  /\ r_initaddr6 \in 0 .. BinWords /\ r_set_dram_le \in BOOLEAN
  /\ r_verify_checksum \in Nat /\ r_mem_rb_done \in BOOLEAN

(* The bytes of the memory, by their addresses.                            *)
Shifted(w, n) == CASE n = 0 -> w
                   [] n = 1 -> w \div BASE
                   [] n = 2 -> (w \div BASE) \div BASE
                   [] OTHER -> ((w \div BASE) \div BASE) \div BASE
ByteAt(i) == Shifted(mem[i \div 4], i % 4) % BASE
FileWord(k) == WordOf(card.data[4 * k], card.data[4 * k + 1],
                      card.data[4 * k + 2], card.data[4 * k + 3])

(* The card names the first cluster of the file in two bytes, all that the *)
(* reader looks at: every FAT16 card does, and a FAT32 card whose file     *)
(* begins below cluster 65536.  Of other cards it reads something else     *)
(* (FileReadOut).                                                          *)
FirstTold == card.first < CLUSTERS

(* However the memory stalls, the words of the file are stored one after   *)
(* the other: none is lost, doubled or misplaced, and what is not written  *)
(* yet is zero.  Four bytes take the reader longer than a word takes the   *)
(* memory; that is all that protects every other word                      *)
(* (sdspi_file_reader.v:637).                                              *)
StoredInOrder ==
  LET stored == r_initaddr3 + (IF r_sd_state = 1 /\ w_dram_busy THEN 1 ELSE 0)
  IN  r_init_state # 1 =>
        \A k \in 0 .. BinWords - 1 : IF k < stored THEN FirstTold => mem[k] = FileWord(k)
                                     ELSE mem[k] = 0

(* When the harts get the memory (maintn.v:280), the programs that         *)
(* initmem_gen was given are there, byte by byte, each where it belongs.   *)
ProgramsInMemory ==
  w_init_done =>
    /\ card.size >= BIN_SIZE
    /\ FirstTold => /\ \A i \in 1 .. Len(card.kernel) : ByteAt(i - 1) = card.kernel[i]
                    /\ \A i \in 1 .. Len(card.dtb) :
                         ByteAt(D_INITD_ADDR + i - 1) = card.dtb[i]

(* The sum of what was read back, that of what was copied (maintn.v:309)   *)
(* and the one initmem_gen printed for the file (main-nuttx.c:110) are the *)
(* same: a difference on the board tells of a fault of the memory.         *)
ChecksumsAgree ==
  FirstTold /\ w_init_done =>
    r_verify_checksum = r_sd_checksum /\ r_sd_checksum = card.sums[BinWords]

(* When the bus is connected to the SD card host instead of the loader     *)
(* (example_soc-dual.v:588), no access of the loader is cut in half, and   *)
(* the host has no answer left that the bus would take for its own.        *)
HandOver == w_init_done => ~psel /\ ctrlstate = 0 /\ ~pready

(* What every state of maintn.v and its loader owes: counters and          *)
(* addresses stay within the image, and the hand-over is clean.            *)
Inv == TypeOK /\ HandOver

(* A card with a file system the reader knows and a whole initmem.bin in   *)
(* the root directory boots, if two bytes tell where the file begins.      *)
Bootable == /\ card.fs \in {"FAT16", "FAT32"} /\ card.in > 0 /\ card.size >= BIN_SIZE
            /\ FirstTold
BootEnds == Bootable ~> w_init_done

(* sdspi_file_reader.v:9 "Specify a filename, sd_file_reader will read out *)
(* file content", of FAT16 and of FAT32: the word on offer is the next of  *)
(* the file.  It does not hold of a file that begins at cluster CLUSTERS   *)
(* or above (sdspi_file_reader.v:427).                                     *)
FileReadOut == WE => DATA = FileWord((senti \div 4) - 1)
=============================================================================
