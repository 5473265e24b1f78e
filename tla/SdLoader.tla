------------------------------ MODULE SdLoader ------------------------------
(***************************************************************************)
(* mem/sdspi_file_reader.v and mem/sdspi_reader.v: what finds initmem.bin  *)
(* on the card and hands its words, one after the other, to the machine of *)
(* maintn.v that copies them to memory.                                    *)
(*                                                                         *)
(* sdspi_reader fetches a sector: a command to the SD card host, a wait,   *)
(* then one access for each byte.  sdspi_file_reader chooses the sectors,  *)
(* gathers four bytes to a word and offers it.  Nothing but frbusy holds   *)
(* the bytes back when the memory is slow: it stops them at every second   *)
(* word, and a word that is complete while the one before is still on      *)
(* offer is lost.                                                          *)
(*                                                                         *)
(* The card is cut down: a sector of SECTOR bytes, a table of clusters in  *)
(* one sector with an entry a byte.  Parsing the directory is external.    *)
(***************************************************************************)
EXTENDS Initmem

CONSTANTS
  SECTOR,        (* bytes of a sector, SDSPI_BLOCKSIZE                     *)
  CLUSTERS,      (* numbers that two bytes hold, 65536 in the code         *)
  BIN_SIZE,      (* bytes to copy                                          *)
  Cards,         (* the cards that may be in the slot                      *)
  None           (* no sector: the block memory before the first command   *)

(* The sizes are 512 and 1 MB: whole pairs of words.                       *)
ASSUME SizesAssumption ==
  /\ CLUSTERS \in Nat \ {0}
  /\ SECTOR \in Nat \ {0} /\ SECTOR % 8 = 0
  /\ BIN_SIZE = DRAM_SIZE /\ BIN_SIZE % 8 = 0
  /\ None \notin Nat

VARIABLES
  card,
  ctrlstate, pready, blk, mover,                     \* SD card host
  rdState, psel, pwrite, waddr, rsector, outen, raddr, rdata, rdone,
  read_start, read_sector_no, filesystem_state, search_fat, curr_cluster,
  cluster_sector_offset, target_cluster, file_found, \* sdspi_file_reader
  fptr, mw, DATA, send, state, senti, WE, BOOTDONE   \* its output

hostVars   == <<ctrlstate, pready, blk, mover>>
readerVars == <<rdState, psel, pwrite, waddr, rsector, outen, raddr, rdata, rdone>>
findVars   == <<read_start, read_sector_no, filesystem_state, search_fat, curr_cluster,
                cluster_sector_offset, target_cluster, file_found>>
sendVars   == <<fptr, mw, DATA, send, state, senti, WE, BOOTDONE>>
loaderVars == <<card, hostVars, readerVars, findVars, sendVars>>
-----------------------------------------------------------------------------
(* The card: fs, FAT16 or FAT32; dbr, the sector of the boot record, 0     *)
(* when there is no table of partitions; spc, sectors in a cluster; next,  *)
(* the table of clusters; root, the first cluster of the directory and in, *)
(* which of its sectors tells of the file (0: none does); first, chain,    *)
(* size and data: the first cluster of the file, all of them in order, its *)
(* length and its bytes; kernel, dtb and sums: what initmem_gen was given  *)
(* and the sums it went through.                                           *)
EOC == SECTOR            (* an end of chain the reader knows               *)
EOC_OTHER == SECTOR + 1  (* one of 0FFFFFF9 .. 0FFFFFFE, which it does not *)

FatSector(c) == c.dbr + 1
RootSectors == 1     (* of the directory of a FAT16 card                   *)
DataSector(c, cl, off) ==
  FatSector(c) + 1 + (IF c.fs = "FAT16" THEN RootSectors ELSE 0) + c.spc * (cl - 2) + off

(* How many bytes of the file lie before a sector of its nth cluster.      *)
Before(c, n, off) == (n * c.spc + off) * SECTOR
Clusters(c) == {n \in 0 .. c.size : Before(c, n, 0) < c.size}

(* A byte of the card; what no property asks about is 0.                   *)
ByteOn(c, sector, a) ==
  IF sector = FatSector(c) THEN IF a \in DOMAIN c.next THEN c.next[a] ELSE 0
  ELSE LET here == {p \in Clusters(c) \X (0 .. c.spc - 1) :
                      DataSector(c, c.chain[p[1]], p[2]) = sector}
       IN  IF here = {} THEN 0
           ELSE LET p  == CHOOSE p \in here : TRUE
                    at == Before(c, p[1], p[2]) + a
                IN  IF at < c.size THEN c.data[at] ELSE 0
IsBoot(c, sector) == sector \in {0, c.dbr}
IsDbr(c, sector)  == sector = c.dbr

(* The sector of the directory that tells of the file: the nth, from 1.    *)
Tells(c, sector) ==
  IF c.fs = "FAT16" THEN c.in = 1 /\ sector = FatSector(c) + 1
  ELSE \E k \in 1 .. c.in : k = c.in /\
         sector = DataSector(c, IF k <= c.spc THEN c.root ELSE c.next[c.root], (k - 1) % c.spc)

(* What a card is: the table leads from each cluster of the file to the    *)
(* next, and no cluster is in it twice.                                    *)
Geometry(c) ==
  /\ c.dbr \in Nat /\ c.spc \in Nat \ {0} /\ c.root \in Nat \ {0, 1}
  /\ c.in \in Nat /\ c.size \in Nat /\ c.data \in [0 .. c.size - 1 -> Byte]
  /\ \A cl \in DOMAIN c.next : c.next[cl] \in Nat
ChainIs(c) ==
  /\ c.first \in Nat \ {0, 1} /\ c.chain \in [Clusters(c) -> 2 .. SECTOR - 1]
  /\ \A n \in Clusters(c) :
       /\ n = 0 => c.chain[0] = c.first
       /\ n > 0 => c.chain[n - 1] \in DOMAIN c.next /\ c.next[c.chain[n - 1]] = c.chain[n]
       /\ \A k \in Clusters(c) : c.chain[k] = c.chain[n] => k = n

(* A whole file is what initmem_gen wrote of programs it has room for.     *)
FromGenerator(c) ==
  LET image == IF c.dtb = <<>> THEN initmem_nuttx(c.kernel) ELSE initmem_linux(c.kernel, c.dtb)
  IN  /\ c.kernel \in Seq(Byte) /\ c.dtb \in Seq(Byte) /\ Fits(c.kernel, 0)
      /\ c.dtb # <<>> => Len(c.kernel) <= D_INITD_ADDR /\ Fits(c.dtb, D_INITD_ADDR)
      /\ \A i \in 0 .. BIN_SIZE - 1 : c.data[i] = image[i]
      /\ Summing(c.sums, image)
ASSUME CardsAssumption ==
  \A c \in Cards : Geometry(c) /\ ChainIs(c) /\ (c.size >= BIN_SIZE => FromGenerator(c))
-----------------------------------------------------------------------------
(* The SD card host (sd.v, modelled whole in SdHost), for the accesses of  *)
(* the reader.  mover: 0 idle, 1 and 2 a block is asked for, 3 it is being *)
(* read, 4 the card is still being initialised.  The card takes the time   *)
(* it takes; nothing answers for a sector it does not have.  A negative    *)
(* number is one of 32 bits from their upper end: no card is that large.   *)
sdsbusy == mover \in {3, 4}
sdstate == mover \in {1, 2, 3}
Readable(sector) == 0 <= sector /\ sector <= DataSector(card, SECTOR - 1, card.spc - 1)

HostTick(access) ==
  /\ \/ /\ ctrlstate = 0 /\ access /\ ~pready
        /\ ctrlstate' = IF pwrite THEN 2 ELSE 15
        /\ pready' = FALSE
     \/ /\ ctrlstate = 0 /\ ~(access /\ ~pready)
        /\ pready' = FALSE /\ UNCHANGED ctrlstate
     \/ /\ ctrlstate \in {2, 16}
        /\ ctrlstate' = 0 /\ pready' = TRUE
     \/ /\ ctrlstate = 15
        /\ ctrlstate' = 16 /\ UNCHANGED pready
  /\ \/ /\ mover = 0
        /\ mover' = IF ctrlstate = 2 THEN 1 ELSE 0
        /\ UNCHANGED blk
     \/ mover \in {1, 2} /\ mover' = mover + 1 /\ UNCHANGED blk
     \/ mover \in {3, 4} /\ UNCHANGED <<mover, blk>>
     \/ mover = 3 /\ Readable(rsector) /\ mover' = 0 /\ blk' = rsector
     \/ mover = 4 /\ mover' = 0 /\ UNCHANGED blk
-----------------------------------------------------------------------------
(* frbusy, of w_main_init_state and w_ctrl_state.                          *)
frbusy_before(init_state, sd_state) == \* mutant: not held after the copy
  init_state = 1 \/ (fptr % 8 = 4 /\ ~(state = 22 /\ sd_state = 0))
frbusy_first(init_state, sd_state) ==  \* mutant: held before the pair, not in it
  init_state # 3 \/ (fptr % 8 = 0 /\ ~(state = 22 /\ sd_state = 0))
frbusy(init_state, sd_state) ==
  init_state # 3 \/ (fptr % 8 = 4 /\ ~(state = 22 /\ sd_state = 0))

(* sdspi_reader: a command for rsector, then a byte at a time.             *)
HostIdle == ~sdsbusy /\ ~sdstate /\ ctrlstate = 0
Unread == UNCHANGED <<outen, raddr, rdata>>

AskSector ==
  /\ rdState = 0
  /\ IF read_start /\ HostIdle /\ ~pready /\ ~rdone
     THEN /\ pwrite' = TRUE /\ psel' = TRUE /\ rsector' = read_sector_no
          /\ rdState' = 1 /\ waddr' = 0
     ELSE UNCHANGED <<pwrite, psel, rsector, rdState, waddr>>
  /\ Unread /\ UNCHANGED rdone

AwaitSector ==
  /\ rdState \in {1, 2, 3}
  /\ IF (rdState = 1 /\ pready) \/ (rdState = 2 /\ sdsbusy /\ sdstate)
     THEN rdState' = rdState + 1
     ELSE rdState' = IF rdState = 3 /\ HostIdle THEN 10 ELSE rdState
  /\ IF rdState = 1 /\ pready THEN pwrite' = FALSE /\ psel' = FALSE
                              ELSE UNCHANGED <<pwrite, psel>>
  /\ Unread /\ UNCHANGED <<waddr, rsector, rdone>>

AskByte(hold) ==
  /\ rdState = 10
  /\ IF ~pready /\ ctrlstate = 0 /\ ~hold
     THEN pwrite' = FALSE /\ psel' = TRUE /\ rdState' = 11
     ELSE UNCHANGED <<pwrite, psel, rdState>>
  /\ Unread /\ UNCHANGED <<waddr, rsector, rdone>>

TakeByte ==
  /\ rdState = 11
  /\ IF pready
     THEN /\ psel' = FALSE /\ rdState' = 12
          /\ outen' = TRUE /\ raddr' = waddr /\ waddr' = waddr + 1
          /\ rdata' = IF blk = None THEN 0 ELSE ByteOn(card, blk, waddr)
     ELSE UNCHANGED <<psel, rdState, waddr>> /\ Unread
  /\ UNCHANGED <<pwrite, rsector, rdone>>

NextByte ==
  /\ rdState \in {12, 13}
  /\ rdState' = IF rdState = 12 THEN 13 ELSE IF waddr < SECTOR THEN 10 ELSE 14
  /\ outen' = FALSE
  /\ rdone' = (rdState = 13 /\ waddr >= SECTOR)
  /\ UNCHANGED <<psel, pwrite, waddr, rsector, raddr, rdata>>

SectorDone ==
  /\ rdState \in {14, 15}
  /\ rdone' = FALSE
  /\ rdState' = CASE rdState = 14 -> IF read_start THEN 14 ELSE 15
                  [] OTHER -> IF read_start THEN 0 ELSE 15
  /\ Unread /\ UNCHANGED <<psel, pwrite, waddr, rsector>>

ReaderTick(hold) ==
  AskSector \/ AwaitSector \/ AskByte(hold) \/ TakeByte \/ NextByte \/ SectorDone
-----------------------------------------------------------------------------
(* The main machine of sdspi_file_reader: when a sector was read, choose   *)
(* the next.                                                               *)

(* Of the first cluster of the file only the bytes 1Ah and 1Bh of its      *)
(* directory entry are kept.  FAT32 has the upper half at 14h and 15h.     *)
file_cluster == card.first % CLUSTERS
Fetch(cl, off) ==
  /\ curr_cluster' = cl /\ cluster_sector_offset' = off
  /\ read_sector_no' = DataSector(card, cl, off)
Stop == filesystem_state' = "DONE" /\ UNCHANGED <<curr_cluster, read_sector_no>>
Stay == UNCHANGED filesystem_state

SearchMbr ==
  /\ filesystem_state = "SEARCH_MBR"
  /\ IF IsBoot(card, blk)
     THEN /\ filesystem_state' = "SEARCH_DBR"
          /\ read_sector_no' = IF IsDbr(card, blk) THEN read_sector_no ELSE card.dbr
     ELSE read_sector_no' = read_sector_no + 1 /\ UNCHANGED filesystem_state
  /\ UNCHANGED <<search_fat, curr_cluster, cluster_sector_offset>>

SearchDbr ==
  /\ filesystem_state = "SEARCH_DBR"
  /\ CASE ~(IsBoot(card, blk) /\ IsDbr(card, blk)) ->
           UNCHANGED <<filesystem_state, read_sector_no, curr_cluster, cluster_sector_offset>>
       [] IsDbr(card, blk) /\ card.fs = "FAT16" ->
           /\ filesystem_state' = "LS_ROOT_FAT16" /\ read_sector_no' = FatSector(card) + 1
           /\ cluster_sector_offset' = 0 /\ UNCHANGED curr_cluster
       [] IsDbr(card, blk) /\ card.fs = "FAT32" ->
           filesystem_state' = "LS_ROOT_FAT32" /\ Fetch(card.root, 0)
       [] OTHER -> Stop /\ UNCHANGED cluster_sector_offset
  /\ UNCHANGED search_fat

(* One sector more than the directory has is read before the search stops. *)
ListRoot16 ==
  /\ filesystem_state = "LS_ROOT_FAT16"
  /\ CASE file_found -> filesystem_state' = "READ_A_FILE" /\ Fetch(file_cluster, 0)
       [] ~file_found /\ cluster_sector_offset < RootSectors ->
           /\ cluster_sector_offset' = cluster_sector_offset + 1
           /\ read_sector_no' = FatSector(card) + 1 + cluster_sector_offset + 1
           /\ UNCHANGED curr_cluster /\ Stay
       [] OTHER -> Stop /\ UNCHANGED cluster_sector_offset
  /\ UNCHANGED search_fat

(* The table of clusters is read when the sectors of a cluster are.        *)
LookUp ==
  /\ search_fat' = TRUE /\ cluster_sector_offset' = 0
  /\ read_sector_no' = FatSector(card)
  /\ Stay /\ UNCHANGED curr_cluster
More == cluster_sector_offset < card.spc - 1
Follow == Fetch(curr_cluster, cluster_sector_offset + 1) /\ Stay /\ UNCHANGED search_fat

ListRoot32 ==
  /\ filesystem_state = "LS_ROOT_FAT32" /\ ~search_fat
  /\ CASE file_found ->
           filesystem_state' = "READ_A_FILE" /\ Fetch(file_cluster, 0) /\ UNCHANGED search_fat
       [] ~file_found /\ More -> Follow
       [] OTHER -> LookUp
ReadFile ==
  filesystem_state = "READ_A_FILE" /\ ~search_fat /\ IF More THEN Follow ELSE LookUp

(* What was looked up.  A FAT32 file also ends where BIN_SIZE bytes of it  *)
(* have been read.                                                         *)
ChainEnds == target_cluster < 2 \/ target_cluster = EOC
LookedUp ==
  /\ search_fat /\ search_fat' = FALSE
  /\ LET stop == \/ ChainEnds
                 \/ card.fs = "FAT16" /\ target_cluster = EOC_OTHER
                 \/ card.fs = "FAT32" /\ filesystem_state = "READ_A_FILE" /\ fptr >= BIN_SIZE
     IN  IF stop THEN Stop /\ cluster_sector_offset' = 0
                 ELSE Fetch(target_cluster, 0) /\ Stay

Reading == {"SEARCH_MBR", "SEARCH_DBR", "LS_ROOT_FAT16", "LS_ROOT_FAT32", "READ_A_FILE"}
Ask ==
  /\ read_start' = (filesystem_state \in Reading)
  /\ filesystem_state' = IF filesystem_state = "RESET" THEN "SEARCH_MBR" ELSE filesystem_state
  /\ UNCHANGED <<read_sector_no, search_fat, curr_cluster, cluster_sector_offset>>

FindTick ==
  /\ \/ ~rdone /\ Ask
     \/ /\ rdone /\ read_start' = FALSE
        /\ \/ SearchMbr \/ SearchDbr \/ ListRoot16 \/ ListRoot32 \/ ReadFile \/ LookedUp
  /\ target_cluster' = IF search_fat /\ outen /\ raddr = curr_cluster
                       THEN rdata ELSE target_cluster
  /\ file_found' = \/ file_found
                   \/ /\ outen /\ raddr = SECTOR - 1 /\ ~search_fat
                      /\ filesystem_state \in {"LS_ROOT_FAT16", "LS_ROOT_FAT32"}
                      /\ Tells(card, blk)
-----------------------------------------------------------------------------
(* The bytes of the file are gathered to words; send is high for the one   *)
(* cycle after the fourth.                                                 *)
Gather ==
  IF outen /\ filesystem_state = "READ_A_FILE" /\ ~search_fat /\ fptr < card.size
  THEN /\ fptr' = fptr + 1
       /\ mw' = [mw EXCEPT ![fptr % 4] = rdata]
       /\ send' = (fptr % 4 = 3)
       /\ DATA' = IF fptr % 4 = 3 THEN WordOf(mw[0], mw[1], mw[2], rdata) ELSE DATA
  ELSE send' = FALSE /\ UNCHANGED <<fptr, mw, DATA>>

(* The sender: 0 waits for send, 20 offers the word when maintn is idle,   *)
(* 21 until it is taken, 22 until it is stored.                            *)
Sender(sd_state) ==
  \/ /\ state = 0
     /\ state' = IF ~BOOTDONE /\ send THEN 20 ELSE 0
     /\ UNCHANGED <<senti, WE, BOOTDONE>>
  \/ /\ state = 20
     /\ IF sd_state = 0 /\ senti < BIN_SIZE
        THEN WE' = TRUE /\ senti' = senti + 4 /\ state' = 21
        ELSE UNCHANGED <<WE, senti, state>>
     /\ UNCHANGED BOOTDONE
  \/ /\ state = 21
     /\ IF sd_state # 0 THEN WE' = FALSE /\ state' = 22 ELSE UNCHANGED <<WE, state>>
     /\ UNCHANGED <<senti, BOOTDONE>>
  \/ /\ state = 22
     /\ state' = IF sd_state = 0 THEN 0 ELSE 22
     /\ BOOTDONE' = (BOOTDONE \/ senti >= BIN_SIZE)
     /\ UNCHANGED <<senti, WE>>

LoaderInit ==
  /\ card \in Cards
  /\ ctrlstate = 0 /\ pready = FALSE /\ blk = None /\ mover = 4
  /\ rdState = 0 /\ psel = FALSE /\ pwrite = FALSE /\ waddr = 0 /\ rsector = 0
  /\ outen = FALSE /\ raddr = 0 /\ rdata = 0 /\ rdone = FALSE
  /\ read_start = FALSE /\ read_sector_no = 0 /\ filesystem_state = "RESET"
  /\ search_fat = FALSE /\ curr_cluster = 0 /\ cluster_sector_offset = 0
  /\ target_cluster = 0 /\ file_found = FALSE
  /\ fptr = 0 /\ mw = [i \in 0 .. 3 |-> 0] /\ DATA = 0 /\ send = FALSE
  /\ state = 0 /\ senti = 0 /\ WE = FALSE /\ BOOTDONE = FALSE

(* One clock; access tells whether the reader is connected to the host.    *)
LoaderTick(init_state, sd_state, connected) ==
  /\ UNCHANGED card
  /\ HostTick(connected /\ psel)
  /\ ReaderTick(frbusy(init_state, sd_state))
  /\ FindTick
  /\ Gather /\ Sender(sd_state)

LoaderTypeOK ==
  /\ card \in Cards
  /\ ctrlstate \in {0, 2, 15, 16} /\ pready \in BOOLEAN
  /\ blk \in Nat \cup {None} /\ mover \in 0 .. 4
  /\ rdState \in {0, 1, 2, 3, 10, 11, 12, 13, 14, 15}
  /\ psel \in BOOLEAN /\ pwrite \in BOOLEAN
  /\ waddr \in 0 .. SECTOR /\ rsector \in Int /\ raddr \in 0 .. SECTOR - 1
  /\ outen \in BOOLEAN /\ rdone \in BOOLEAN /\ rdata \in Nat
  /\ read_start \in BOOLEAN /\ read_sector_no \in Int
  /\ filesystem_state \in Reading \cup {"RESET", "DONE"}
  /\ search_fat \in BOOLEAN /\ file_found \in BOOLEAN
  /\ curr_cluster \in Nat /\ cluster_sector_offset \in Nat /\ target_cluster \in Nat
  /\ fptr \in 0 .. card.size /\ mw \in [0 .. 3 -> Nat]
  /\ DATA \in Nat /\ send \in BOOLEAN
  /\ state \in {0, 20, 21, 22} /\ senti \in 0 .. BIN_SIZE
  /\ WE \in BOOLEAN /\ BOOTDONE \in BOOLEAN
=============================================================================
