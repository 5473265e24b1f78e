----------------------------- MODULE Boot_proofs ----------------------------
(***************************************************************************)
(* The boot, for every card, image, size and order of the clusters, and    *)
(* every length of a memory access from 2 to 22 cycles: what is not stored *)
(* yet is zero, the harts start when a whole image is stored, and the card *)
(* host is handed over at rest.  On every card where two bytes tell the    *)
(* first cluster of the file (FirstTold), what is stored are the words of  *)
(* the file in order, the programs are in memory when the harts start, and *)
(* the checksums agree.                                                    *)
(***************************************************************************)
EXTENDS Boot, TLAPS

(***************************************************************************)
(* The invariant, by parts.                                                *)
(***************************************************************************)
words == fptr \div 4

(* What the reader is doing says what the host is doing.                   *)
Quiet == ~psel /\ ctrlstate = 0 /\ ~pready
ReaderHost ==
  /\ rdState \notin {1, 11} => Quiet
  /\ rdState = 0 => mover \in {0, 4}
  /\ rdState = 1 => /\ psel /\ pwrite
                    /\ \/ ctrlstate \in {0, 2} /\ ~pready /\ mover = 0
                       \/ ctrlstate = 0 /\ pready /\ mover = 1
  /\ rdState = 2 => mover \in {2, 3}
  /\ rdState = 3 => mover = 3 \/ (mover = 0 /\ blk = rsector)
  /\ rdState = 11 => /\ psel /\ ~pwrite
                     /\ ctrlstate = 0 \/ (ctrlstate \in {15, 16} /\ ~pready)
  /\ rdState \in {10, 11, 12, 13, 14, 15} => mover = 0
  /\ (rdState \in {10, 11, 12, 13} \/ rdone) => blk = rsector
  /\ mover = 4 => rdState = 0 /\ filesystem_state \in {"RESET", "SEARCH_MBR"}

(* Where the reader is in a sector.                                        *)
ReaderPlace ==
  /\ outen <=> rdState = 12
  /\ rdState \in {1, 2, 3} => waddr = 0
  /\ rdState \in {10, 11} => waddr < SECTOR
  /\ rdState \in {12, 13} => waddr > 0 /\ raddr = waddr - 1
  /\ rdone => rdState = 14 /\ waddr = SECTOR

(* What is read is what was chosen, until it is read.                      *)
Chosen ==
  /\ (rdState \in {1, 2, 3, 10, 11, 12, 13} \/ rdone) =>
       read_start /\ rsector = read_sector_no
  /\ read_start => filesystem_state \in Reading
  /\ rdState = 14 => rdone \/ ~read_start
  /\ rdState = 15 /\ filesystem_state \in Reading => read_start
  /\ rdState = 0 /\ filesystem_state \notin {"RESET", "SEARCH_MBR"} => read_start
  /\ filesystem_state = "RESET" => rdState = 0
  /\ filesystem_state = "DONE" => rdState \in {14, 15}
  /\ rdState \in {11, 12, 13, 14, 15} => r_init_state # 1
  /\ filesystem_state \notin {"RESET", "SEARCH_MBR"} => r_init_state # 1
  /\ search_fat => filesystem_state \in {"LS_ROOT_FAT32", "READ_A_FILE"}
  /\ filesystem_state \in {"LS_ROOT_FAT32", "READ_A_FILE"} => cluster_sector_offset < card.spc

(* Where in the file the next byte is.                                     *)
taken == IF rdState = 12 THEN waddr - 1
         ELSE IF rdState \in {10, 11, 13} \/ rdone THEN waddr ELSE 0
At(n) ==
  /\ curr_cluster = card.chain[n]
  /\ IF ~search_fat
     THEN /\ read_sector_no = DataSector(card, curr_cluster, cluster_sector_offset)
          /\ fptr = Before(card, n, cluster_sector_offset) + taken
     ELSE /\ read_sector_no = FatSector(card)
          /\ fptr = Before(card, n, card.spc)
          /\ taken > curr_cluster => target_cluster = card.next[curr_cluster]
InFile == filesystem_state = "READ_A_FILE" /\ fptr < card.size
Position ==
  /\ filesystem_state \notin {"READ_A_FILE", "DONE"} => fptr = 0
  /\ FirstTold /\ InFile => \E n \in Clusters(card) : At(n)
  /\ FirstTold /\ InFile /\ rdState = 12 =>
       IF search_fat THEN raddr = curr_cluster => rdata = card.next[curr_cluster]
                     ELSE rdata = card.data[fptr]

(* What was gathered.                                                      *)
Gathered ==
  /\ FirstTold => /\ \A j \in 0 .. 3 : j < fptr % 4 => mw[j] = card.data[4 * words + j]
                  /\ words > 0 => DATA = FileWord(words - 1)
  /\ send => fptr % 4 = 0 /\ words > 0 /\ rdState = 13

(* How far the sender and maintn are with the last word.                   *)
Offered == send /\ ~BOOTDONE
Pending == state # 0 \/ Offered
HandShake ==
  /\ ~Pending => /\ ~WE /\ r_sd_state = 0
                 /\ ~BOOTDONE => senti = 4 * words /\ r_initaddr3 = words
  /\ state \in {0, 20} /\ Pending =>
       ~WE /\ r_sd_state = 0 /\ senti = 4 * (words - 1) /\ r_initaddr3 = words - 1
  /\ state = 21 => /\ WE /\ r_sd_state \in {0, 1} /\ senti = 4 * words
                   /\ r_initaddr3 = words - 1 /\ ~BOOTDONE
                   /\ r_sd_state = 1 => busy = 0
  /\ state = 22 => /\ ~WE /\ senti = 4 * words
                   /\ r_initaddr3 = IF r_sd_state = 1 THEN words - 1 ELSE words
                   /\ r_sd_state = 1 => busy \in 2 .. 22
  /\ Pending => words > 0
  /\ send => state = 0
  /\ r_sd_init_we <=> r_sd_state = 1
  /\ r_sd_state = 1 => r_sd_init_data = DATA
  /\ state = 20 => ~BOOTDONE
  /\ BOOTDONE => senti = BIN_SIZE
  /\ state \in {0, 20} /\ ~BOOTDONE => senti < BIN_SIZE
  /\ BOOTDONE /\ state # 22 => r_initaddr3 = BinWords
  /\ senti <= fptr /\ senti % 4 = 0

(* What maintn does, by its states.                                        *)
Stages ==
  /\ r_init_state = 1 => ~r_bblsd_done
  /\ r_init_state \in {4, 5, 6} => r_bblsd_done
  /\ r_bblsd_done => r_initaddr3 = BinWords
  /\ r_init_state # 1 => r_zero_done
  /\ r_init_state = 3 /\ r_sd_state = 0 /\ busy > 0 => r_initaddr3 = 0
  /\ busy <= 22

(* The race of the reader, T cycles from a word, with maintn, which needs  *)
(* U for the one before.                                                   *)
U == CASE state = 0 -> 28
       [] state = 20 -> 27
       [] state = 21 -> IF r_sd_state = 0 THEN 26 ELSE 25
       [] state = 22 -> IF r_sd_state = 0 THEN 1 ELSE busy + 2
       [] OTHER -> 0
byteIn == CASE rdState = 12 -> 1
            [] rdState = 11 /\ ctrlstate = 0 /\ pready -> 2
            [] rdState = 11 /\ ctrlstate = 16 -> 3
            [] rdState = 11 /\ ctrlstate = 15 -> 4
            [] rdState = 11 /\ ctrlstate = 0 /\ ~pready -> 5
            [] rdState = 13 -> 7
            [] OTHER -> 6
T == byteIn + 7 * (3 - (fptr % 4))
Race ==
  /\ fptr % 8 > 4 => ~Pending
  /\ fptr % 8 = 4 /\ Pending => rdState \notin {11, 12}
  /\ fptr % 8 < 4 /\ Pending => U <= T

(* The zero fill.                                                          *)
Zeroed ==
  /\ r_zero_done => r_zeroaddr = BinWords
  /\ r_zeroaddr = BinWords => ~r_zero_we /\ (r_zero_done \/ busy > 0)
  /\ r_zero_we /\ busy > 0 => busy > 1
  /\ r_init_state = 1 =>
       \A k \in 0 .. BinWords - 1 :
         (k < r_zeroaddr \/ (k = r_zeroaddr /\ r_zero_we /\ busy > 0)) => mem[k] = 0

(* The read-back.                                                          *)
ReadBack ==
  /\ r_init_state # 6 => r_rb_state = 0
  /\ r_set_dram_le <=> r_rb_state = 7
  /\ r_init_state \in {1, 3, 4} => r_initaddr6 = 0 /\ r_verify_checksum = 0 /\ ~r_mem_rb_done
  /\ r_mem_rb_done => r_rb_state = 0 /\ r_initaddr6 = BinWords
  /\ r_init_state = 5 => r_mem_rb_done
  /\ r_rb_state \in {2, 7, 20} => r_initaddr6 < BinWords
  /\ r_rb_state # 20 => r_rb_delay = 0
  /\ r_rb_state = 7 => busy # 1
  /\ ((r_rb_state = 7 /\ busy > 0) \/ r_rb_state = 2) => odata = mem[r_initaddr6]

Summed ==
  FirstTold /\ card.size >= BIN_SIZE =>
    /\ r_sd_checksum = card.sums[r_initaddr3 + (IF r_sd_state = 1 THEN 1 ELSE 0)]
    /\ r_verify_checksum = card.sums[r_initaddr6 + (IF r_rb_state = 20 THEN 1 ELSE 0)]

(* The hand-over: the reader comes to rest before the read-back is done.   *)
toRest == CASE rdState = 11 -> CASE ctrlstate = 15 -> 12 [] ctrlstate = 16 -> 11
                                 [] OTHER -> IF pready THEN 10 ELSE 13
            [] rdState = 12 -> 9
            [] rdState = 13 -> 8
            [] rdState = 14 -> IF rdone THEN 7 ELSE 6
            [] rdState = 15 /\ filesystem_state # "DONE" -> 5
            [] rdState = 0 -> 4
            [] rdState = 1 -> IF pready THEN 1 ELSE IF ctrlstate = 2 THEN 2 ELSE 3
            [] OTHER -> 0
left == BinWords - r_initaddr6
timeLeft == CASE r_init_state = 5 -> 0
              [] r_init_state = 6 ->
                   IF r_mem_rb_done THEN 1
                   ELSE (CASE r_rb_state = 0 -> 7 * left + 3
                           [] r_rb_state = 1 -> 7 * left + 2
                           [] r_rb_state = 7 -> 7 * left + (IF busy = 0 THEN 1 ELSE 0)
                           [] r_rb_state = 2 -> 7 * left - 1
                           [] r_rb_state = 20 -> 7 * left - 2 - r_rb_delay)
              [] OTHER -> 13
Rest == r_init_state \in {4, 5, 6} => toRest <= timeLeft

(* No word of the memory is read before it is written.                     *)
Filled == r_init_state # 1 => \A k \in 0 .. BinWords - 1 : mem[k] \in Nat

IInv ==
  /\ TypeOK /\ ReaderHost /\ ReaderPlace /\ Chosen /\ Position /\ Gathered /\ HandShake
  /\ Stages /\ Race /\ Zeroed /\ Filled /\ StoredInOrder /\ ReadBack /\ Summed /\ Rest
-----------------------------------------------------------------------------
(* Sizes, and a card.                                                      *)
LEMMA Sizes ==
  /\ SECTOR \in Nat /\ SECTOR >= 8 /\ SECTOR % 8 = 0
  /\ BIN_SIZE \in Nat /\ BIN_SIZE >= 8 /\ BIN_SIZE % 8 = 0
  /\ BinWords \in Nat /\ BinWords >= 2 /\ 4 * BinWords = BIN_SIZE
  /\ BASE \in Nat /\ BASE >= 2
BY SizesAssumption, ImageAssumption DEF BinWords

LEMMA CardFacts ==
  ASSUME card \in Cards
  PROVE  Geometry(card) /\ ChainIs(card) /\ (card.size >= BIN_SIZE => FromGenerator(card))
BY CardsAssumption

LEMMA CardNat ==
  ASSUME card \in Cards
  PROVE  /\ card.dbr \in Nat /\ card.spc \in Nat /\ card.spc >= 1
         /\ card.root \in Nat /\ card.root >= 2 /\ card.first \in Nat /\ card.first >= 2
         /\ card.size \in Nat
         /\ \A i \in 0 .. card.size - 1 : card.data[i] \in Byte
         /\ \A cl \in DOMAIN card.next : card.next[cl] \in Nat
BY CardFacts DEF Geometry, ChainIs

(* What the reader takes for the first cluster of the file.                *)
LEMMA FileCluster ==
  ASSUME card \in Cards
  PROVE  file_cluster \in Nat /\ (FirstTold => file_cluster = card.first)
<1>1. PICK first \in Nat : first = card.first
  BY CardNat
<1>2. PICK n \in Nat : n = CLUSTERS /\ n >= 1
  BY SizesAssumption
<1>3. first % n \in Nat /\ (first < n => first % n = first)
  BY <1>2
<1>. QED BY <1>1, <1>2, <1>3 DEF file_cluster, FirstTold

LEMMA DivUnique ==
  ASSUME NEW d \in Nat, NEW a \in Int, NEW b \in Int, NEW x \in 0 .. d - 1, NEW y \in 0 .. d - 1,
         d * a + x = d * b + y
  PROVE  a = b /\ x = y
<1>1. ASSUME NEW p \in Int, NEW q \in Int, NEW u \in 0 .. d - 1, NEW v \in 0 .. d - 1,
             d * p + u = d * q + v, p < q
      PROVE  FALSE
  <2>1. PICK r \in Nat : q = p + 1 + r
    <3>1. q - p - 1 \in Nat /\ q = p + 1 + (q - p - 1)
      BY <1>1
    <3>. QED BY <3>1
  <2>2. d * q = d * p + d + d * r
    BY <2>1
  <2>3. d * r \in Nat /\ d * p \in Int
    BY <2>1
  <2>. QED BY <1>1, <2>2, <2>3
<1>2. a = b
  BY <1>1
<1>. QED BY <1>2

LEMMA SectorNat ==
  ASSUME card \in Cards, NEW cl \in Nat, NEW off \in Nat
  PROVE  /\ DataSector(card, cl, off) \in Int
         /\ FatSector(card) \in Nat
         /\ cl >= 2 => /\ DataSector(card, cl, off) \in Nat
                       /\ DataSector(card, cl, off) # FatSector(card)
<1>1. card.dbr \in Nat /\ card.spc \in Nat
  BY CardFacts DEF Geometry
<1>2. /\ card.spc * (cl - 2) \in Int
      /\ cl >= 2 => card.spc * (cl - 2) \in Nat
  BY <1>1
<1>. QED BY <1>1, <1>2 DEF DataSector, FatSector, RootSectors

LEMMA SectorOfOne ==
  ASSUME card \in Cards, NEW cl \in Nat, NEW dl \in Nat,
         NEW off \in 0 .. card.spc - 1, NEW pff \in 0 .. card.spc - 1,
         DataSector(card, cl, off) = DataSector(card, dl, pff)
  PROVE  cl = dl /\ off = pff
<1>1. card.dbr \in Nat /\ card.spc \in Nat
  BY CardFacts DEF Geometry
<1>2. card.spc * (cl - 2) \in Int /\ card.spc * (dl - 2) \in Int
  BY <1>1
<1>3. card.spc * (cl - 2) + off = card.spc * (dl - 2) + pff
  BY <1>1, <1>2 DEF DataSector, FatSector, RootSectors
<1>4. cl - 2 = dl - 2 /\ off = pff
  <2>1. PICK a \in Int : a = cl - 2
    OBVIOUS
  <2>2. PICK b \in Int : b = dl - 2
    OBVIOUS
  <2>3. card.spc * a + off = card.spc * b + pff
    BY <1>3, <2>1, <2>2
  <2>4. a = b /\ off = pff
    BY <1>1, <2>3, DivUnique
  <2>. QED BY <2>1, <2>2, <2>4
<1>. QED BY <1>4

(* Positions in the file.                                                  *)
LEMMA BeforeNext ==
  ASSUME card \in Cards, NEW n \in Nat, NEW off \in Nat
  PROVE  /\ Before(card, n, off) \in Nat
         /\ Before(card, n, off + 1) = Before(card, n, off) + SECTOR
         /\ Before(card, n + 1, 0) = Before(card, n, card.spc)
         /\ Before(card, n, off) >= n + off
         /\ Before(card, 0, 0) = 0
<1>1. card.spc \in Nat /\ card.spc >= 1 /\ SECTOR \in Nat /\ SECTOR >= 1
  BY CardFacts, Sizes DEF Geometry
<1>2. n * card.spc \in Nat /\ n * card.spc >= n
  BY <1>1
<1>3. PICK m \in Nat : m = n * card.spc + off
  BY <1>2
<1>4. m * SECTOR \in Nat /\ m * SECTOR >= m /\ (m + 1) * SECTOR = m * SECTOR + SECTOR
  BY <1>1
<1>5. ASSUME NEW s \in Nat PROVE (n + 1) * s + 0 = n * s + s
  OBVIOUS
<1>6. (n + 1) * card.spc + 0 = n * card.spc + card.spc
  BY <1>1, <1>5
<1>. QED BY <1>1, <1>2, <1>3, <1>4, <1>6 DEF Before

LEMMA NextCluster ==
  ASSUME card \in Cards, NEW n \in Nat, Before(card, n, card.spc) < card.size
  PROVE  n + 1 \in Clusters(card)
<1>1. Before(card, n + 1, 0) < card.size
  BY BeforeNext, CardNat
<1>2. n + 1 \in Nat /\ 0 \in Nat
  OBVIOUS
<1>3. Before(card, n + 1, 0) \in Nat /\ Before(card, n + 1, 0) >= n + 1 + 0
  BY <1>2, BeforeNext
<1>. QED BY <1>1, <1>3, CardNat DEF Clusters

LEMMA FirstCluster ==
  ASSUME card \in Cards, 0 < card.size
  PROVE  0 \in Clusters(card) /\ card.chain[0] = card.first
<1>1. Before(card, 0, 0) = 0
  BY BeforeNext
<1>2. 0 \in Clusters(card)
  BY <1>1, CardNat DEF Clusters
<1>. QED BY <1>2, CardFacts DEF ChainIs

LEMMA Cluster ==
  ASSUME card \in Cards, NEW n \in Clusters(card)
  PROVE  /\ n \in Nat /\ card.chain[n] \in Nat
         /\ card.chain[n] >= 2 /\ card.chain[n] < SECTOR
BY CardFacts, Sizes DEF Clusters, ChainIs, Geometry

LEMMA NextOf ==
  ASSUME card \in Cards, NEW n \in Clusters(card), n + 1 \in Clusters(card)
  PROVE  /\ card.chain[n] \in DOMAIN card.next
         /\ card.next[card.chain[n]] = card.chain[n + 1]
BY Cluster, CardFacts DEF ChainIs

(* What a byte of the card is.                                             *)
LEMMA ByteOfFat ==
  ASSUME card \in Cards, NEW a, a \in DOMAIN card.next
  PROVE  ByteOn(card, FatSector(card), a) = card.next[a]
BY DEF ByteOn

LEMMA ByteOfFile ==
  ASSUME card \in Cards, NEW n \in Clusters(card), NEW off \in 0 .. card.spc - 1, NEW a \in Nat,
         Before(card, n, off) + a < card.size
  PROVE  ByteOn(card, DataSector(card, card.chain[n], off), a)
           = card.data[Before(card, n, off) + a]
<1> DEFINE sector == DataSector(card, card.chain[n], off)
           here == {p \in Clusters(card) \X (0 .. card.spc - 1) :
                      DataSector(card, card.chain[p[1]], p[2]) = sector}
<1>1. sector # FatSector(card)
  <2>1. card.chain[n] \in Nat /\ card.chain[n] >= 2
    BY Cluster
  <2>2. off \in Nat
    BY CardNat
  <2>. QED BY <2>1, <2>2, SectorNat
<1>2. <<n, off>> \in here
  OBVIOUS
<1>3. ASSUME NEW p \in here PROVE p[1] = n /\ p[2] = off
  <2>1. p[1] \in Clusters(card) /\ p[2] \in 0 .. card.spc - 1
        /\ DataSector(card, card.chain[p[1]], p[2]) = sector
    BY <1>3
  <2>2. card.chain[p[1]] = card.chain[n] /\ p[2] = off
    BY <2>1, SectorOfOne, Cluster
  <2>. QED BY <2>1, <2>2, CardFacts DEF ChainIs
<1>4. (CHOOSE p \in here : TRUE) \in here
  BY <1>2
<1>5. (CHOOSE p \in here : TRUE)[1] = n /\ (CHOOSE p \in here : TRUE)[2] = off
  BY <1>3, <1>4
<1>6. here # {}
  BY <1>2
<1> HIDE DEF sector
<1>7. ByteOn(card, sector, a) =
        LET p == CHOOSE p \in here : TRUE
            at == Before(card, p[1], p[2]) + a
        IN  IF at < card.size THEN card.data[at] ELSE 0
  BY <1>1, <1>6 DEF ByteOn
<1>. QED BY <1>5, <1>7 DEF sector

LEMMA ByteNat ==
  ASSUME card \in Cards, NEW sector, NEW a \in Nat
  PROVE  ByteOn(card, sector, a) \in Nat
<1> DEFINE here == {p \in Clusters(card) \X (0 .. card.spc - 1) :
                      DataSector(card, card.chain[p[1]], p[2]) = sector}
           p == CHOOSE p \in here : TRUE
           at == Before(card, p[1], p[2]) + a
<1>1. CASE sector = FatSector(card)
  BY <1>1, CardFacts DEF ByteOn, Geometry
<1>2. CASE sector # FatSector(card) /\ here = {}
  BY <1>2 DEF ByteOn
<1>3. CASE sector # FatSector(card) /\ here # {}
  <2>1. p \in here
    BY <1>3
  <2> HIDE DEF p
  <2>2. p[1] \in Clusters(card) /\ p[2] \in 0 .. card.spc - 1
    BY <2>1
  <2>3. at \in Nat /\ at = Before(card, p[1], p[2]) + a
    <3>1. p[1] \in Nat /\ p[2] \in Nat
      BY <2>2, Cluster, CardNat
    <3>2. Before(card, p[1], p[2]) \in Nat
      BY <3>1, BeforeNext
    <3>. QED BY <3>2
  <2>4. at < card.size => card.data[at] \in Nat
    BY <2>3, CardFacts DEF Geometry, Byte
  <2>5. ByteOn(card, sector, a) = IF at < card.size THEN card.data[at] ELSE 0
    BY <1>3 DEF ByteOn, p
  <2>. QED BY <2>4, <2>5
<1>. QED BY <1>1, <1>2, <1>3
-----------------------------------------------------------------------------
(* The reader and the card host.                                           *)
LEMMA HandedOver ==
  ASSUME TypeOK, ReaderHost, Rest
  PROVE  w_init_done => Quiet
<1>. SUFFICES ASSUME r_init_state = 5 PROVE Quiet
  BY DEF w_init_done
<1>1. toRest <= 0
  BY DEF Rest, timeLeft
<1>2. rdState \notin {1, 11}
  BY <1>1 DEF toRest
<1>. QED BY <1>2 DEF ReaderHost

LEMMA ReaderHostStep ==
  ASSUME TypeOK, ReaderHost, ReaderPlace, Chosen, Rest, Tick
  PROVE  ReaderHost'
<1>1. HostTick(psel) /\ ReaderTick(frbusy(r_init_state, r_sd_state))
  BY HandedOver DEF Tick, LoaderTick, HostTick, Quiet
<1>2. /\ ctrlstate \in {0, 2, 15, 16} /\ pready \in BOOLEAN /\ mover \in 0 .. 4
      /\ rdState \in {0, 1, 2, 3, 10, 11, 12, 13, 14, 15}
      /\ psel \in BOOLEAN /\ pwrite \in BOOLEAN /\ rdone \in BOOLEAN /\ waddr \in Nat
  BY Sizes DEF TypeOK, LoaderTypeOK
<1>3. filesystem_state \in {"RESET", "SEARCH_MBR"} /\ ~rdone
        => filesystem_state' \in {"RESET", "SEARCH_MBR"}
  BY DEF Tick, LoaderTick, FindTick, Ask
<1>. USE DEF Quiet, HostIdle, sdsbusy, sdstate
<1>4. CASE AskSector
  BY <1>1, <1>2, <1>3, <1>4 DEF AskSector, HostTick, ReaderHost, ReaderPlace
<1>5. CASE AwaitSector
  BY <1>1, <1>2, <1>3, <1>5 DEF AwaitSector, HostTick, ReaderHost, ReaderPlace
<1>6. CASE AskByte(frbusy(r_init_state, r_sd_state))
  BY <1>1, <1>2, <1>3, <1>6 DEF AskByte, HostTick, ReaderHost, ReaderPlace
<1>7. CASE TakeByte
  <2>0. rdState = 11 /\ ~rdone /\ mover = 0
    BY <1>2, <1>7 DEF TakeByte, ReaderHost, ReaderPlace
  <2>1a. rsector' = rsector /\ rdone' = rdone /\ pwrite' = pwrite
    BY <1>7 DEF TakeByte
  <2>1b. IF pready THEN ~psel' /\ rdState' = 12 ELSE psel' = psel /\ rdState' = 11
    BY <2>0, <1>7 DEF TakeByte
  <2>1. /\ rdState = 11 /\ rsector' = rsector /\ rdone' = rdone
        /\ IF pready THEN ~psel' /\ rdState' = 12 ELSE psel' = psel /\ rdState' = 11
        /\ pwrite' = pwrite
        /\ ~rdone /\ mover = 0
    BY <2>0, <2>1a, <2>1b
  <2>2. mover' = 0 /\ blk' = blk
    BY <1>1, <2>1 DEF HostTick, ReaderHost
  <2>3. CASE pready
    BY <1>1, <1>2, <2>1, <2>2, <2>3 DEF HostTick, ReaderHost
  <2>4. CASE ~pready
    BY <1>1, <1>2, <2>1, <2>2, <2>4 DEF HostTick, ReaderHost
  <2>. QED BY <2>3, <2>4
<1>8. CASE NextByte
  BY <1>1, <1>2, <1>3, <1>8 DEF NextByte, HostTick, ReaderHost, ReaderPlace
<1>9. CASE SectorDone
  BY <1>1, <1>2, <1>3, <1>9 DEF SectorDone, HostTick, ReaderHost, ReaderPlace
<1>. QED BY <1>1, <1>4, <1>5, <1>6, <1>7, <1>8, <1>9 DEF ReaderTick

LEMMA ReaderPlaceStep ==
  ASSUME TypeOK, ReaderPlace, Tick
  PROVE  ReaderPlace'
<1>1. ReaderTick(frbusy(r_init_state, r_sd_state))
  BY DEF Tick, LoaderTick
<1>2. /\ rdState \in {0, 1, 2, 3, 10, 11, 12, 13, 14, 15}
      /\ rdone \in BOOLEAN /\ waddr \in 0 .. SECTOR /\ outen \in BOOLEAN /\ SECTOR \in Nat
      /\ SECTOR >= 8
  BY Sizes DEF TypeOK, LoaderTypeOK
<1>. QED
  BY <1>1, <1>2 DEF ReaderTick, AskSector, AwaitSector, AskByte, TakeByte, NextByte, SectorDone,
                    Unread, ReaderPlace

(* The steps of the machine that chooses the sectors.                      *)
LEMMA InitStays ==
  ASSUME TypeOK, Tick
  PROVE  r_init_state # 1 => r_init_state' # 1
BY DEF Tick, InitState, TypeOK

LEMMA ChosenStep ==
  ASSUME TypeOK, ReaderPlace, Chosen, Tick
  PROVE  Chosen'
<1>1. /\ ReaderTick(frbusy(r_init_state, r_sd_state)) /\ FindTick /\ card' = card
      /\ r_init_state # 1 => r_init_state' # 1
  BY InitStays DEF Tick, LoaderTick
<1>2. /\ rdState \in {0, 1, 2, 3, 10, 11, 12, 13, 14, 15}
      /\ rdone \in BOOLEAN /\ waddr \in Nat /\ read_start \in BOOLEAN
      /\ filesystem_state \in Reading \cup {"RESET", "DONE"} /\ search_fat \in BOOLEAN
      /\ curr_cluster \in Nat /\ cluster_sector_offset \in Nat
      /\ target_cluster \in Nat /\ card \in Cards
  BY Sizes DEF TypeOK, LoaderTypeOK
<1>3. CASE ~rdone
  <2>1. Ask
    BY <1>1, <1>3 DEF FindTick
  <2>2. /\ curr_cluster' = curr_cluster /\ cluster_sector_offset' = cluster_sector_offset
        /\ search_fat' = search_fat /\ read_sector_no' = read_sector_no
        /\ filesystem_state = "RESET" => filesystem_state' = "SEARCH_MBR"
        /\ filesystem_state # "RESET" => filesystem_state' = filesystem_state
    BY <2>1 DEF Ask
  <2>2a. read_start' <=> filesystem_state \in Reading
    BY <2>1, Zenon DEF Ask
  <2>3. CASE AskSector
    BY <1>1, <1>2, <1>3, <2>2, <2>2a, <2>3 DEF AskSector, Chosen, Reading
  <2>4. CASE AwaitSector
    BY <1>1, <1>2, <1>3, <2>2, <2>2a, <2>4 DEF AwaitSector, Chosen, Reading
  <2>5. CASE AskByte(frbusy(r_init_state, r_sd_state))
    BY <1>1, <1>2, <1>3, <2>2, <2>2a, <2>5 DEF AskByte, frbusy, Chosen, Reading
  <2>6. CASE TakeByte
    <3>1. rdState = 11 /\ rdState' \in {11, 12} /\ rdone' = rdone /\ rsector' = rsector
      BY <2>6 DEF TakeByte
    <3>. QED
      BY <1>1, <1>2, <1>3, <2>2, <2>2a, <3>1 DEF Chosen, Reading
  <2>7. CASE NextByte
    <3>1. /\ rdState \in {12, 13} /\ rsector' = rsector
          /\ (rdState' = 14 /\ rdone') \/ (rdState' \in {10, 13} /\ ~rdone')
      <4>0. waddr \in Nat /\ SECTOR \in Nat
        BY <1>2, Sizes
      <4>1. rdone' <=> rdState = 13 /\ waddr >= SECTOR
        BY <2>7, Zenon DEF NextByte
      <4>2. /\ rdState \in {12, 13} /\ rsector' = rsector
            /\ rdState' = IF rdState = 12 THEN 13 ELSE IF waddr < SECTOR THEN 10 ELSE 14
        BY <2>7 DEF NextByte
      <4>. QED BY <4>0, <4>1, <4>2
    <3>. QED
      BY <1>1, <1>2, <1>3, <2>2, <2>2a, <3>1 DEF Chosen, Reading
  <2>8. CASE SectorDone
    <3>1. /\ rdState \in {14, 15} /\ ~rdone'
          /\ IF read_start THEN (rdState = 14 /\ rdState' = 14) \/ (rdState = 15 /\ rdState' = 0)
                           ELSE rdState' = 15
      BY <1>2, <2>8 DEF SectorDone
    <3>2. CASE rdState' = 0
      BY <1>1, <1>2, <1>3, <2>2, <2>2a, <3>1, <3>2 DEF Chosen, Reading
    <3>3. CASE rdState' = 14
      BY <1>1, <1>2, <1>3, <2>2, <2>2a, <3>1, <3>3 DEF Chosen, Reading
    <3>4. CASE rdState' = 15
      BY <1>1, <1>2, <1>3, <2>2, <2>2a, <3>1, <3>4 DEF Chosen, Reading
    <3>. QED BY <3>1, <3>2, <3>3, <3>4
  <2>. QED BY <1>1, <2>3, <2>4, <2>5, <2>6, <2>7, <2>8 DEF ReaderTick
<1>4. CASE rdone
  <2>1. rdState = 14 /\ read_start' = FALSE /\ rdState' \in {14, 15} /\ rdone' = FALSE
    BY <1>1, <1>4 DEF ReaderPlace, FindTick, ReaderTick, AskSector, AwaitSector, AskByte,
                      TakeByte, NextByte, SectorDone
  <2>2. SectorDone
    BY <1>1, <2>1 DEF ReaderTick, AskSector, AwaitSector, AskByte, TakeByte, NextByte
  <2>3. rdState' = 14 /\ filesystem_state \in Reading /\ r_init_state # 1
    BY <1>4, <2>1, <2>2 DEF SectorDone, Chosen
  <2>4. SearchMbr \/ SearchDbr \/ ListRoot16 \/ ListRoot32 \/ ReadFile \/ LookedUp
    BY <1>1, <1>4 DEF FindTick
  <2>5. /\ filesystem_state' # "RESET"
        /\ search_fat' => filesystem_state' \in {"LS_ROOT_FAT32", "READ_A_FILE"}
    BY <2>3, <2>4 DEF Chosen, SearchMbr, SearchDbr, ListRoot16, ListRoot32, ReadFile, LookedUp,
         Fetch, Stop, Stay, LookUp, Follow, Reading
  <2>6. filesystem_state' \in {"LS_ROOT_FAT32", "READ_A_FILE"} =>
          cluster_sector_offset' < card.spc
    <3>1. card.spc \in Nat /\ card.spc >= 1
      BY <1>2, CardNat
    <3>2. CASE SearchMbr
      BY <2>3, <3>2 DEF SearchMbr
    <3>3. CASE SearchDbr
      BY <1>2, <2>3, <3>1, <3>3 DEF SearchDbr, Fetch, Stop
    <3>4. CASE ListRoot16
      BY <1>2, <2>3, <3>1, <3>4 DEF ListRoot16, Fetch, Stop, Stay
    <3>5. CASE ListRoot32
      BY <1>2, <2>3, <3>1, <3>5 DEF ListRoot32, Fetch, Follow, More, LookUp, Stay, Chosen
    <3>6. CASE ReadFile
      BY <1>2, <2>3, <3>1, <3>6 DEF ReadFile, Fetch, Follow, More, LookUp, Stay, Chosen
    <3>7. CASE LookedUp
      BY <1>2, <2>3, <3>1, <3>7 DEF LookedUp, Fetch, Stop, Stay, Chosen
    <3>. QED BY <2>4, <3>2, <3>3, <3>4, <3>5, <3>6, <3>7
  <2>. QED
    BY <1>1, <2>1, <2>3, <2>5, <2>6 DEF Chosen, Reading
<1>. QED BY <1>3, <1>4
-----------------------------------------------------------------------------
(* Types.                                                                  *)
LEMMA WordNat ==
  ASSUME NEW a \in Nat, NEW b \in Nat, NEW c \in Nat, NEW d \in Nat
  PROVE  WordOf(a, b, c, d) \in Nat
<1>1. BASE \in Nat
  BY Sizes
<1>2. BASE * d \in Nat
  BY <1>1
<1>3. BASE * (c + BASE * d) \in Nat
  BY <1>1, <1>2
<1>4. BASE * (b + BASE * (c + BASE * d)) \in Nat
  BY <1>1, <1>3
<1>. QED BY <1>4 DEF WordOf

LEMMA PlusNat ==
  ASSUME NEW a \in Nat, NEW b \in Nat
  PROVE  Plus(a, b) \in Nat
<1>1. BASE \in Nat /\ BASE >= 1
  BY Sizes
<1>2. BASE * BASE \in Nat /\ BASE * BASE >= 1
  BY <1>1
<1>3. BASE * BASE * BASE \in Nat /\ BASE * BASE * BASE >= 1
  BY <1>1, <1>2
<1>4. PICK m \in Nat : m = BASE * BASE * BASE * BASE /\ m >= 1
  BY <1>1, <1>3
<1>5. (a + b) % m \in Nat
  BY <1>4
<1>. QED BY <1>4, <1>5 DEF Plus

LEMMA FileWordNat ==
  ASSUME card \in Cards, NEW k \in Nat, 4 * k + 3 < card.size
  PROVE  FileWord(k) \in Nat
<1>1. \A i \in 0 .. card.size - 1 : card.data[i] \in Nat
  BY CardNat DEF Byte
<1>2. 4 * k \in 0 .. card.size - 1 /\ 4 * k + 1 \in 0 .. card.size - 1
      /\ 4 * k + 2 \in 0 .. card.size - 1 /\ 4 * k + 3 \in 0 .. card.size - 1
  BY CardNat
<1>. QED BY <1>1, <1>2, WordNat DEF FileWord

LEMMA ReaderTypes ==
  ASSUME TypeOK, ReaderPlace, Tick
  PROVE  /\ card' \in Cards
         /\ ctrlstate' \in {0, 2, 15, 16} /\ pready' \in BOOLEAN
         /\ blk' \in Nat \cup {None} /\ mover' \in 0 .. 4
         /\ rdState' \in {0, 1, 2, 3, 10, 11, 12, 13, 14, 15}
         /\ psel' \in BOOLEAN /\ pwrite' \in BOOLEAN
         /\ waddr' \in 0 .. SECTOR /\ rsector' \in Int /\ raddr' \in 0 .. SECTOR - 1
         /\ outen' \in BOOLEAN /\ rdone' \in BOOLEAN /\ rdata' \in Nat
<1>. USE DEF TypeOK, LoaderTypeOK
<1>1. /\ ReaderTick(frbusy(r_init_state, r_sd_state))
      /\ HostTick(~w_init_done /\ psel) /\ card' = card
  BY DEF Tick, LoaderTick
<1>2. SECTOR \in Nat /\ SECTOR >= 8
  BY Sizes
<1>3. /\ ctrlstate' \in {0, 2, 15, 16} /\ pready' \in BOOLEAN
      /\ blk' \in Nat \cup {None} /\ mover' \in 0 .. 4
  <2>1. ctrlstate' \in {0, 2, 15, 16} /\ pready' \in BOOLEAN
    BY <1>1 DEF HostTick
  <2>2. mover' \in 0 .. 4
    BY <1>1, SMTT(30) DEF HostTick
  <2>3. blk' = blk \/ (blk' = rsector /\ 0 <= rsector)
    BY <1>1 DEF HostTick, Readable
  <2>. QED BY <2>1, <2>2, <2>3
<1>4. TakeByte => rdata' \in Nat /\ rdState' \in {11, 12}
  <2>1. blk # None => ByteOn(card, blk, waddr) \in Nat
    BY ByteNat, <1>2
  <2>. QED BY <2>1 DEF TakeByte, Unread
<1>5. rdState' \in {0, 1, 2, 3, 10, 11, 12, 13, 14, 15}
  <2>1. NextByte => rdState' \in {10, 13, 14}
    BY <1>2 DEF NextByte
  <2>2. SectorDone => rdState' \in {0, 14, 15}
    BY DEF SectorDone
  <2>3. AwaitSector => rdState' \in {1, 2, 3, 4, 10} /\ rdState' # 4
    BY DEF AwaitSector
  <2>. QED BY <1>1, <1>4, <2>1, <2>2, <2>3 DEF ReaderTick, AskSector, AskByte
<1>6. psel' \in BOOLEAN /\ pwrite' \in BOOLEAN
  BY <1>1 DEF ReaderTick, AskSector, AwaitSector, AskByte, TakeByte, NextByte, SectorDone
<1>8. waddr' \in 0 .. SECTOR /\ rsector' \in Int
  <2>1. AskSector => waddr' \in {waddr, 0} /\ rsector' \in {rsector, read_sector_no}
    BY DEF AskSector
  <2>2. TakeByte => waddr' \in {waddr, waddr + 1} /\ rsector' = rsector /\ waddr < SECTOR
    BY DEF TakeByte, ReaderPlace
  <2>3. AwaitSector \/ AskByte(frbusy(r_init_state, r_sd_state)) \/ NextByte \/ SectorDone
          => waddr' = waddr /\ rsector' = rsector
    BY DEF AwaitSector, AskByte, NextByte, SectorDone
  <2>. QED BY <1>1, <1>2, <2>1, <2>2, <2>3, SMTT(30) DEF ReaderTick
<1>9. raddr' \in 0 .. SECTOR - 1 /\ outen' \in BOOLEAN
  <2>1. TakeByte => /\ raddr' \in {raddr, waddr} /\ waddr < SECTOR
                    /\ outen' = outen \/ outen' = TRUE
    BY DEF TakeByte, ReaderPlace, Unread
  <2>2. NextByte => raddr' = raddr /\ outen' = FALSE
    BY DEF NextByte
  <2>3. AskSector \/ AwaitSector \/ AskByte(frbusy(r_init_state, r_sd_state)) \/ SectorDone
          => raddr' = raddr /\ outen' = outen
    BY DEF AskSector, AwaitSector, AskByte, SectorDone, Unread
  <2>4. outen' \in BOOLEAN
    BY <1>1, <2>1, <2>2, <2>3 DEF ReaderTick
  <2>5. raddr' \in {raddr, waddr} /\ (raddr' = raddr \/ waddr < SECTOR)
    BY <1>1, <2>1, <2>2, <2>3 DEF ReaderTick
  <2>. QED BY <1>2, <2>4, <2>5
<1>10. rdone' \in BOOLEAN
  <2>1. NextByte => rdone' \in BOOLEAN
    BY Zenon DEF NextByte
  <2>. QED BY <1>1, <2>1 DEF ReaderTick, AskSector, AwaitSector, AskByte, TakeByte, SectorDone
<1>7. rdata' \in Nat
  BY <1>1, <1>4 DEF ReaderTick, AskSector, AwaitSector, AskByte, NextByte,
                    SectorDone, Unread
<1>. QED BY <1>1, <1>3, <1>5, <1>6, <1>7, <1>8, <1>9, <1>10

LEMMA FindTypes ==
  ASSUME TypeOK, Tick
  PROVE  /\ read_start' \in BOOLEAN /\ read_sector_no' \in Int
         /\ filesystem_state' \in Reading \cup {"RESET", "DONE"}
         /\ search_fat' \in BOOLEAN /\ file_found' \in BOOLEAN
         /\ curr_cluster' \in Nat /\ cluster_sector_offset' \in Nat /\ target_cluster' \in Nat
<1>1. /\ filesystem_state \in Reading \cup {"RESET", "DONE"}
      /\ search_fat \in BOOLEAN /\ file_found \in BOOLEAN
      /\ curr_cluster \in Nat /\ cluster_sector_offset \in Nat /\ target_cluster \in Nat
      /\ read_start \in BOOLEAN /\ read_sector_no \in Int /\ rdata \in Nat /\ card \in Cards
  BY DEF TypeOK, LoaderTypeOK
<1>2. FindTick
  BY DEF Tick, LoaderTick
<1>3. target_cluster' \in Nat
  BY <1>1, <1>2 DEF FindTick
<1>4. file_found' \in BOOLEAN
  BY <1>1, <1>2, Zenon DEF FindTick
<1>5. CASE ~rdone
  <2>1. Ask
    BY <1>2, <1>5 DEF FindTick
  <2>. QED BY <1>1, <1>3, <1>4, <2>1 DEF Ask, Reading
<1>6. CASE rdone
  <2>1. SearchMbr \/ SearchDbr \/ ListRoot16 \/ ListRoot32 \/ ReadFile \/ LookedUp
    BY <1>2, <1>6 DEF FindTick
  <2>2. read_start' = FALSE
    BY <1>2, <1>6 DEF FindTick
  <2>3. card.dbr \in Nat /\ card.root \in Nat /\ file_cluster \in Nat /\ FatSector(card) \in Nat
    BY <1>1, CardNat, FileCluster DEF FatSector
  <2>4. ASSUME NEW cl \in Nat, NEW off \in Nat, Fetch(cl, off)
        PROVE  curr_cluster' \in Nat /\ cluster_sector_offset' \in Nat /\ read_sector_no' \in Int
    BY <1>1, <2>4, SectorNat DEF Fetch
  <2> DEFINE Goal == /\ read_sector_no' \in Int /\ search_fat' \in BOOLEAN
                     /\ filesystem_state' \in Reading \cup {"RESET", "DONE"}
                     /\ curr_cluster' \in Nat /\ cluster_sector_offset' \in Nat
  <2>5. ASSUME SearchMbr PROVE Goal
    BY <1>1, <2>3, <2>5 DEF SearchMbr, Reading
  <2>6. ASSUME SearchDbr PROVE Goal
    BY <1>1, <2>3, <2>4, <2>6 DEF SearchDbr, Stop, Reading
  <2>7. ASSUME ListRoot16 PROVE Goal
    BY <1>1, <2>3, <2>4, <2>7 DEF ListRoot16, Stop, Stay, Reading
  <2>8. ASSUME ListRoot32 \/ ReadFile PROVE Goal
    <3>2. LookUp => Goal
      BY <1>1, <2>3 DEF LookUp, Stay
    <3>3. Follow => Goal
      BY <1>1, <2>4 DEF Follow, Stay
    <3>4. Fetch(file_cluster, 0) /\ filesystem_state' = "READ_A_FILE" /\ UNCHANGED search_fat
            => Goal
      BY <1>1, <2>3, <2>4 DEF Reading
    <3>5. \/ LookUp \/ Follow
          \/ Fetch(file_cluster, 0) /\ filesystem_state' = "READ_A_FILE" /\ UNCHANGED search_fat
      BY <2>8, Zenon DEF ListRoot32, ReadFile
    <3>. QED BY <3>2, <3>3, <3>4, <3>5
  <2>10. ASSUME LookedUp PROVE Goal
    <3>1. \/ Stop /\ cluster_sector_offset' = 0
          \/ Fetch(target_cluster, 0) /\ Stay
      BY <2>10 DEF LookedUp
    <3>2. search_fat' = FALSE
      BY <2>10 DEF LookedUp
    <3>3. ASSUME Stop, cluster_sector_offset' = 0 PROVE Goal
      <4>1. read_sector_no' \in Int /\ curr_cluster' \in Nat /\ cluster_sector_offset' \in Nat
        BY <1>1, <3>3 DEF Stop
      <4>2. filesystem_state' \in Reading \cup {"RESET", "DONE"}
        BY <3>3 DEF Stop
      <4>. QED BY <3>2, <4>1, <4>2
    <3>4. Fetch(target_cluster, 0) /\ Stay => Goal
      BY <1>1, <2>4, <3>2 DEF Stay
    <3>. QED BY <3>1, <3>3, <3>4
  <2>11. Goal
    BY <2>1, <2>5, <2>6, <2>7, <2>8, <2>10
  <2>. QED BY <1>3, <1>4, <2>2, <2>11
<1>. QED BY <1>5, <1>6

LEMMA SendTypes ==
  ASSUME TypeOK, HandShake, Tick
  PROVE  /\ fptr' \in 0 .. card.size /\ mw' \in [0 .. 3 -> Nat]
         /\ DATA' \in Nat /\ send' \in BOOLEAN
         /\ state' \in {0, 20, 21, 22} /\ senti' \in 0 .. BIN_SIZE
         /\ WE' \in BOOLEAN /\ BOOTDONE' \in BOOLEAN
<1>1. /\ fptr \in 0 .. card.size /\ mw \in [0 .. 3 -> Nat] /\ rdata \in Nat /\ card \in Cards
      /\ DATA \in Nat /\ send \in BOOLEAN
      /\ state \in {0, 20, 21, 22} /\ senti \in 0 .. BIN_SIZE
      /\ WE \in BOOLEAN /\ BOOTDONE \in BOOLEAN
  BY DEF TypeOK, LoaderTypeOK
<1>2. card.size \in Nat /\ BIN_SIZE \in Nat /\ BIN_SIZE % 8 = 0
  BY <1>1, CardNat, Sizes
<1>3. Gather /\ Sender(r_sd_state)
  BY DEF Tick, LoaderTick
<1>4. WordOf(mw[0], mw[1], mw[2], rdata) \in Nat
  <2>1. mw[0] \in Nat /\ mw[1] \in Nat /\ mw[2] \in Nat
    BY <1>1
  <2>. QED BY <1>1, <2>1, WordNat
<1>5. fptr' \in 0 .. card.size /\ DATA' \in Nat
  BY <1>1, <1>2, <1>3, <1>4 DEF Gather
<1>6. mw' \in [0 .. 3 -> Nat]
  BY <1>1, <1>2, <1>3 DEF Gather
<1>10. send' \in BOOLEAN
  BY <1>3, Zenon DEF Gather
<1>7. senti % 4 = 0
  BY DEF HandShake
<1>8. senti' \in 0 .. BIN_SIZE
  <2>1. senti < BIN_SIZE => senti + 4 <= BIN_SIZE
    BY <1>1, <1>2, <1>7
  <2>. QED BY <1>1, <1>2, <1>3, <2>1 DEF Sender
<1>9. state' \in {0, 20, 21, 22} /\ WE' \in BOOLEAN
  BY <1>1, <1>3 DEF Sender
<1>11. BOOTDONE' \in BOOLEAN
  BY <1>1, <1>3, Zenon DEF Sender
<1>. QED BY <1>5, <1>6, <1>8, <1>9, <1>10, <1>11
-----------------------------------------------------------------------------
(* The place in the file.                                                  *)
LEMMA GatherOne ==
  ASSUME TypeOK, ReaderPlace, Tick
  PROVE  /\ fptr \in Nat /\ card.size \in Nat /\ fptr <= card.size /\ card' = card
         /\ rdState = 12 /\ InFile /\ ~search_fat => fptr' = fptr + 1
         /\ ~(rdState = 12 /\ InFile /\ ~search_fat) => fptr' = fptr
<1>1. card \in Cards /\ fptr \in 0 .. card.size
  BY DEF TypeOK, LoaderTypeOK
<1>2. Gather /\ card' = card
  BY DEF Tick, LoaderTick
<1>3. outen <=> rdState = 12
  BY DEF ReaderPlace
<1>4. card.size \in Nat
  BY <1>1, CardNat
<1>. QED BY <1>1, <1>2, <1>3, <1>4 DEF Gather, InFile

(* What the reader has taken of a sector changes with the byte on offer.   *)
LEMMA TakenStep ==
  ASSUME TypeOK, ReaderPlace, Chosen, Tick
  PROVE  /\ taken \in Nat
         /\ rdone => taken = SECTOR /\ taken' = 0 /\ rdState' = 14
         /\ rdState = 12 => taken = raddr /\ taken' = taken + 1
         /\ ~rdone /\ rdState # 12 => taken' = taken
<1>1. ReaderTick(frbusy(r_init_state, r_sd_state))
  BY DEF Tick, LoaderTick
<1>2. /\ rdState \in {0, 1, 2, 3, 10, 11, 12, 13, 14, 15} /\ waddr \in 0 .. SECTOR
      /\ rdone \in BOOLEAN /\ SECTOR \in Nat /\ SECTOR >= 8
  BY Sizes DEF TypeOK, LoaderTypeOK
<1>3. taken \in Nat
  BY <1>2 DEF taken, ReaderPlace
<1>4. CASE rdState = 12
  <2>1. NextByte
    BY <1>1, <1>4 DEF ReaderTick, AskSector, AwaitSector, AskByte, TakeByte, SectorDone
  <2>2. rdState' = 13 /\ waddr' = waddr
    BY <1>4, <2>1 DEF NextByte
  <2>. QED BY <1>2, <1>3, <1>4, <2>2 DEF taken, ReaderPlace
<1>5. CASE rdone
  <2>1. rdState = 14 /\ waddr = SECTOR /\ read_start
    BY <1>5 DEF ReaderPlace, Chosen
  <2>2. SectorDone
    BY <1>1, <2>1 DEF ReaderTick, AskSector, AwaitSector, AskByte, TakeByte, NextByte
  <2>3. rdState' = 14 /\ ~rdone'
    BY <2>1, <2>2 DEF SectorDone
  <2>. QED BY <1>2, <1>3, <1>5, <2>1, <2>3 DEF taken
<1>6. CASE ~rdone /\ rdState # 12
  <2>1. CASE AskSector
    BY <1>2, <1>6, <2>1 DEF AskSector, taken
  <2>2. CASE AwaitSector
    BY <1>2, <1>6, <2>2 DEF AwaitSector, taken, ReaderPlace
  <2>3. CASE AskByte(frbusy(r_init_state, r_sd_state))
    BY <1>2, <1>6, <2>3 DEF AskByte, taken
  <2>4. CASE TakeByte
    <3>1. /\ rdState = 11 /\ rdone' = rdone
          /\ (rdState' = 12 /\ waddr' = waddr + 1) \/ (rdState' = 11 /\ waddr' = waddr)
      BY <2>4 DEF TakeByte
    <3>. QED BY <1>2, <1>6, <3>1 DEF taken
  <2>5. CASE NextByte
    <3>1. rdState = 13 /\ waddr' = waddr
          /\ rdState' = IF waddr < SECTOR THEN 10 ELSE 14
      BY <1>6, <2>5 DEF NextByte
    <3>2. rdone' <=> rdState = 13 /\ waddr >= SECTOR
      BY <2>5, Zenon DEF NextByte
    <3>. QED BY <1>2, <1>6, <3>1, <3>2 DEF taken
  <2>6. CASE SectorDone
    <3>1. rdState \in {14, 15} /\ rdState' \in {0, 14, 15} /\ ~rdone'
      BY <1>6, <2>6 DEF SectorDone
    <3>. QED BY <1>2, <1>3, <1>6, <3>1 DEF taken
  <2>. QED BY <1>1, <2>1, <2>2, <2>3, <2>4, <2>5, <2>6 DEF ReaderTick
<1>. QED BY <1>2, <1>4, <1>5, <1>6

LEMMA EnterFile ==
  ASSUME TypeOK, ReaderPlace, Chosen, Position, Tick, FirstTold,
         filesystem_state # "READ_A_FILE", InFile'
  PROVE  \E n \in Clusters(card') : At(n)'
<1>1. FindTick /\ card' = card /\ card \in Cards
  BY DEF Tick, LoaderTick, TypeOK, LoaderTypeOK
<1>2. fptr' = fptr /\ filesystem_state' = "READ_A_FILE" /\ fptr < card.size
  BY GatherOne DEF InFile
<1>3. rdone
  <2>1. ~rdone => Ask
    BY <1>1 DEF FindTick
  <2>2. Ask => filesystem_state' \in {filesystem_state, "SEARCH_MBR"}
    BY DEF Ask
  <2>. QED BY <1>2, <2>1, <2>2
<1>4. (ListRoot16 \/ ListRoot32) /\ Fetch(file_cluster, 0) /\ ~search_fat'
  <2>1. SearchMbr \/ SearchDbr \/ ListRoot16 \/ ListRoot32 \/ ReadFile \/ LookedUp
    BY <1>1, <1>3 DEF FindTick
  <2>2. ~SearchMbr
    BY <1>2 DEF SearchMbr
  <2>3. ~SearchDbr
    BY <1>2 DEF SearchDbr, Stop
  <2>4. ~ReadFile
    BY DEF ReadFile
  <2>5. ~LookedUp
    BY <1>2 DEF LookedUp, Stop, Stay
  <2>6. CASE ListRoot16
    BY <1>2, <2>6 DEF ListRoot16, Stay, Stop, Chosen
  <2>7. CASE ListRoot32
    BY <1>2, <2>7 DEF ListRoot32, Follow, LookUp, Stay
  <2>. QED BY <2>1, <2>2, <2>3, <2>4, <2>5, <2>6, <2>7
<1>5. filesystem_state \notin {"READ_A_FILE", "DONE"}
  BY <1>4 DEF ListRoot16, ListRoot32
<1>6. fptr = 0
  BY <1>5 DEF Position
<1>7. 0 \in Clusters(card) /\ card.chain[0] = card.first /\ Before(card, 0, 0) = 0
  BY <1>1, <1>2, <1>6, FirstCluster, BeforeNext
<1>8. taken' = 0
  BY <1>3, TakenStep
<1>9. At(0)'
  BY <1>1, <1>2, <1>4, <1>6, <1>7, <1>8, FileCluster DEF At, Fetch
<1>. QED BY <1>1, <1>7, <1>9

LEMMA WithinSector ==
  ASSUME TypeOK, ReaderPlace, Chosen, Position, Tick, FirstTold,
         InFile, InFile', ~rdone, NEW n \in Clusters(card), At(n)
  PROVE  At(n)'
<1>1. FindTick /\ card' = card /\ card \in Cards
  BY DEF Tick, LoaderTick, TypeOK, LoaderTypeOK
<1>2. Ask
  BY <1>1 DEF FindTick
<1>3. /\ curr_cluster' = curr_cluster /\ cluster_sector_offset' = cluster_sector_offset
      /\ search_fat' = search_fat /\ read_sector_no' = read_sector_no
  BY <1>2 DEF Ask
<1>4. target_cluster' = IF search_fat /\ outen /\ raddr = curr_cluster
                        THEN rdata ELSE target_cluster
  BY <1>1 DEF FindTick
<1>5. /\ search_fat \in BOOLEAN /\ curr_cluster \in Nat
      /\ outen <=> rdState = 12
  BY DEF ReaderPlace, TypeOK, LoaderTypeOK
<1>6. Before(card, n, cluster_sector_offset) \in Nat
  BY <1>1, Cluster, BeforeNext DEF TypeOK, LoaderTypeOK
<1>7. CASE ~search_fat
  <2>1. fptr = Before(card, n, cluster_sector_offset) + taken
    BY <1>7 DEF At
  <2>2. fptr' = Before(card, n, cluster_sector_offset) + taken'
    BY <1>6, <1>7, <2>1, GatherOne, TakenStep
  <2>. QED BY <1>1, <1>3, <1>7, <2>2 DEF At
<1>8. CASE search_fat
  <2>1. fptr' = fptr
    BY <1>8, GatherOne
  <2>2. taken' > curr_cluster => target_cluster' = card.next[curr_cluster]
    <3>1. CASE rdState = 12
      <4>1. taken = raddr /\ taken' = taken + 1 /\ taken \in Nat
        BY <3>1, TakenStep
      <4>2. raddr = curr_cluster => rdata = card.next[curr_cluster]
        BY <1>8, <3>1 DEF Position
      <4>3. taken > curr_cluster => target_cluster = card.next[curr_cluster]
        BY <1>8 DEF At
      <4>. QED BY <1>4, <1>5, <1>8, <3>1, <4>1, <4>2, <4>3
    <3>2. CASE rdState # 12
      BY <1>4, <1>5, <1>8, <3>2, TakenStep DEF At
    <3>. QED BY <3>1, <3>2
  <2>. QED BY <1>1, <1>3, <1>8, <2>1, <2>2 DEF At
<1>. QED BY <1>5, <1>7, <1>8

LEMMA NextSector ==
  ASSUME TypeOK, ReaderPlace, Chosen, Position, Tick,
         InFile, InFile', rdone, NEW n \in Clusters(card), At(n)
  PROVE  \E m \in Clusters(card) : At(m)'
<1>1. FindTick /\ card' = card /\ card \in Cards
  BY DEF Tick, LoaderTick, TypeOK, LoaderTypeOK
<1>2. /\ filesystem_state = "READ_A_FILE" /\ filesystem_state' = "READ_A_FILE"
      /\ fptr < card.size
  BY DEF InFile
<1>3. taken = SECTOR /\ taken' = 0 /\ fptr' = fptr /\ rdState = 14
  BY TakenStep, GatherOne DEF ReaderPlace
<1>4. ReadFile \/ LookedUp
  BY <1>1, <1>2 DEF FindTick, SearchMbr, SearchDbr, ListRoot16, ListRoot32
<1>5. /\ curr_cluster \in Nat /\ cluster_sector_offset \in Nat /\ search_fat \in BOOLEAN
      /\ card.spc \in Nat /\ card.size \in Nat /\ n \in Nat /\ cluster_sector_offset < card.spc
  BY <1>1, <1>2, CardNat, Cluster DEF TypeOK, LoaderTypeOK, Chosen
<1>6. CASE ~search_fat
  <2>1. ReadFile
    BY <1>4, <1>6 DEF LookedUp
  <2>2. fptr = Before(card, n, cluster_sector_offset) + SECTOR
    BY <1>3, <1>6 DEF At
  <2>3. fptr = Before(card, n, cluster_sector_offset + 1)
    BY <1>1, <1>5, <2>2, BeforeNext
  <2>4. CASE More
    <3>1. Fetch(curr_cluster, cluster_sector_offset + 1) /\ search_fat' = search_fat
      BY <2>1, <2>4 DEF ReadFile, Follow
    <3>2. fptr' = Before(card, n, cluster_sector_offset') + taken'
      BY <1>1, <1>3, <1>5, <2>3, <3>1, BeforeNext DEF Fetch
    <3>. QED BY <1>1, <1>6, <3>1, <3>2 DEF At, Fetch
  <2>5. CASE ~More
    <3>1. LookUp
      BY <2>1, <2>5 DEF ReadFile
    <3>2. cluster_sector_offset + 1 = card.spc
      BY <1>5, <2>5 DEF More
    <3>. QED BY <1>1, <1>3, <1>5, <1>6, <2>3, <3>1, <3>2 DEF At, LookUp
  <2>. QED BY <2>4, <2>5
<1>7. CASE search_fat
  <2>1. LookedUp
    BY <1>4, <1>7 DEF ReadFile
  <2>2. fptr = Before(card, n, card.spc)
    BY <1>7 DEF At
  <2>3. n + 1 \in Clusters(card)
    BY <1>1, <1>2, <1>5, <2>2, NextCluster
  <2>4. target_cluster = card.chain[n + 1]
    <3>1. curr_cluster = card.chain[n] /\ card.chain[n] < SECTOR
      BY <1>1, Cluster DEF At
    <3>2. target_cluster = card.next[curr_cluster]
      BY <1>3, <1>5, <1>7, <3>1, Sizes DEF At
    <3>. QED BY <1>1, <2>3, <3>1, <3>2, NextOf
  <2>5. Fetch(target_cluster, 0) /\ search_fat' = FALSE
    BY <1>2, <2>1 DEF LookedUp, Stop
  <2>6. fptr' = Before(card, n + 1, 0) + taken'
    <3>1. Before(card, n + 1, 0) = Before(card, n, card.spc) /\ Before(card, n, card.spc) \in Nat
      BY <1>1, <1>5, BeforeNext
    <3>. QED BY <1>3, <2>2, <3>1
  <2>7. At(n + 1)'
    BY <1>1, <2>4, <2>5, <2>6 DEF At, Fetch
  <2>. QED BY <2>3, <2>7
<1>. QED BY <1>5, <1>6, <1>7

LEMMA ByteTaken ==
  ASSUME TypeOK, ReaderHost, ReaderPlace, Chosen, Position, Tick, FirstTold, InFile',
         rdState' = 12
  PROVE  IF search_fat' THEN raddr' = curr_cluster' => rdata' = card'.next[curr_cluster']
                        ELSE rdata' = card'.data[fptr']
<1>1. /\ ReaderTick(frbusy(r_init_state, r_sd_state)) /\ FindTick /\ card' = card
      /\ card \in Cards
  BY DEF Tick, LoaderTick, TypeOK, LoaderTypeOK
<1>2. TakeByte /\ rdState = 11 /\ pready
  <2>1. ~AskSector /\ ~AwaitSector /\ ~AskByte(frbusy(r_init_state, r_sd_state)) /\ ~SectorDone
    BY DEF AskSector, AwaitSector, AskByte, SectorDone
  <2>2. ~NextByte
    BY DEF NextByte
  <2>. QED BY <1>1, <2>1, <2>2 DEF ReaderTick, TakeByte
<1>3. ~rdone /\ blk = rsector /\ rsector = read_sector_no
  BY <1>2 DEF ReaderHost, ReaderPlace, Chosen
<1>5. Ask
  BY <1>1, <1>3 DEF FindTick
<1>6. /\ curr_cluster' = curr_cluster /\ cluster_sector_offset' = cluster_sector_offset
      /\ search_fat' = search_fat /\ read_sector_no' = read_sector_no
      /\ filesystem_state' = filesystem_state \/ filesystem_state' = "SEARCH_MBR"
  BY <1>5 DEF Ask
<1>7. fptr' = fptr /\ InFile
  BY <1>1, <1>2, <1>6, GatherOne DEF InFile
<1>8. PICK n \in Clusters(card) : At(n)
  BY <1>7 DEF Position
<1>9. taken = waddr /\ waddr \in Nat /\ waddr < SECTOR
  BY <1>2, Sizes DEF taken, ReaderPlace, TypeOK, LoaderTypeOK
<1>10. n \in Nat /\ card.chain[n] \in Nat /\ card.chain[n] >= 2 /\ card.size \in Nat
  BY <1>1, CardNat, Cluster
<1>4. raddr' = waddr /\ rdata' = ByteOn(card, blk, waddr)
  <2>1. read_sector_no \in Nat
    BY <1>1, <1>8, <1>10, SectorNat DEF At, TypeOK, LoaderTypeOK
  <2>2. blk # None
    BY <1>3, <2>1, SizesAssumption
  <2>. QED BY <1>2, <2>2 DEF TakeByte
<1>11. CASE search_fat
  <2>1. n + 1 \in Clusters(card)
    BY <1>1, <1>7, <1>8, <1>10, <1>11, NextCluster DEF At, InFile
  <2>2. curr_cluster \in DOMAIN card.next
    BY <1>1, <1>8, <2>1, NextOf DEF At
  <2>3. blk = FatSector(card)
    BY <1>3, <1>8, <1>11 DEF At
  <2>. QED BY <1>1, <1>4, <1>6, <1>11, <2>2, <2>3, ByteOfFat
<1>12. CASE ~search_fat
  <2>1. /\ blk = DataSector(card, card.chain[n], cluster_sector_offset)
        /\ fptr = Before(card, n, cluster_sector_offset) + waddr
    BY <1>3, <1>8, <1>9, <1>12 DEF At
  <2>2. cluster_sector_offset \in 0 .. card.spc - 1
    BY <1>1, <1>7, CardNat, SMTT(30) DEF InFile, Chosen, TypeOK, LoaderTypeOK
  <2>3. fptr < card.size
    BY <1>7 DEF InFile
  <2>4. ByteOn(card, blk, waddr) = card.data[fptr]
    BY <1>1, <1>8, <1>9, <2>1, <2>2, <2>3, ByteOfFile
  <2>. QED BY <1>1, <1>4, <1>6, <1>7, <1>12, <2>4
<1>. QED BY <1>6, <1>11, <1>12 DEF TypeOK, LoaderTypeOK

LEMMA PositionStep ==
  ASSUME TypeOK, ReaderHost, ReaderPlace, Chosen, Position, Tick
  PROVE  Position'
<1>1. FindTick /\ card' = card
  BY DEF Tick, LoaderTick
<1>2. /\ filesystem_state = "DONE" => filesystem_state' = "DONE"
      /\ filesystem_state = "READ_A_FILE" => filesystem_state' \in {"READ_A_FILE", "DONE"}
  BY <1>1 DEF FindTick, Ask, SearchMbr, SearchDbr, ListRoot16, ListRoot32, ReadFile, LookedUp,
              Follow, LookUp, Stay, Stop
<1>3. filesystem_state' \notin {"READ_A_FILE", "DONE"} => fptr' = 0
  BY <1>2, GatherOne DEF Position, InFile
<1>. FirstTold' <=> FirstTold
  BY <1>1 DEF FirstTold
<1>4. ASSUME FirstTold, InFile' PROVE \E n \in Clusters(card') : At(n)'
  <2>1. CASE filesystem_state = "READ_A_FILE"
    <3>1. InFile
      BY <1>1, <1>4, <2>1, GatherOne DEF InFile
    <3>2. PICK n \in Clusters(card) : At(n)
      BY <1>4, <3>1 DEF Position
    <3>. QED BY <1>1, <1>4, <3>1, <3>2, WithinSector, NextSector
  <2>. QED BY <1>4, <2>1, EnterFile
<1>5. ASSUME FirstTold, InFile', rdState' = 12
      PROVE  IF search_fat' THEN raddr' = curr_cluster' => rdata' = card'.next[curr_cluster']
                            ELSE rdata' = card'.data[fptr']
  BY <1>5, ByteTaken
<1>. QED BY <1>3, <1>4, <1>5 DEF Position
-----------------------------------------------------------------------------
(* The words, and how they are passed on.                                  *)
LEMMA Quarters ==
  ASSUME NEW p \in Nat
  PROVE  /\ p \div 4 \in Nat /\ p % 4 \in 0 .. 3 /\ p = 4 * (p \div 4) + (p % 4)
         /\ p % 4 < 3 => (p + 1) \div 4 = p \div 4 /\ (p + 1) % 4 = (p % 4) + 1
         /\ p % 4 = 3 => (p + 1) \div 4 = (p \div 4) + 1 /\ (p + 1) % 4 = 0
         /\ p % 8 \in 0 .. 7
         /\ p % 8 < 4 => p % 4 = p % 8
         /\ p % 8 >= 4 => p % 4 = (p % 8) - 4
         /\ p % 8 < 7 => (p + 1) % 8 = (p % 8) + 1
         /\ p % 8 = 7 => (p + 1) % 8 = 0
<1>1. p \div 4 \in Nat /\ p % 4 \in 0 .. 3 /\ p = 4 * (p \div 4) + (p % 4)
  OBVIOUS
<1>2. p % 4 < 3 => (p + 1) \div 4 = p \div 4 /\ (p + 1) % 4 = (p % 4) + 1
  OBVIOUS
<1>3. p % 4 = 3 => (p + 1) \div 4 = (p \div 4) + 1 /\ (p + 1) % 4 = 0
  OBVIOUS
<1>4. /\ p % 8 \in 0 .. 7
      /\ p % 8 < 7 => (p + 1) % 8 = (p % 8) + 1
      /\ p % 8 = 7 => (p + 1) % 8 = 0
  OBVIOUS
<1>5. /\ p % 8 < 4 => p % 4 = p % 8
      /\ p % 8 >= 4 => p % 4 = (p % 8) - 4
  OBVIOUS
<1>. QED BY <1>1, <1>2, <1>3, <1>4, <1>5

(* A byte of the file comes in, and it is the last of a word.              *)
ByteIn == rdState = 12 /\ InFile /\ ~search_fat
WordIn == ByteIn /\ fptr % 4 = 3

LEMMA Gathers ==
  ASSUME TypeOK, ReaderPlace, Tick
  PROVE  /\ fptr' = IF ByteIn THEN fptr + 1 ELSE fptr
         /\ words' = IF WordIn THEN words + 1 ELSE words
         /\ send' <=> WordIn
         /\ mw' = IF ByteIn THEN [mw EXCEPT ![fptr % 4] = rdata] ELSE mw
         /\ DATA' = IF WordIn THEN WordOf(mw[0], mw[1], mw[2], rdata) ELSE DATA
         /\ ByteIn => rdState' = 13
<1>1. card \in Cards /\ fptr \in 0 .. card.size /\ card.size \in Nat
  BY CardNat DEF TypeOK, LoaderTypeOK
<1>2. Gather /\ ReaderTick(frbusy(r_init_state, r_sd_state))
  BY DEF Tick, LoaderTick
<1>3. ByteIn <=> outen /\ filesystem_state = "READ_A_FILE" /\ ~search_fat /\ fptr < card.size
  BY DEF ByteIn, InFile, ReaderPlace
<1>4. CASE ByteIn
  <2>1. /\ fptr' = fptr + 1 /\ mw' = [mw EXCEPT ![fptr % 4] = rdata]
        /\ DATA' = IF fptr % 4 = 3 THEN WordOf(mw[0], mw[1], mw[2], rdata) ELSE DATA
    BY <1>2, <1>3, <1>4 DEF Gather
  <2>2. send' <=> fptr % 4 = 3
    BY <1>2, <1>3, <1>4, Zenon DEF Gather
  <2>3. rdState' = 13
    BY <1>2, <1>4 DEF ByteIn, ReaderTick, AskSector, AwaitSector, AskByte, TakeByte, NextByte,
                      SectorDone
  <2>4. words' = IF fptr % 4 = 3 THEN words + 1 ELSE words
    BY <1>1, <2>1, Quarters DEF words
  <2>. QED BY <1>4, <2>1, <2>2, <2>3, <2>4 DEF WordIn
<1>5. CASE ~ByteIn
  BY <1>2, <1>3, <1>5 DEF Gather, WordIn, words
<1>. QED BY <1>4, <1>5

LEMMA GatheredStep ==
  ASSUME TypeOK, ReaderPlace, Position, Gathered, Tick
  PROVE  Gathered'
<1>1. /\ card \in Cards /\ fptr \in Nat /\ card' = card /\ mw \in [0 .. 3 -> Nat]
  BY CardNat DEF TypeOK, LoaderTypeOK, Tick, LoaderTick
<1>2. words \in Nat /\ fptr % 4 \in 0 .. 3 /\ fptr = 4 * words + (fptr % 4)
  BY <1>1, Quarters DEF words
<1>3. FirstTold /\ ByteIn => rdata = card.data[fptr]
  BY DEF ByteIn, Position
<1>. FirstTold' <=> FirstTold
  BY <1>1 DEF FirstTold
<1>4. CASE ~ByteIn
  <2>1. fptr' = fptr /\ words' = words /\ mw' = mw /\ DATA' = DATA /\ ~send'
    BY <1>4, Gathers DEF WordIn
  <2>. QED BY <1>1, <1>2, <2>1 DEF Gathered, FileWord
<1>5. CASE ByteIn /\ ~WordIn
  <2>1. /\ fptr' = fptr + 1 /\ words' = words /\ mw' = [mw EXCEPT ![fptr % 4] = rdata]
        /\ DATA' = DATA /\ ~send'
    BY <1>5, Gathers
  <2>2. fptr' % 4 = (fptr % 4) + 1
    BY <1>1, <1>2, <1>5, <2>1, Quarters DEF WordIn
  <2>3. ASSUME FirstTold, NEW j \in 0 .. 3, j < fptr' % 4 PROVE mw'[j] = card'.data[4 * words' + j]
    <3>1. CASE j < fptr % 4
      BY <1>1, <1>2, <2>1, <2>3, <3>1 DEF Gathered
    <3>2. CASE j = fptr % 4
      BY <1>1, <1>2, <1>3, <1>5, <2>1, <2>3, <3>2
    <3>. QED BY <1>2, <2>2, <2>3, <3>1, <3>2
  <2>4. FirstTold /\ words' > 0 => DATA' = FileWord(words - 1)'
    BY <1>1, <2>1 DEF Gathered, FileWord
  <2>. QED BY <2>1, <2>3, <2>4 DEF Gathered
<1>6. CASE WordIn
  <2>1. ByteIn /\ fptr % 4 = 3
    BY <1>6 DEF WordIn
  <2>2. /\ fptr' = fptr + 1 /\ words' = words + 1 /\ rdState' = 13
        /\ DATA' = WordOf(mw[0], mw[1], mw[2], rdata)
    BY <1>6, <2>1, Gathers
  <2>3. fptr' % 4 = 0
    BY <1>1, <2>1, <2>2, Quarters
  <2>4. FirstTold =>
        /\ mw[0] = card.data[4 * words + 0] /\ mw[1] = card.data[4 * words + 1]
        /\ mw[2] = card.data[4 * words + 2] /\ rdata = card.data[4 * words + 3]
    BY <1>2, <1>3, <2>1 DEF Gathered
  <2>5. FirstTold => DATA' = FileWord(words)
    BY <1>2, <2>2, <2>4 DEF FileWord
  <2>6. FirstTold => DATA' = FileWord(words - 1)'
    BY <1>1, <1>2, <2>2, <2>5 DEF FileWord
  <2>7. words' > 0 /\ words' \in Nat
    BY <1>2, <2>2
  <2>. QED BY <2>2, <2>3, <2>6, <2>7 DEF Gathered
<1>. QED BY <1>4, <1>5, <1>6

(* A word is complete in time.                                             *)
LEMMA InTime ==
  ASSUME TypeOK, Race, Gathered, WordIn
  PROVE  ~Pending \/ (state = 22 /\ r_sd_state = 0)
<1>1. /\ fptr \in Nat /\ busy \in Nat /\ state \in {0, 20, 21, 22}
      /\ rdState = 12 /\ fptr % 4 = 3
  BY CardNat DEF TypeOK, LoaderTypeOK, WordIn, ByteIn
<1>2. ~Offered
  BY <1>1 DEF Gathered, Offered
<1>3. fptr % 8 > 4 \/ fptr % 8 < 4
  BY <1>1, Quarters
<1>4. T = 1
  BY <1>1 DEF T, byteIn
<1>5. CASE fptr % 8 < 4 /\ Pending
  <2>1. U <= 1
    BY <1>4, <1>5 DEF Race
  <2>. QED BY <1>1, <2>1 DEF U
<1>. QED BY <1>3, <1>5 DEF Race

(* While the copy has words to store, it has the port to itself.           *)
LEMMA CopyOnly ==
  ASSUME TypeOK, Chosen, Position, HandShake, Stages, Zeroed, ReadBack
  PROVE  /\ words > 0 => r_init_state # 1
         /\ r_init_state = 1 => words = 0 /\ r_initaddr3 = 0 /\ r_sd_state = 0 /\ state = 0 /\ ~WE
         /\ r_init_state # 1 => ~r_zero_we
         /\ r_init_state # 6 => ~r_set_dram_le
         /\ state \in {20, 21} \/ Offered \/ r_sd_state = 1 =>
              r_init_state = 3 /\ r_initaddr3 < BinWords
<1>1. /\ fptr \in Nat /\ r_init_state \in {1, 3, 4, 5, 6} /\ senti \in 0 .. BIN_SIZE
      /\ state \in {0, 20, 21, 22} /\ r_sd_state \in 0 .. 2 /\ r_initaddr3 \in 0 .. BinWords
      /\ r_zeroaddr \in 0 .. BinWords /\ BOOTDONE \in BOOLEAN
  BY CardNat DEF TypeOK, LoaderTypeOK
<1>2. words \in Nat /\ (words > 0 <=> fptr >= 4)
  BY <1>1, Quarters DEF words
<1>3. r_init_state = 1 => fptr = 0
  BY DEF Chosen, Position
<1>4. words > 0 => r_init_state # 1
  BY <1>2, <1>3
<1>5. r_init_state = 1 => words = 0 /\ r_initaddr3 = 0 /\ r_sd_state = 0 /\ state = 0 /\ ~WE
  BY <1>1, <1>2, <1>3, Sizes DEF HandShake, Pending
<1>6. state \in {20, 21} \/ Offered \/ r_sd_state = 1 => r_initaddr3 < BinWords /\ words > 0
  <2>1. Offered => state = 0
    BY DEF HandShake, Offered
  <2>2. CASE state = 20 \/ (state = 0 /\ Offered)
    <3>1. Pending /\ senti = 4 * (words - 1) /\ r_initaddr3 = words - 1 /\ words > 0 /\ ~BOOTDONE
      BY <2>2 DEF HandShake, Pending, Offered
    <3>2. senti < BIN_SIZE
      BY <2>2, <3>1 DEF HandShake
    <3>. QED BY <1>1, <1>2, <3>1, <3>2, Sizes
  <2>3. CASE state = 21 \/ (state = 22 /\ r_sd_state = 1)
    <3>1. senti = 4 * words /\ r_initaddr3 = words - 1 /\ words > 0
      BY <2>3 DEF HandShake, Pending
    <3>. QED BY <1>1, <1>2, <3>1, Sizes
  <2>4. r_sd_state = 1 => state \in {21, 22}
    BY <1>1 DEF HandShake
  <2>. QED BY <2>1, <2>2, <2>3, <2>4
<1>7. state \in {20, 21} \/ Offered \/ r_sd_state = 1 => r_init_state # 1
  BY <1>4, <1>6
<1>8. r_initaddr3 < BinWords => r_init_state \in {1, 3}
  BY <1>1, Sizes DEF Stages
<1>9. r_init_state # 1 => ~r_zero_we
  BY DEF Stages, Zeroed
<1>10. r_init_state # 6 => ~r_set_dram_le
  BY DEF ReadBack
<1>. QED BY <1>4, <1>5, <1>6, <1>7, <1>8, <1>9, <1>10

(* What the port does, by who asks.                                        *)
LEMMA PortStep ==
  ASSUME TypeOK, Chosen, Position, HandShake, Stages, Zeroed, ReadBack, Tick
  PROVE  /\ busy > 0 => busy' = busy - 1 /\ mem' = mem /\ odata' = odata
         /\ busy = 0 /\ r_sd_state = 1 =>
              /\ busy' \in 2 .. 22 /\ odata' = odata
              /\ mem' = [mem EXCEPT ![r_initaddr3] = r_sd_init_data]
         /\ busy = 0 /\ r_init_state = 1 /\ r_zero_we =>
              /\ busy' \in 2 .. 22 /\ odata' = odata /\ mem' = [mem EXCEPT ![r_zeroaddr] = 0]
         /\ busy = 0 /\ r_init_state = 6 /\ r_rb_state = 7 =>
              busy' \in 2 .. 22 /\ mem' = mem /\ odata' = mem[r_initaddr6]
         /\ \/ r_init_state = 1 /\ ~r_zero_we
            \/ r_init_state = 3 /\ r_sd_state # 1
            \/ r_init_state \in {4, 5}
            \/ r_init_state = 6 /\ r_rb_state # 7
            => busy' = (IF busy > 0 THEN busy - 1 ELSE 0) /\ mem' = mem /\ odata' = odata
<1>1. PortTick
  BY DEF Tick
<1>2. /\ busy \in Nat /\ r_init_state \in {1, 3, 4, 5, 6} /\ r_zero_we \in BOOLEAN
      /\ r_sd_init_we \in BOOLEAN /\ r_set_dram_le \in BOOLEAN
      /\ \A b \in BusyLengths : b \in 2 .. 22
  BY BusyAssumption DEF TypeOK
<1>3. r_sd_init_we <=> r_sd_state = 1
  BY DEF HandShake
<1>4. r_set_dram_le <=> r_rb_state = 7
  BY DEF ReadBack
<1>5. r_sd_state = 1 => r_init_state = 3
  BY CopyOnly
<1>6. r_init_state # 1 => ~r_zero_we
  BY CopyOnly
<1>7. r_rb_state = 7 => r_init_state = 6
  BY DEF ReadBack
<1>8. w_wr_en <=> (r_init_state = 1 /\ r_zero_we) \/ r_sd_state = 1
  BY <1>2, <1>3, <1>5, <1>6 DEF w_wr_en
<1>9. w_dram_busy <=> busy > 0
  BY DEF w_dram_busy
<1>10. CASE busy > 0
  BY <1>1, <1>2, <1>9, <1>10 DEF PortTick
<1>11. CASE busy = 0 /\ w_wr_en
  <2>1. busy' \in 2 .. 22 /\ odata' = odata /\ mem' = [mem EXCEPT ![w_dram_addr] = w_dram_wdata]
    BY <1>1, <1>2, <1>9, <1>11 DEF PortTick
  <2>2. r_init_state = 1 => w_dram_addr = r_zeroaddr /\ w_dram_wdata = 0
    BY DEF w_dram_addr, w_dram_wdata
  <2>3. r_init_state = 3 => w_dram_addr = r_initaddr3 /\ w_dram_wdata = r_sd_init_data
    BY DEF w_dram_addr, w_dram_wdata
  <2>4. CASE r_sd_state = 1
    BY <1>5, <1>11, <2>1, <2>3, <2>4
  <2>5. CASE r_sd_state # 1
    <3>1. r_init_state = 1 /\ r_zero_we /\ r_rb_state # 7
      BY <1>7, <1>8, <1>11, <2>5
    <3>. QED BY <1>11, <2>1, <2>2, <2>5, <3>1
  <2>. QED BY <2>4, <2>5
<1>12. CASE busy = 0 /\ ~w_wr_en /\ r_rb_state = 7
  <2>1. busy' \in 2 .. 22 /\ mem' = mem /\ odata' = mem[w_dram_addr]
    BY <1>1, <1>2, <1>4, <1>9, <1>12 DEF PortTick
  <2>2. w_dram_addr = r_initaddr6
    BY <1>7, <1>12 DEF w_dram_addr
  <2>. QED BY <1>2, <1>5, <1>7, <1>8, <1>12, <2>1, <2>2
<1>13. CASE busy = 0 /\ ~w_wr_en /\ r_rb_state # 7
  <2>1. busy' = 0 /\ mem' = mem /\ odata' = odata
    BY <1>1, <1>2, <1>4, <1>9, <1>13 DEF PortTick
  <2>. QED BY <1>2, <1>8, <1>13, <2>1
<1>. QED BY <1>2, <1>10, <1>11, <1>12, <1>13
-----------------------------------------------------------------------------
(* The sender and maintn hand the words on one at a time.                  *)
LEMMA HandShakeStep ==
  ASSUME TypeOK, ReaderPlace, Chosen, Position, Gathered, HandShake, Stages, Race, Zeroed,
         ReadBack, Tick
  PROVE  HandShake'
<1>1. /\ fptr \in Nat /\ busy \in Nat /\ r_initaddr3 \in Nat /\ senti \in Nat /\ BinWords \in Nat
      /\ senti <= BIN_SIZE /\ BIN_SIZE \in Nat /\ 4 * BinWords = BIN_SIZE
      /\ state \in {0, 20, 21, 22} /\ r_sd_state \in 0 .. 2
      /\ WE \in BOOLEAN /\ BOOTDONE \in BOOLEAN /\ send \in BOOLEAN /\ r_sd_init_we \in BOOLEAN
  BY Sizes, CardNat DEF TypeOK, LoaderTypeOK
<1>2. /\ fptr' = fptr \/ fptr' = fptr + 1
      /\ words' = IF WordIn THEN words + 1 ELSE words
      /\ send' <=> WordIn
      /\ ~WordIn => DATA' = DATA
  BY Gathers DEF WordIn
<1>3. words \in Nat /\ 4 * words <= fptr
  BY <1>1, Quarters DEF words
<1>4. senti < BIN_SIZE /\ senti % 4 = 0 => senti + 4 <= BIN_SIZE /\ (senti + 4) % 4 = 0
  BY <1>1, Sizes
<1>5. /\ Sender(r_sd_state) /\ (TakeWord \/ HoldWord \/ WordStored)
      /\ w_dram_busy <=> busy > 0
  BY DEF Tick, LoaderTick, CopyTick, w_dram_busy
<1>6. WordIn => ~Pending \/ (state = 22 /\ r_sd_state = 0)
  BY InTime
<1>7. CASE ~Pending
  <2>1. state = 0 /\ (BOOTDONE \/ ~send) /\ ~WE /\ r_sd_state = 0
    BY <1>7 DEF HandShake, Pending, Offered
  <2>2. /\ state' = 0 /\ senti' = senti /\ WE' = WE /\ BOOTDONE' = BOOTDONE
        /\ r_sd_state' = 0 /\ r_sd_init_we' = r_sd_init_we /\ r_initaddr3' = r_initaddr3
    BY <1>5, <2>1 DEF Sender, TakeWord, HoldWord, WordStored
  <2>. QED BY <1>1, <1>2, <1>3, <1>7, <2>1, <2>2 DEF HandShake, Pending, Offered
<1>8. CASE state = 0 /\ Offered
  <2>1. ~WE /\ r_sd_state = 0 /\ ~WordIn /\ Pending
    BY <1>6, <1>8 DEF HandShake, Pending
  <2>2. /\ state' = 20 /\ senti' = senti /\ WE' = WE /\ BOOTDONE' = BOOTDONE
        /\ r_sd_state' = 0 /\ r_sd_init_we' = r_sd_init_we /\ r_initaddr3' = r_initaddr3
    BY <1>5, <1>8, <2>1 DEF Sender, TakeWord, HoldWord, WordStored, Offered
  <2>. QED BY <1>1, <1>2, <1>3, <1>8, <2>1, <2>2 DEF HandShake, Pending, Offered
<1>9. CASE state = 20
  <2>1. /\ ~WE /\ r_sd_state = 0 /\ ~WordIn /\ Pending /\ ~BOOTDONE /\ senti < BIN_SIZE
        /\ senti = 4 * (words - 1) /\ r_initaddr3 = words - 1 /\ words > 0
    BY <1>6, <1>9 DEF HandShake, Pending
  <2>2. /\ state' = 21 /\ senti' = senti + 4 /\ WE' /\ BOOTDONE' = BOOTDONE
        /\ r_sd_state' = 0 /\ r_sd_init_we' = r_sd_init_we /\ r_initaddr3' = r_initaddr3
    BY <1>5, <1>9, <2>1 DEF Sender, TakeWord, HoldWord, WordStored
  <2>. QED BY <1>1, <1>2, <1>3, <1>4, <1>9, <2>1, <2>2 DEF HandShake, Pending, Offered
<1>10. CASE state = 21
  <2>1. /\ WE /\ r_sd_state \in {0, 1} /\ ~WordIn /\ Pending /\ ~BOOTDONE
        /\ senti = 4 * words /\ r_initaddr3 = words - 1 /\ words > 0
        /\ r_sd_state = 1 => busy = 0
        /\ r_init_state = 3
    BY <1>6, <1>10, CopyOnly DEF HandShake, Pending
  <2>2. CASE r_sd_state = 0 /\ busy = 0
    <3>1. /\ state' = 21 /\ senti' = senti /\ WE' = WE /\ BOOTDONE' = BOOTDONE
          /\ r_sd_state' = 1 /\ r_sd_init_we' /\ r_initaddr3' = r_initaddr3
          /\ r_sd_init_data' = DATA
      BY <1>5, <1>10, <2>1, <2>2 DEF Sender, TakeWord, HoldWord, WordStored
    <3>2. busy' = 0
      BY <2>1, <2>2, PortStep
    <3>. QED BY <1>1, <1>2, <1>3, <2>1, <2>2, <3>1, <3>2 DEF HandShake, Pending, Offered
  <2>3. CASE r_sd_state = 0 /\ busy > 0
    <3>1. /\ state' = 21 /\ senti' = senti /\ WE' = WE /\ BOOTDONE' = BOOTDONE
          /\ r_sd_state' = 0 /\ r_sd_init_we' = r_sd_init_we /\ r_initaddr3' = r_initaddr3
      BY <1>5, <1>10, <2>1, <2>3 DEF Sender, TakeWord, HoldWord, WordStored
    <3>. QED BY <1>1, <1>2, <1>3, <2>1, <2>3, <3>1 DEF HandShake, Pending, Offered
  <2>4. CASE r_sd_state = 1
    <3>1. /\ state' = 22 /\ senti' = senti /\ ~WE' /\ BOOTDONE' = BOOTDONE
          /\ r_sd_state' = 1 /\ r_sd_init_we' = r_sd_init_we /\ r_initaddr3' = r_initaddr3
          /\ r_sd_init_data' = r_sd_init_data
      BY <1>1, <1>5, <1>10, <2>1, <2>4 DEF Sender, TakeWord, HoldWord, WordStored
    <3>2. busy' \in 2 .. 22
      BY <2>1, <2>4, PortStep
    <3>. QED BY <1>1, <1>2, <1>3, <2>1, <2>4, <3>1, <3>2 DEF HandShake, Pending, Offered
  <2>. QED BY <1>1, <2>1, <2>2, <2>3, <2>4
<1>11. CASE state = 22
  <2>1. /\ ~WE /\ Pending /\ senti = 4 * words /\ words > 0
        /\ r_initaddr3 = IF r_sd_state = 1 THEN words - 1 ELSE words
        /\ r_sd_state = 1 => busy \in 2 .. 22
    BY <1>11 DEF HandShake, Pending
  <2>2. senti' = senti /\ WE' = WE
    BY <1>5, <1>11 DEF Sender
  <2>3. BOOTDONE' <=> BOOTDONE \/ senti >= BIN_SIZE
    <3>1. state # 0 /\ state # 20 /\ state # 21
      BY <1>11
    <3>. QED BY <1>5, <3>1, Zenon DEF Sender
  <2>4. BOOTDONE' => senti' = BIN_SIZE
    BY <1>1, <2>2, <2>3 DEF HandShake
  <2>5. CASE r_sd_state = 0
    <3>1. /\ state' = 0 /\ r_sd_state' = 0 /\ r_sd_init_we' = r_sd_init_we
          /\ r_initaddr3' = r_initaddr3
      BY <1>5, <1>11, <2>1, <2>5 DEF Sender, TakeWord, HoldWord, WordStored
    <3>2. BOOTDONE' => r_initaddr3' = BinWords
      BY <1>1, <1>3, <2>1, <2>2, <2>4, <2>5, <3>1
    <3>3. ~BOOTDONE' => senti' < BIN_SIZE
      BY <1>1, <2>2, <2>3
    <3>4. CASE WordIn
      BY <1>1, <1>2, <1>3, <2>1, <2>2, <2>4, <2>5, <3>1, <3>2, <3>3, <3>4
         DEF HandShake, Pending, Offered
    <3>5. CASE ~WordIn
      BY <1>1, <1>2, <1>3, <2>1, <2>2, <2>4, <2>5, <3>1, <3>2, <3>3, <3>5
         DEF HandShake, Pending, Offered
    <3>. QED BY <3>4, <3>5
  <2>6. CASE r_sd_state = 1
    <3>1. /\ state' = 22 /\ r_sd_state' = 2 /\ ~r_sd_init_we' /\ r_initaddr3' = r_initaddr3 + 1
      BY <1>1, <1>5, <1>11, <2>1, <2>6 DEF Sender, TakeWord, HoldWord, WordStored
    <3>. QED BY <1>1, <1>2, <1>3, <1>6, <1>11, <2>1, <2>2, <2>4, <2>6, <3>1
             DEF HandShake, Pending, Offered
  <2>7. CASE r_sd_state = 2
    <3>1. /\ state' = 22 /\ r_sd_state' \in {0, 2} /\ r_sd_init_we' = r_sd_init_we
          /\ r_initaddr3' = r_initaddr3
      BY <1>5, <1>11, <2>7 DEF Sender, TakeWord, HoldWord, WordStored
    <3>. QED BY <1>1, <1>2, <1>3, <1>6, <1>11, <2>1, <2>2, <2>4, <2>7, <3>1
             DEF HandShake, Pending, Offered
  <2>. QED BY <1>1, <2>5, <2>6, <2>7
<1>. QED BY <1>1, <1>7, <1>8, <1>9, <1>10, <1>11 DEF Pending

LEMMA StagesStep ==
  ASSUME TypeOK, Chosen, Position, HandShake, Stages, Zeroed, ReadBack, Tick
  PROVE  Stages'
<1>1. /\ busy \in Nat /\ r_initaddr3 \in 0 .. BinWords /\ r_sd_state \in 0 .. 2
      /\ r_init_state \in {1, 3, 4, 5, 6} /\ r_bblsd_done \in BOOLEAN /\ r_zero_done \in BOOLEAN
      /\ r_set_dram_le \in BOOLEAN /\ r_zero_we \in BOOLEAN /\ BinWords \in Nat /\ BinWords >= 2
      /\ r_rb_state \in {0, 1, 2, 7, 20}
  BY Sizes DEF TypeOK
<1>2. InitState /\ (TakeWord \/ HoldWord \/ WordStored) /\ (w_dram_busy <=> busy > 0)
  BY DEF Tick, CopyTick, w_dram_busy
<1>3. r_bblsd_done' <=> r_bblsd_done \/ r_initaddr3 >= BinWords
  BY Zenon DEF Tick, CopyTick
<1>4. r_zero_done => r_zero_done'
  BY Zenon DEF Tick, ZeroTick
<1>5. /\ r_init_state' = 1 => r_init_state = 1
      /\ r_init_state' \in {4, 5, 6} => r_init_state \in {4, 5, 6} \/ r_bblsd_done
      /\ r_init_state' # 1 => r_init_state # 1 \/ r_zero_done
      /\ r_init_state' = 3 => r_init_state \in {1, 3}
  BY <1>1, <1>2 DEF InitState
<1>6. /\ r_init_state = 1 => r_initaddr3 = 0 /\ r_sd_state = 0
      /\ r_sd_state = 1 => r_initaddr3 < BinWords /\ r_init_state = 3
  BY CopyOnly
<1>7. /\ r_sd_state # 1 => r_initaddr3' = r_initaddr3
      /\ r_sd_state = 1 => r_initaddr3' \in {r_initaddr3, r_initaddr3 + 1} /\ r_sd_state' # 0
      /\ r_sd_state = 2 /\ r_sd_state' = 0 => busy = 0
  BY <1>1, <1>2 DEF TakeWord, HoldWord, WordStored
<1>8. busy' <= 22 /\ (r_init_state = 3 /\ r_sd_state # 1 => busy' = IF busy > 0 THEN busy - 1 ELSE 0)
  BY <1>1, PortStep DEF Stages
<1>9. r_bblsd_done' => r_initaddr3 = BinWords
  BY <1>1, <1>3 DEF Stages
<1>10. r_bblsd_done' => r_initaddr3' = BinWords
  BY <1>1, <1>6, <1>7, <1>9
<1>11. r_init_state' = 3 /\ r_sd_state' = 0 /\ busy' > 0 => r_initaddr3' = 0
  BY <1>1, <1>5, <1>6, <1>7, <1>8 DEF Stages
<1>12. r_init_state' = 1 => ~r_bblsd_done'
  BY <1>1, <1>5, <1>6, <1>9
<1>13. (r_init_state' \in {4, 5, 6} => r_bblsd_done') /\ (r_init_state' # 1 => r_zero_done')
  BY <1>3, <1>4, <1>5 DEF Stages
<1>. QED BY <1>8, <1>10, <1>11, <1>12, <1>13 DEF Stages
-----------------------------------------------------------------------------
(* The race: a byte takes at least seven cycles.                           *)
LEMMA ByteSoon ==
  ASSUME TypeOK, ReaderHost, Rest, Tick
  PROVE  /\ byteIn \in 1 .. 7
         /\ rdState = 12 => byteIn = 1 /\ byteIn' = 7
         /\ rdState # 12 => byteIn' >= byteIn - 1
<1>1. HostTick(psel) /\ ReaderTick(frbusy(r_init_state, r_sd_state))
  BY HandedOver DEF Tick, LoaderTick, HostTick, Quiet
<1>2. /\ ctrlstate \in {0, 2, 15, 16} /\ pready \in BOOLEAN
      /\ rdState \in {0, 1, 2, 3, 10, 11, 12, 13, 14, 15}
  BY DEF TypeOK, LoaderTypeOK
<1>3. byteIn \in 1 .. 7
  BY <1>2 DEF byteIn
<1>4. CASE rdState = 12
  <2>1. rdState' = 13
    BY <1>1, <1>4 DEF ReaderTick, AskSector, AwaitSector, AskByte, TakeByte, NextByte, SectorDone
  <2>. QED BY <1>3, <1>4, <2>1 DEF byteIn
<1>5. CASE rdState = 11
  <2>1. IF pready THEN rdState' = 12 ELSE rdState' = 11
    BY <1>1, <1>5 DEF ReaderTick, AskSector, AwaitSector, AskByte, TakeByte, NextByte, SectorDone
  <2>2. psel /\ ~pwrite /\ (ctrlstate = 0 \/ (ctrlstate \in {15, 16} /\ ~pready))
    BY <1>5 DEF ReaderHost
  <2>3. /\ ctrlstate = 0 /\ ~pready => ctrlstate' = 15
        /\ ctrlstate = 15 => ctrlstate' = 16
        /\ ctrlstate = 16 => ctrlstate' = 0 /\ pready'
    BY <1>1, <2>2 DEF HostTick
  <2>4. CASE pready
    BY <1>3, <1>5, <2>1, <2>2, <2>4 DEF byteIn
  <2>5. CASE ~pready
    BY <1>2, <1>3, <1>5, <2>1, <2>2, <2>3, <2>5 DEF byteIn
  <2>. QED BY <2>4, <2>5
<1>6. CASE rdState = 10
  <2>1. Quiet
    BY <1>6 DEF ReaderHost
  <2>2. rdState' \in {10, 11}
    BY <1>1, <1>6 DEF ReaderTick, AskSector, AwaitSector, AskByte, TakeByte, NextByte, SectorDone
  <2>3. ctrlstate' = 0 /\ ~pready'
    BY <1>1, <2>1 DEF HostTick, Quiet
  <2>. QED BY <1>6, <2>2, <2>3 DEF byteIn
<1>7. CASE rdState \notin {10, 11, 12}
  <2>1. rdState' \notin {11, 12} /\ (rdState = 13 => rdState' # 13)
    <3>1. ~AskByte(frbusy(r_init_state, r_sd_state)) /\ ~TakeByte
      BY <1>7 DEF AskByte, TakeByte
    <3>2. NextByte => rdState' \in {10, 14}
      BY <1>2, <1>7 DEF NextByte
    <3>3. SectorDone => rdState' \in {0, 14, 15}
      BY <1>2 DEF SectorDone
    <3>4. AskSector => rdState' \in {0, 1}
      BY DEF AskSector
    <3>5. AwaitSector => rdState' \in {1, 2, 3, 10} 
      BY DEF AwaitSector
    <3>. QED BY <1>1, <3>1, <3>2, <3>3, <3>4, <3>5 DEF ReaderTick
  <2>. QED BY <1>2, <1>7, <2>1 DEF byteIn
<1>. QED BY <1>2, <1>3, <1>4, <1>5, <1>6, <1>7

LEMMA WordSoon ==
  ASSUME TypeOK, ReaderHost, ReaderPlace, Rest, Tick
  PROVE  /\ T \in Int
         /\ ~WordIn => T' >= T - 1
         /\ WordIn => T' = 28
<1>1. fptr \in Nat
  BY CardNat DEF TypeOK, LoaderTypeOK
<1>2. /\ fptr % 4 \in 0 .. 3
      /\ fptr % 4 < 3 => (fptr + 1) % 4 = (fptr % 4) + 1
      /\ fptr % 4 = 3 => (fptr + 1) % 4 = 0
  BY <1>1, Quarters
<1>3. /\ fptr' = IF ByteIn THEN fptr + 1 ELSE fptr
      /\ ByteIn => rdState = 12
  BY Gathers DEF ByteIn
<1>4. /\ byteIn \in 1 .. 7
      /\ rdState = 12 => byteIn = 1 /\ byteIn' = 7
      /\ rdState # 12 => byteIn' >= byteIn - 1
      /\ rdState # 12 => byteIn' \in Int
  <2>1. byteIn' \in Int
    BY DEF byteIn
  <2>. QED BY <2>1, ByteSoon
<1>5. CASE WordIn
  BY <1>2, <1>3, <1>4, <1>5 DEF T, WordIn
<1>6. CASE ByteIn /\ ~WordIn
  BY <1>2, <1>3, <1>4, <1>6 DEF T, WordIn
<1>7. CASE ~ByteIn
  BY <1>2, <1>3, <1>4, <1>7 DEF T, WordIn
<1>. QED BY <1>5, <1>6, <1>7 DEF WordIn

(* A word that is pending comes nearer to its end with every cycle, unless *)
(* the zero fill still has the port.                                       *)
LEMMA PendingStep ==
  ASSUME TypeOK, ReaderPlace, Chosen, Position, Gathered, HandShake, Stages, Race, Zeroed,
         ReadBack, Tick, ~WordIn, Pending'
  PROVE  /\ Pending /\ ~(state = 22 /\ r_sd_state = 0)
         /\ U \in Int /\ U' \in Int
         /\ U' <= U - 1 \/ (state = 21 /\ r_sd_state = 0 /\ busy > 0)
<1>1. /\ busy \in Nat /\ state \in {0, 20, 21, 22} /\ r_sd_state \in 0 .. 2
      /\ BOOTDONE \in BOOLEAN /\ send \in BOOLEAN
  BY DEF TypeOK, LoaderTypeOK
<1>2. ~send'
  BY Gathers
<1>3. /\ Sender(r_sd_state) /\ (TakeWord \/ HoldWord \/ WordStored)
      /\ w_dram_busy <=> busy > 0
  BY DEF Tick, LoaderTick, CopyTick, w_dram_busy
<1>4. state' # 0
  BY <1>2 DEF Pending, Offered
<1>5. CASE state = 0
  <2>1. Offered /\ state' = 20
    BY <1>3, <1>4, <1>5 DEF Sender, Offered
  <2>. QED BY <1>5, <2>1 DEF U, Pending
<1>6. CASE state = 20
  <2>1. ~WE /\ r_sd_state = 0 /\ Pending
    BY <1>6 DEF HandShake, Pending
  <2>2. state' \in {20, 21}
    BY <1>3, <1>6 DEF Sender
  <2>3. r_sd_state' = 0
    BY <1>3, <2>1 DEF TakeWord, HoldWord, WordStored
  <2>4. state' = 21
    <3>1. senti < BIN_SIZE
      BY <1>6 DEF HandShake
    <3>. QED BY <1>3, <1>6, <2>1, <3>1 DEF Sender
  <2>. QED BY <1>6, <2>1, <2>3, <2>4 DEF U
<1>7. CASE state = 21
  <2>1. WE /\ r_sd_state \in {0, 1} /\ Pending /\ (r_sd_state = 1 => busy = 0)
    BY <1>7 DEF HandShake, Pending
  <2>2. CASE r_sd_state = 0 /\ busy = 0
    <3>1. state' = 21 /\ r_sd_state' = 1
      BY <1>3, <1>7, <2>1, <2>2 DEF Sender, TakeWord, HoldWord, WordStored
    <3>. QED BY <1>7, <2>1, <2>2, <3>1 DEF U
  <2>3. CASE r_sd_state = 0 /\ busy > 0
    <3>1. state' = 21 /\ r_sd_state' = 0
      BY <1>3, <1>7, <2>1, <2>3 DEF Sender, TakeWord, HoldWord, WordStored
    <3>. QED BY <1>7, <2>1, <2>3, <3>1 DEF U
  <2>4. CASE r_sd_state = 1
    <3>1. state' = 22 /\ r_sd_state' = 1
      BY <1>3, <1>7, <2>1, <2>4 DEF Sender, TakeWord, HoldWord, WordStored
    <3>2. busy' \in 2 .. 22
      BY <2>1, <2>4, PortStep
    <3>. QED BY <1>7, <2>1, <2>4, <3>1, <3>2 DEF U
  <2>. QED BY <1>1, <2>1, <2>2, <2>3, <2>4
<1>8. CASE state = 22
  <2>1. Pending /\ (r_sd_state = 1 => busy \in 2 .. 22)
    BY <1>8 DEF HandShake, Pending
  <2>2. r_sd_state # 0 /\ state' = 22
    BY <1>3, <1>4, <1>8 DEF Sender
  <2>3. r_sd_state = 1 => r_sd_state' = 2
    BY <1>3, <2>1 DEF TakeWord, HoldWord, WordStored
  <2>4. r_sd_state = 2 => r_sd_state' = IF busy > 0 THEN 2 ELSE 0
    BY <1>3 DEF TakeWord, HoldWord, WordStored
  <2>5. busy > 0 => busy' = busy - 1
    BY PortStep
  <2>. QED BY <1>1, <1>8, <2>1, <2>2, <2>3, <2>4, <2>5 DEF U
<1>. QED BY <1>1, <1>5, <1>6, <1>7, <1>8

LEMMA RaceStep ==
  ASSUME TypeOK, ReaderHost, ReaderPlace, Chosen, Position, Gathered, HandShake, Stages, Race,
         Zeroed, ReadBack, Rest, Tick
  PROVE  Race'
<1>1. fptr \in Nat /\ busy \in Nat
  BY CardNat DEF TypeOK, LoaderTypeOK
<1>2. /\ fptr % 4 \in 0 .. 3 /\ fptr % 8 \in 0 .. 7
      /\ fptr % 8 < 4 => fptr % 4 = fptr % 8
      /\ fptr % 8 >= 4 => fptr % 4 = (fptr % 8) - 4
      /\ fptr % 8 < 7 => (fptr + 1) % 8 = (fptr % 8) + 1
      /\ fptr % 8 = 7 => (fptr + 1) % 8 = 0
  BY <1>1, Quarters
<1>3. /\ fptr' = IF ByteIn THEN fptr + 1 ELSE fptr
      /\ ByteIn => rdState = 12 /\ rdState' = 13
  BY Gathers DEF ByteIn
<1>4. CASE WordIn
  <2>1. ByteIn /\ fptr % 4 = 3
    BY <1>4 DEF WordIn
  <2>2. fptr' % 8 = 4 \/ fptr' % 8 = 0
    BY <1>2, <1>3, <2>1
  <2>3. rdState' = 13 /\ T' = 28
    BY <1>3, <1>4, <2>1, WordSoon
  <2>4. state' = 0
    <3>1. (state = 0 /\ ~Offered) \/ (state = 22 /\ r_sd_state = 0)
      BY <1>4, InTime DEF Pending
    <3>. QED BY <3>1 DEF Tick, LoaderTick, Sender, Offered
  <2>5. U' = 28
    BY <2>4 DEF U
  <2>. QED BY <2>2, <2>3, <2>5 DEF Race
<1>5. CASE ~WordIn /\ Pending'
  <2>1. /\ Pending /\ ~(state = 22 /\ r_sd_state = 0)
        /\ U \in Int /\ U' \in Int
        /\ U' <= U - 1 \/ (state = 21 /\ r_sd_state = 0 /\ busy > 0)
    BY <1>5, PendingStep
  <2>2. CASE fptr % 8 = 4
    <3>1. rdState \notin {11, 12}
      BY <2>1, <2>2 DEF Race
    <3>2. fptr' = fptr
      BY <1>3, <3>1
    <3>3. frbusy(r_init_state, r_sd_state)
      BY <2>1, <2>2 DEF frbusy
    <3>4. rdState' \notin {11, 12}
      <4>1. ~TakeByte
        BY <3>1 DEF TakeByte
      <4>2. AskByte(frbusy(r_init_state, r_sd_state)) => rdState' = 10
        BY <3>3 DEF AskByte
      <4>3. NextByte => rdState' \in {10, 13, 14}
        BY DEF NextByte
      <4>4. SectorDone => rdState' \in {0, 14, 15}
        BY DEF SectorDone
      <4>5. AskSector => rdState' \in {0, 1}
        BY DEF AskSector
      <4>6. AwaitSector => rdState' \in {1, 2, 3, 10}
        <5>1. rdState = 3 => rdState' \in {3, 10} \/ ~AwaitSector
          BY DEF AwaitSector
        <5>2. rdState \in {1, 2} => rdState' \in {1, 2, 3} \/ ~AwaitSector
          BY DEF AwaitSector
        <5>. QED BY <5>1, <5>2 DEF AwaitSector
      <4>. QED BY <4>1, <4>2, <4>3, <4>4, <4>5, <4>6 DEF Tick, LoaderTick, ReaderTick
    <3>. QED BY <2>2, <3>2, <3>4 DEF Race
  <2>3. CASE fptr % 8 < 4
    <3>1. U <= T
      BY <2>1, <2>3 DEF Race
    <3>2. ~(state = 21 /\ r_sd_state = 0 /\ busy > 0)
      <4>1. SUFFICES ASSUME state = 21, r_sd_state = 0, busy > 0 PROVE fptr % 8 >= 4
        BY <1>2, <2>3
      <4>2. r_init_state = 3
        BY <4>1, CopyOnly
      <4>3. r_initaddr3 = 0 /\ r_initaddr3 = words - 1
        BY <4>1, <4>2 DEF Stages, HandShake
      <4>4. words \in Nat /\ fptr = 4 * words + (fptr % 4)
        BY <1>1, Quarters DEF words
      <4>5. fptr = 4 + (fptr % 4)
        BY <4>3, <4>4
      <4>. QED BY <1>2, <4>5
    <3>3. T \in Int /\ T' >= T - 1
      BY <1>5, WordSoon
    <3>4. T' \in Int
      <4>1. fptr' \in Nat
        BY <1>1, <1>3
      <4>2. fptr' % 4 \in 0 .. 3
        BY <4>1, Quarters
      <4>. QED BY <4>2 DEF T, byteIn
    <3>5. U' <= T'
      BY <2>1, <3>1, <3>2, <3>3, <3>4
    <3>6. fptr' % 8 < 4
      BY <1>2, <1>3, <1>5, <2>3 DEF WordIn
    <3>7. fptr' % 8 < 4 /\ ~(fptr' % 8 > 4) /\ fptr' % 8 # 4
      <4>1. fptr' \in Nat
        BY <1>1, <1>3
      <4>2. fptr' % 8 \in 0 .. 7
        BY <4>1, Quarters
      <4>. QED BY <3>6, <4>2
    <3>. QED BY <3>5, <3>7 DEF Race
  <2>4. ~(fptr % 8 > 4)
    BY <2>1 DEF Race
  <2>. QED BY <1>2, <2>2, <2>3, <2>4
<1>6. CASE ~WordIn /\ ~Pending'
  BY <1>6 DEF Race
<1>. QED BY <1>4, <1>5, <1>6
-----------------------------------------------------------------------------
(* The memory: cleared, written in order, and read back.                   *)
LEMMA BootTypes ==
  ASSUME TypeOK
  PROVE  /\ busy \in Nat /\ mem \in [0 .. BinWords -> Nat \cup {None}]
         /\ r_init_state \in {1, 3, 4, 5, 6}
         /\ r_zero_we \in BOOLEAN /\ r_zero_done \in BOOLEAN
         /\ r_zeroaddr \in Nat /\ r_zeroaddr <= BinWords
         /\ r_sd_state \in 0 .. 2
         /\ r_initaddr3 \in Nat /\ r_initaddr3 <= BinWords /\ r_bblsd_done \in BOOLEAN
         /\ r_rb_state \in {0, 1, 2, 7, 20} /\ r_rb_delay \in 0 .. 1
         /\ r_initaddr6 \in Nat /\ r_initaddr6 <= BinWords /\ r_set_dram_le \in BOOLEAN
         /\ r_mem_rb_done \in BOOLEAN
         /\ BinWords \in Nat /\ BinWords >= 2
BY Sizes DEF TypeOK

LEMMA ZeroMoves ==
  ASSUME TypeOK, Tick
  PROVE  /\ busy = 0 => r_zeroaddr' = r_zeroaddr
         /\ busy = 0 /\ r_zero_we => r_zero_we'
         /\ busy > 0 /\ r_zero_we => ~r_zero_we' /\ r_zeroaddr' = r_zeroaddr + 1
         /\ ~r_zero_we => r_zeroaddr' = r_zeroaddr
         /\ ~r_zero_we /\ (busy > 0 \/ r_zero_done) => ~r_zero_we'
         /\ r_zero_done' <=> r_zero_done \/ r_zeroaddr >= BinWords
<1>1. busy \in Nat /\ r_zero_we \in BOOLEAN /\ r_zero_done \in BOOLEAN
  BY BootTypes
<1>2. ZeroTick /\ (w_dram_busy <=> busy > 0)
  BY DEF Tick, w_dram_busy
<1>3. r_zero_done' <=> r_zero_done \/ r_zeroaddr >= BinWords
  BY <1>2, Zenon DEF ZeroTick
<1>. QED BY <1>1, <1>2, <1>3 DEF ZeroTick

LEMMA ZeroedStep ==
  ASSUME TypeOK, Chosen, Position, HandShake, Stages, Zeroed, ReadBack, Tick
  PROVE  Zeroed' /\ r_zeroaddr' \in 0 .. BinWords
<1>1. /\ busy \in Nat /\ mem \in [0 .. BinWords -> Nat \cup {None}] /\ r_zero_we \in BOOLEAN
      /\ r_zero_done \in BOOLEAN /\ r_zeroaddr \in Nat /\ r_zeroaddr <= BinWords
      /\ r_init_state \in {1, 3, 4, 5, 6} /\ BinWords \in Nat /\ BinWords >= 2
  BY BootTypes
<1>2. /\ busy = 0 => r_zeroaddr' = r_zeroaddr
      /\ busy = 0 /\ r_zero_we => r_zero_we'
      /\ busy > 0 /\ r_zero_we => ~r_zero_we' /\ r_zeroaddr' = r_zeroaddr + 1
      /\ ~r_zero_we => r_zeroaddr' = r_zeroaddr
      /\ ~r_zero_we /\ (busy > 0 \/ r_zero_done) => ~r_zero_we'
      /\ r_zero_done' <=> r_zero_done \/ r_zeroaddr >= BinWords
  BY ZeroMoves
<1>3. r_zero_we => r_zeroaddr < BinWords /\ r_init_state = 1 /\ ~r_zero_done
  BY <1>1 DEF Zeroed, Stages
<1>4. /\ busy > 0 => busy' = busy - 1 /\ mem' = mem
      /\ busy = 0 /\ r_zero_we => busy' \in 2 .. 22 /\ mem' = [mem EXCEPT ![r_zeroaddr] = 0]
      /\ busy = 0 /\ r_init_state = 1 /\ ~r_zero_we => busy' = 0 /\ mem' = mem
  BY <1>1, <1>3, PortStep
<1>5. CASE r_zero_we /\ busy = 0
  <2>1. r_zero_we' /\ r_zeroaddr' = r_zeroaddr /\ ~r_zero_done'
    BY <1>1, <1>2, <1>3, <1>5
  <2>. QED BY <1>1, <1>3, <1>4, <1>5, <2>1 DEF Zeroed
<1>6. CASE r_zero_we /\ busy > 0
  <2>1. busy > 1 /\ ~r_zero_we' /\ r_zeroaddr' = r_zeroaddr + 1 /\ ~r_zero_done' /\ busy' > 0
    BY <1>1, <1>2, <1>3, <1>4, <1>6 DEF Zeroed
  <2>. QED BY <1>1, <1>3, <1>4, <1>6, <2>1 DEF Zeroed
<1>7. CASE ~r_zero_we /\ r_init_state = 1
  <2>1. r_zeroaddr' = r_zeroaddr /\ mem' = mem
    BY <1>1, <1>2, <1>4, <1>7
  <2>2. r_zero_we' => busy = 0 /\ busy' = 0 /\ ~r_zero_done
    BY <1>1, <1>2, <1>4, <1>7
  <2>3. r_zeroaddr = BinWords => ~r_zero_we' /\ r_zero_done'
    <3>1. SUFFICES ASSUME r_zeroaddr = BinWords PROVE ~r_zero_we' /\ r_zero_done'
      OBVIOUS
    <3>2. r_zero_done \/ busy > 0
      BY <3>1 DEF Zeroed
    <3>. QED BY <1>1, <1>2, <1>7, <3>1, <3>2
  <2>4. r_zero_done' => r_zeroaddr = BinWords
    BY <1>1, <1>2 DEF Zeroed
  <2>. QED BY <1>1, <1>7, <2>1, <2>2, <2>3, <2>4 DEF Zeroed
<1>8. CASE ~r_zero_we /\ r_init_state # 1
  <2>1. r_zero_done /\ r_zeroaddr = BinWords /\ r_init_state' # 1
    BY <1>8, InitStays DEF Stages, Zeroed
  <2>2. r_zero_done' /\ r_zeroaddr' = BinWords /\ ~r_zero_we'
    BY <1>2, <1>8, <2>1
  <2>. QED BY <1>1, <2>1, <2>2 DEF Zeroed
<1>. QED BY <1>1, <1>5, <1>6, <1>7, <1>8

(* What the copy does with its word.                                       *)
LEMMA CopyMoves ==
  ASSUME TypeOK, Chosen, Position, Gathered, HandShake, Stages, Zeroed, ReadBack, Tick
  PROVE  \/ /\ r_sd_state # 1 /\ r_sd_state' # 1
            /\ r_initaddr3' = r_initaddr3 /\ r_sd_checksum' = r_sd_checksum
         \/ /\ r_sd_state = 0 /\ r_sd_state' = 1 /\ busy = 0 /\ r_init_state = 3
            /\ r_initaddr3' = r_initaddr3 /\ r_initaddr3 < BinWords
            /\ r_sd_checksum' = Plus(r_sd_checksum, DATA)
            /\ FirstTold => DATA = FileWord(r_initaddr3)
         \/ /\ r_sd_state = 1 /\ r_sd_state' = 1 /\ busy = 0 /\ r_init_state = 3
            /\ r_initaddr3' = r_initaddr3 /\ r_initaddr3 < BinWords
            /\ FirstTold => r_sd_init_data = FileWord(r_initaddr3)
            /\ r_sd_checksum' = r_sd_checksum
         \/ /\ r_sd_state = 1 /\ r_sd_state' = 2 /\ busy > 0
            /\ r_initaddr3' = r_initaddr3 + 1 /\ r_initaddr3 < BinWords
            /\ r_sd_checksum' = r_sd_checksum
<1>1. r_sd_state \in 0 .. 2 /\ busy \in Nat /\ state \in {0, 20, 21, 22}
  BY DEF TypeOK, LoaderTypeOK
<1>2. (TakeWord \/ HoldWord \/ WordStored) /\ (w_dram_busy <=> busy > 0)
  BY DEF Tick, CopyTick, w_dram_busy
<1>3. CASE r_sd_state = 0 /\ WE /\ busy = 0
  <2>1. state = 21
    BY <1>1, <1>3 DEF HandShake, Pending
  <2>2. /\ r_sd_state' = 1 /\ r_initaddr3' = r_initaddr3
        /\ r_sd_checksum' = Plus(r_sd_checksum, DATA)
    BY <1>2, <1>3 DEF TakeWord, HoldWord, WordStored
  <2>3. FirstTold => DATA = FileWord(r_initaddr3)
    BY <2>1 DEF Gathered, HandShake, Pending
  <2>. QED BY <1>3, <2>1, <2>2, <2>3, CopyOnly
<1>4. CASE r_sd_state = 0 /\ ~(WE /\ busy = 0)
  BY <1>1, <1>2, <1>4 DEF TakeWord, HoldWord, WordStored
<1>5. CASE r_sd_state = 1 /\ busy = 0
  <2>1. state = 21
    BY <1>1, <1>5 DEF HandShake, Pending
  <2>2. r_sd_state' = 1 /\ r_initaddr3' = r_initaddr3 /\ r_sd_checksum' = r_sd_checksum
    BY <1>2, <1>5 DEF TakeWord, HoldWord, WordStored
  <2>3. FirstTold => r_sd_init_data = FileWord(r_initaddr3)
    BY <1>5, <2>1 DEF Gathered, HandShake, Pending
  <2>. QED BY <1>5, <2>2, <2>3, CopyOnly
<1>6. CASE r_sd_state = 1 /\ busy > 0
  BY <1>2, <1>6, CopyOnly DEF TakeWord, HoldWord, WordStored
<1>7. CASE r_sd_state = 2
  BY <1>2, <1>7 DEF TakeWord, HoldWord, WordStored
<1>. QED BY <1>1, <1>3, <1>4, <1>5, <1>6, <1>7

LEMMA StoredStep ==
  ASSUME TypeOK, Chosen, Position, Gathered, HandShake, Stages, Zeroed, ReadBack, StoredInOrder,
         Tick
  PROVE  StoredInOrder'
<1>1. /\ busy \in Nat /\ mem \in [0 .. BinWords -> Nat \cup {None}]
      /\ r_sd_state \in 0 .. 2 /\ r_initaddr3 \in Nat /\ BinWords \in Nat
      /\ r_init_state \in {1, 3, 4, 5, 6} /\ r_rb_state \in {0, 1, 2, 7, 20}
  BY BootTypes
<1>2. card' = card /\ (w_dram_busy <=> busy > 0) /\ (w_dram_busy' <=> busy' > 0)
  BY DEF Tick, LoaderTick, w_dram_busy
<1>3. \A k : FileWord(k)' = FileWord(k)
  BY <1>2 DEF FileWord
<1>4. r_init_state # 1 => ~r_zero_we
  BY CopyOnly
<1>5. SUFFICES ASSUME r_init_state' # 1
              PROVE  \A k \in 0 .. BinWords - 1 :
                       IF k < r_initaddr3' + (IF r_sd_state' = 1 /\ busy' > 0 THEN 1 ELSE 0)
                       THEN FirstTold => mem'[k] = FileWord(k)
                       ELSE mem'[k] = 0
  BY <1>2, <1>3 DEF StoredInOrder, FirstTold
<1>6. CASE r_init_state = 1
  <2>1. r_zero_done
    BY <1>5, <1>6 DEF Tick, InitState
  <2>2. r_zeroaddr = BinWords /\ ~r_zero_we
    BY <2>1 DEF Zeroed
  <2>3. mem' = mem
    BY <1>1, <1>6, <2>2, PortStep
  <2>4. r_initaddr3 = 0 /\ r_sd_state = 0
    BY <1>6, CopyOnly
  <2>5. r_initaddr3' = 0 /\ r_sd_state' # 1
    BY <1>6, <2>4, CopyMoves
  <2>. QED BY <1>1, <1>6, <2>2, <2>3, <2>5 DEF Zeroed
<1>7. CASE r_init_state # 1
  <2>1. \A k \in 0 .. BinWords - 1 :
          IF k < r_initaddr3 + (IF r_sd_state = 1 /\ busy > 0 THEN 1 ELSE 0)
          THEN FirstTold => mem[k] = FileWord(k)
          ELSE mem[k] = 0
    BY <1>2, <1>7 DEF StoredInOrder
  <2>2. ~(r_sd_state = 1 /\ busy = 0) => mem' = mem
    BY <1>1, <1>4, <1>7, PortStep
  <2>3. CASE r_sd_state # 1 /\ r_sd_state' # 1 /\ r_initaddr3' = r_initaddr3
    BY <1>1, <2>1, <2>2, <2>3
  <2>4. CASE /\ r_sd_state = 0 /\ r_sd_state' = 1 /\ busy = 0 /\ r_init_state = 3
             /\ r_initaddr3' = r_initaddr3
    <3>1. busy' = 0
      BY <2>4, PortStep
    <3>. QED BY <1>1, <2>1, <2>2, <2>4, <3>1
  <2>5. CASE /\ r_sd_state = 1 /\ r_sd_state' = 1 /\ busy = 0
             /\ r_initaddr3' = r_initaddr3 /\ r_initaddr3 < BinWords
             /\ FirstTold => r_sd_init_data = FileWord(r_initaddr3)
    <3>1. busy' > 0 /\ mem' = [mem EXCEPT ![r_initaddr3] = r_sd_init_data]
      <4>1. busy' \in 2 .. 22 /\ mem' = [mem EXCEPT ![r_initaddr3] = r_sd_init_data]
        BY <2>5, PortStep
      <4>. QED BY <4>1
    <3>. QED BY <1>1, <2>1, <2>5, <3>1
  <2>6. CASE r_sd_state = 1 /\ r_sd_state' = 2 /\ busy > 0 /\ r_initaddr3' = r_initaddr3 + 1
    BY <1>1, <2>1, <2>2, <2>6
  <2>. QED BY <2>3, <2>4, <2>5, <2>6, CopyMoves
<1>. QED BY <1>6, <1>7
LEMMA FilledStep ==
  ASSUME TypeOK, Chosen, Position, HandShake, Stages, Zeroed, ReadBack, Filled, Tick
  PROVE  Filled'
<1>1. /\ busy \in Nat /\ mem \in [0 .. BinWords -> Nat \cup {None}]
      /\ r_sd_state \in 0 .. 2 /\ r_initaddr3 \in Nat /\ BinWords \in Nat
      /\ r_init_state \in {1, 3, 4, 5, 6} /\ r_rb_state \in {0, 1, 2, 7, 20}
  BY BootTypes
<1>2. r_sd_init_data \in Nat
  BY DEF TypeOK
<1>3. SUFFICES ASSUME r_init_state' # 1
              PROVE  \A k \in 0 .. BinWords - 1 : mem'[k] \in Nat
  BY DEF Filled
<1>4. CASE r_init_state = 1
  <2>1. r_zero_done
    BY <1>3, <1>4 DEF Tick, InitState
  <2>2. r_zeroaddr = BinWords /\ ~r_zero_we
    BY <2>1 DEF Zeroed
  <2>3. mem' = mem
    BY <1>1, <1>4, <2>2, PortStep
  <2>. QED BY <1>1, <1>4, <2>2, <2>3 DEF Zeroed
<1>5. CASE r_init_state # 1
  <2>1. \A k \in 0 .. BinWords - 1 : mem[k] \in Nat
    BY <1>5 DEF Filled
  <2>2. ~r_zero_we
    BY <1>5, CopyOnly
  <2>3. mem' = mem \/ mem' = [mem EXCEPT ![r_initaddr3] = r_sd_init_data]
    BY <1>1, <1>5, <2>2, PortStep
  <2>. QED BY <1>1, <1>2, <2>1, <2>3
<1>. QED BY <1>4, <1>5
-----------------------------------------------------------------------------
(* The read-back.                                                          *)
LEMMA BackMoves ==
  ASSUME TypeOK, ReadBack, Tick
  PROVE  \/ /\ r_init_state # 6 /\ r_rb_state = 0 /\ r_rb_state' = 0 /\ ~r_set_dram_le'
            /\ r_rb_delay' = r_rb_delay /\ r_initaddr6' = r_initaddr6
            /\ r_verify_checksum' = r_verify_checksum /\ r_mem_rb_done' = r_mem_rb_done
         \/ /\ r_init_state = 6 /\ ~r_set_dram_le'
            /\ \/ /\ r_rb_state = 0 /\ r_mem_rb_done' = r_mem_rb_done
                  /\ r_rb_state' = IF r_mem_rb_done THEN 0 ELSE 1
               \/ /\ r_rb_state = 1 /\ r_mem_rb_done' = r_mem_rb_done
                  /\ r_rb_state' = 1 /\ busy > 0
               \/ /\ r_rb_state = 1 /\ r_mem_rb_done' /\ r_rb_state' = 0
                  /\ r_initaddr6 = BinWords
               \/ /\ r_rb_state = 7 /\ r_mem_rb_done' = r_mem_rb_done
                  /\ r_rb_state' = 2 /\ busy > 0
               \/ /\ r_rb_state = 2 /\ r_mem_rb_done' = r_mem_rb_done
                  /\ r_rb_state' = 2 /\ busy > 0
            /\ r_rb_delay' = r_rb_delay /\ r_initaddr6' = r_initaddr6
            /\ r_verify_checksum' = r_verify_checksum
         \/ /\ r_init_state = 6 /\ r_set_dram_le' /\ r_rb_state' = 7 /\ busy = 0
            /\ r_rb_state \in {1, 7} /\ r_initaddr6 < BinWords
            /\ r_rb_delay' = r_rb_delay /\ r_initaddr6' = r_initaddr6
            /\ r_verify_checksum' = r_verify_checksum /\ r_mem_rb_done' = r_mem_rb_done
         \/ /\ r_init_state = 6 /\ ~r_set_dram_le' /\ r_rb_state = 2 /\ r_rb_state' = 20
            /\ busy = 0 /\ r_rb_delay' = 0 /\ r_initaddr6' = r_initaddr6
            /\ r_verify_checksum' = Plus(r_verify_checksum, odata)
            /\ r_mem_rb_done' = r_mem_rb_done
         \/ /\ r_init_state = 6 /\ ~r_set_dram_le' /\ r_rb_state = 20 /\ r_rb_state' = 20
            /\ r_rb_delay = 0 /\ r_rb_delay' = 1 /\ r_initaddr6' = r_initaddr6
            /\ r_verify_checksum' = r_verify_checksum /\ r_mem_rb_done' = r_mem_rb_done
         \/ /\ r_init_state = 6 /\ ~r_set_dram_le' /\ r_rb_state = 20 /\ r_rb_state' = 0
            /\ r_rb_delay = 1 /\ r_rb_delay' = 0 /\ r_initaddr6' = r_initaddr6 + 1
            /\ r_verify_checksum' = r_verify_checksum /\ r_mem_rb_done' = r_mem_rb_done
<1>1. /\ busy \in Nat /\ BinWords \in Nat /\ r_init_state \in {1, 3, 4, 5, 6}
      /\ r_rb_state \in {0, 1, 2, 7, 20} /\ r_rb_delay \in 0 .. 1
      /\ r_initaddr6 \in Nat /\ r_initaddr6 <= BinWords /\ r_set_dram_le \in BOOLEAN
  BY BootTypes
<1>2. BackTick /\ (w_dram_busy <=> busy > 0)
  BY DEF Tick, w_dram_busy
<1>3. /\ r_set_dram_le <=> r_rb_state = 7
      /\ r_init_state # 6 => r_rb_state = 0
      /\ r_rb_state = 7 => r_initaddr6 < BinWords
  BY DEF ReadBack
<1>4. CASE r_init_state # 6
  BY <1>2, <1>3, <1>4 DEF BackTick
<1>5. CASE r_init_state = 6 /\ r_rb_state = 0
  BY <1>2, <1>3, <1>5 DEF BackTick, NextWord, ReadWord
<1>6. CASE r_init_state = 6 /\ r_rb_state = 1
  <2>1. CASE r_initaddr6 < BinWords
    BY <1>1, <1>2, <1>3, <1>6, <2>1 DEF BackTick, NextWord, ReadWord
  <2>2. CASE ~(r_initaddr6 < BinWords)
    BY <1>1, <1>2, <1>3, <1>6, <2>2 DEF BackTick, NextWord, ReadWord
  <2>. QED BY <2>1, <2>2
<1>7. CASE r_init_state = 6 /\ r_rb_state = 7
  <2>1. ReadWord /\ r_mem_rb_done' = r_mem_rb_done
    BY <1>2, <1>7 DEF BackTick, NextWord
  <2>2. /\ r_verify_checksum' = r_verify_checksum /\ r_rb_delay' = r_rb_delay
        /\ r_initaddr6' = r_initaddr6
    BY <1>7, <2>1 DEF ReadWord
  <2>3. IF busy > 0 THEN ~r_set_dram_le' /\ r_rb_state' = 2 ELSE r_set_dram_le' /\ r_rb_state' = 7
    <3>1. IF w_dram_busy THEN r_set_dram_le' = FALSE /\ r_rb_state' = 2
                         ELSE r_set_dram_le' = r_set_dram_le /\ r_rb_state' = r_rb_state
      BY <1>7, <2>1 DEF ReadWord
    <3>2. CASE busy > 0
      BY <1>2, <3>1, <3>2
    <3>3. CASE ~(busy > 0)
      BY <1>2, <1>3, <1>7, <3>1, <3>3
    <3>. QED BY <3>2, <3>3
  <2>4. busy = 0 \/ busy > 0
    BY <1>1
  <2>. QED BY <1>3, <1>7, <2>1, <2>2, <2>3, <2>4
<1>8. CASE r_init_state = 6 /\ r_rb_state = 2
  BY <1>1, <1>2, <1>3, <1>8 DEF BackTick, NextWord, ReadWord
<1>9. CASE r_init_state = 6 /\ r_rb_state = 20
  BY <1>1, <1>2, <1>3, <1>9 DEF BackTick, NextWord, ReadWord
<1>. QED BY <1>1, <1>4, <1>5, <1>6, <1>7, <1>8, <1>9

LEMMA ReadBackStep ==
  ASSUME TypeOK, Chosen, Position, HandShake, Stages, Zeroed, ReadBack, Tick
  PROVE  ReadBack'
<1>1. /\ busy \in Nat /\ BinWords \in Nat /\ r_init_state \in {1, 3, 4, 5, 6}
      /\ r_rb_state \in {0, 1, 2, 7, 20} /\ r_mem_rb_done \in BOOLEAN /\ r_rb_delay \in 0 .. 1
      /\ r_initaddr6 \in Nat /\ r_initaddr6 <= BinWords
  BY BootTypes
<1>2. /\ r_init_state' = 5 => r_init_state = 5 \/ (r_init_state = 6 /\ r_mem_rb_done)
      /\ r_init_state' \in {1, 3, 4} => r_init_state \in {1, 3}
      /\ r_init_state = 6 => r_init_state' = IF r_mem_rb_done THEN 5 ELSE 6
      /\ r_init_state' \in {1, 3, 4, 5, 6}
  BY <1>1 DEF Tick, InitState
<1>3. /\ busy > 0 => busy' = busy - 1 /\ mem' = mem /\ odata' = odata
      /\ busy = 0 /\ r_init_state = 6 /\ r_rb_state = 7 =>
           busy' \in 2 .. 22 /\ mem' = mem /\ odata' = mem[r_initaddr6]
      /\ busy = 0 /\ r_init_state = 6 /\ r_rb_state # 7 => busy' = 0
  BY PortStep
<1>4. CASE r_init_state # 6
  <2>1. /\ r_rb_state' = 0 /\ ~r_set_dram_le' /\ r_rb_delay' = 0
        /\ r_initaddr6' = r_initaddr6 /\ r_verify_checksum' = r_verify_checksum
        /\ r_mem_rb_done' = r_mem_rb_done
    BY <1>4, BackMoves DEF ReadBack
  <2>. QED BY <1>1, <1>2, <1>4, <2>1 DEF ReadBack
<1>5. CASE r_init_state = 6 /\ r_rb_state = 0
  <2>1. /\ r_rb_state' = (IF r_mem_rb_done THEN 0 ELSE 1) /\ ~r_set_dram_le' /\ r_rb_delay' = 0
        /\ r_initaddr6' = r_initaddr6 /\ r_verify_checksum' = r_verify_checksum
        /\ r_mem_rb_done' = r_mem_rb_done
    BY <1>5, BackMoves DEF ReadBack
  <2>. QED BY <1>1, <1>2, <1>5, <2>1 DEF ReadBack
<1>6. CASE r_init_state = 6 /\ r_rb_state # 0
  <2>1. ~r_mem_rb_done /\ r_init_state' = 6
    BY <1>2, <1>6 DEF ReadBack
  <2>2. CASE r_rb_state' \in {0, 1}
    <3>1. /\ ~r_set_dram_le' /\ r_rb_delay' = 0
          /\ r_mem_rb_done' => r_rb_state' = 0 /\ r_initaddr6' = BinWords
      BY <1>1, <1>6, <2>1, <2>2, BackMoves DEF ReadBack
    <3>. QED BY <2>1, <2>2, <3>1 DEF ReadBack
  <2>3. CASE r_rb_state' = 7
    <3>1. /\ r_set_dram_le' /\ r_rb_delay' = 0 /\ ~r_mem_rb_done' /\ busy = 0
          /\ r_initaddr6' = r_initaddr6 /\ r_initaddr6 < BinWords /\ r_rb_state \in {1, 7}
      BY <1>1, <1>6, <2>1, <2>3, BackMoves DEF ReadBack
    <3>2. CASE r_rb_state = 7
      BY <1>3, <1>6, <2>1, <2>3, <3>1, <3>2 DEF ReadBack
    <3>3. CASE r_rb_state = 1
      BY <1>3, <1>6, <2>1, <2>3, <3>1, <3>3 DEF ReadBack
    <3>. QED BY <3>1, <3>2, <3>3
  <2>4. CASE r_rb_state' = 2
    <3>1. /\ ~r_set_dram_le' /\ r_rb_delay' = 0 /\ ~r_mem_rb_done' /\ busy > 0
          /\ r_initaddr6' = r_initaddr6 /\ r_initaddr6 < BinWords /\ odata = mem[r_initaddr6]
      BY <1>1, <1>6, <2>1, <2>4, BackMoves DEF ReadBack
    <3>. QED BY <1>3, <2>1, <2>4, <3>1 DEF ReadBack
  <2>5. CASE r_rb_state' = 20
    <3>1. /\ ~r_set_dram_le' /\ ~r_mem_rb_done'
          /\ r_initaddr6' = r_initaddr6 /\ r_initaddr6 < BinWords
      BY <1>1, <1>6, <2>1, <2>5, BackMoves DEF ReadBack
    <3>. QED BY <2>1, <2>5, <3>1 DEF ReadBack
  <2>6. r_rb_state' \in {0, 1, 2, 7, 20}
    BY <1>6, BackMoves
  <2>. QED BY <2>2, <2>3, <2>4, <2>5, <2>6
<1>. QED BY <1>4, <1>5, <1>6

(* The image, of a whole file.                                             *)
ImageOf == IF card.dtb = <<>> THEN initmem_nuttx(card.kernel)
                              ELSE initmem_linux(card.kernel, card.dtb)

LEMMA SumNext ==
  ASSUME card \in Cards, card.size >= BIN_SIZE
  PROVE  /\ card.sums[0] = 0
         /\ \A k \in 0 .. BinWords - 1 : card.sums[k + 1] = Plus(card.sums[k], FileWord(k))
<1>1. /\ \A i \in 0 .. BIN_SIZE - 1 : card.data[i] = ImageOf[i]
      /\ Summing(card.sums, ImageOf)
  BY CardFacts DEF FromGenerator, ImageOf
<1>2. BIN_SIZE \div 4 = BinWords /\ BIN_SIZE = DRAM_SIZE
  BY SizesAssumption DEF BinWords
<1>3. ASSUME NEW k \in 0 .. BinWords - 1
      PROVE  card.sums[k + 1] = Plus(card.sums[k], FileWord(k))
  <2>1. /\ 4 * k \in 0 .. BIN_SIZE - 1 /\ 4 * k + 1 \in 0 .. BIN_SIZE - 1
        /\ 4 * k + 2 \in 0 .. BIN_SIZE - 1 /\ 4 * k + 3 \in 0 .. BIN_SIZE - 1
    BY Sizes
  <2>2. DOMAIN Words(ImageOf) = 0 .. BinWords - 1
    BY <1>2 DEF Words
  <2>3. Words(ImageOf)[k] = WordOf(ImageOf[4 * k], ImageOf[4 * k + 1],
                                   ImageOf[4 * k + 2], ImageOf[4 * k + 3])
    BY <1>2 DEF Words
  <2>4. Words(ImageOf)[k] = FileWord(k)
    BY <1>1, <2>1, <2>3 DEF FileWord
  <2>. QED BY <1>1, <2>2, <2>4 DEF Summing
<1>. QED BY <1>1, <1>3 DEF Summing

LEMMA SummedStep ==
  ASSUME TypeOK, Chosen, Position, Gathered, HandShake, Stages, Zeroed, StoredInOrder, ReadBack,
         Summed, Tick
  PROVE  Summed'
<1>1. /\ busy \in Nat /\ BinWords \in Nat /\ r_initaddr3 \in Nat /\ r_initaddr3 <= BinWords
      /\ r_initaddr6 \in Nat /\ r_initaddr6 <= BinWords /\ r_sd_state \in 0 .. 2
  BY BootTypes
<1>2. card' = card /\ card \in Cards
  BY DEF Tick, LoaderTick, TypeOK, LoaderTypeOK
<1>3. SUFFICES ASSUME FirstTold, card.size >= BIN_SIZE
               PROVE  /\ r_sd_checksum' =
                           card.sums[r_initaddr3' + (IF r_sd_state' = 1 THEN 1 ELSE 0)]
                      /\ r_verify_checksum' =
                           card.sums[r_initaddr6' + (IF r_rb_state' = 20 THEN 1 ELSE 0)]
  BY <1>2 DEF Summed, FirstTold
<1>4. \A k \in 0 .. BinWords - 1 : card.sums[k + 1] = Plus(card.sums[k], FileWord(k))
  BY <1>2, <1>3, SumNext
<1>5. r_sd_checksum = card.sums[r_initaddr3 + (IF r_sd_state = 1 THEN 1 ELSE 0)]
  BY <1>3 DEF Summed
<1>6. r_verify_checksum = card.sums[r_initaddr6 + (IF r_rb_state = 20 THEN 1 ELSE 0)]
  BY <1>3 DEF Summed
<1>7. r_sd_checksum' = card.sums[r_initaddr3' + (IF r_sd_state' = 1 THEN 1 ELSE 0)]
  <2>1. CASE /\ r_sd_state # 1 /\ r_sd_state' # 1
             /\ r_initaddr3' = r_initaddr3 /\ r_sd_checksum' = r_sd_checksum
    BY <1>5, <2>1
  <2>2. CASE /\ r_sd_state = 0 /\ r_sd_state' = 1
             /\ r_initaddr3' = r_initaddr3 /\ r_initaddr3 < BinWords
             /\ r_sd_checksum' = Plus(r_sd_checksum, DATA)
             /\ FirstTold => DATA = FileWord(r_initaddr3)
    <3>1. r_sd_checksum = card.sums[r_initaddr3]
      BY <1>1, <1>5, <2>2
    <3>. QED BY <1>1, <1>3, <1>4, <2>2, <3>1
  <2>3. CASE /\ r_sd_state = 1 /\ r_sd_state' = 1
             /\ r_initaddr3' = r_initaddr3 /\ r_sd_checksum' = r_sd_checksum
    BY <1>5, <2>3
  <2>4. CASE /\ r_sd_state = 1 /\ r_sd_state' = 2
             /\ r_initaddr3' = r_initaddr3 + 1 /\ r_sd_checksum' = r_sd_checksum
    BY <1>1, <1>5, <2>4
  <2>. QED BY <2>1, <2>2, <2>3, <2>4, CopyMoves
<1>8. r_verify_checksum' = card.sums[r_initaddr6' + (IF r_rb_state' = 20 THEN 1 ELSE 0)]
  <2>1. CASE r_rb_state = 2 /\ r_rb_state' = 20
    <3>1. /\ r_initaddr6' = r_initaddr6 /\ r_verify_checksum' = Plus(r_verify_checksum, odata)
          /\ r_init_state = 6 /\ r_initaddr6 < BinWords /\ odata = mem[r_initaddr6]
      BY <2>1, BackMoves DEF ReadBack
    <3>2. r_initaddr3 = BinWords
      BY <3>1 DEF Stages
    <3>3. mem[r_initaddr6] = FileWord(r_initaddr6)
      <4>1. r_initaddr6 \in 0 .. BinWords - 1
        BY <1>1, <3>1
      <4>2. r_initaddr6 < r_initaddr3 + (IF r_sd_state = 1 /\ w_dram_busy THEN 1 ELSE 0)
        BY <1>1, <3>1, <3>2
      <4>. QED BY <1>3, <3>1, <4>1, <4>2 DEF StoredInOrder
    <3>4. r_verify_checksum = card.sums[r_initaddr6]
      BY <1>1, <1>6, <2>1
    <3>. QED BY <1>1, <1>4, <2>1, <3>1, <3>3, <3>4
  <2>2. CASE r_rb_state = 20 /\ r_rb_state' = 0
    <3>1. r_initaddr6' = r_initaddr6 + 1 /\ r_verify_checksum' = r_verify_checksum
      BY <2>2, BackMoves
    <3>. QED BY <1>1, <1>6, <2>2, <3>1
  <2>3. CASE ~(r_rb_state = 2 /\ r_rb_state' = 20) /\ ~(r_rb_state = 20 /\ r_rb_state' = 0)
    <3>1. /\ r_initaddr6' = r_initaddr6 /\ r_verify_checksum' = r_verify_checksum
          /\ r_rb_state' = 20 <=> r_rb_state = 20
      BY <2>3, BackMoves
    <3>. QED BY <1>1, <1>6, <3>1
  <2>. QED BY <2>1, <2>2, <2>3
<1>. QED BY <1>7, <1>8
-----------------------------------------------------------------------------
(* The hand-over: held from the next byte, the reader comes to rest.       *)
LEMMA RestNat ==
  ASSUME TypeOK
  PROVE  toRest \in 0 .. 13
BY DEF toRest, TypeOK, LoaderTypeOK

LEMMA WholeImage ==
  ASSUME TypeOK, HandShake, r_initaddr3 = BinWords
  PROVE  4 * BinWords <= fptr
<1>1. /\ fptr \in Nat /\ senti \in Nat /\ state \in {0, 20, 21, 22}
      /\ BIN_SIZE \in Nat /\ BinWords \in Nat /\ 4 * BinWords = BIN_SIZE
  BY CardNat, Sizes DEF TypeOK, LoaderTypeOK
<1>2. words \in Nat /\ fptr >= 4 * words
  BY <1>1, Quarters DEF words
<1>3. CASE ~Pending /\ BOOTDONE
  <2>1. senti = BIN_SIZE /\ senti <= fptr
    BY <1>3 DEF HandShake
  <2>. QED BY <1>1, <2>1
<1>4. CASE ~(~Pending /\ BOOTDONE)
  <2>1. words >= BinWords
    BY <1>1, <1>2, <1>4 DEF HandShake
  <2>. QED BY <1>1, <1>2, <2>1
<1>. QED BY <1>3, <1>4

LEMMA FileBegun ==
  ASSUME TypeOK, Position, HandShake, Stages, r_init_state \in {4, 5, 6}
  PROVE  filesystem_state \in {"READ_A_FILE", "DONE"}
<1>1. r_initaddr3 = BinWords /\ BinWords \in Nat /\ BinWords >= 2 /\ fptr \in Nat
  BY CardNat, Sizes DEF Stages, TypeOK, LoaderTypeOK
<1>2. fptr > 0
  BY <1>1, WholeImage
<1>. QED BY <1>1, <1>2 DEF Position

LEMMA RestSooner ==
  ASSUME TypeOK, ReaderHost, ReaderPlace, Chosen, Position, HandShake, Stages, Rest, Tick,
         r_init_state \in {4, 5, 6}
  PROVE  toRest' = 0 \/ toRest' <= toRest - 1
<1>1. HostTick(psel) /\ ReaderTick(frbusy(r_init_state, r_sd_state)) /\ FindTick
  BY HandedOver DEF Tick, LoaderTick, HostTick, Quiet
<1>2. /\ ctrlstate \in {0, 2, 15, 16} /\ pready \in BOOLEAN /\ mover \in 0 .. 4
      /\ rdState \in {0, 1, 2, 3, 10, 11, 12, 13, 14, 15}
      /\ psel \in BOOLEAN /\ rdone \in BOOLEAN /\ read_start \in BOOLEAN
      /\ filesystem_state \in {"READ_A_FILE", "DONE"}
  BY FileBegun DEF TypeOK, LoaderTypeOK
<1>3. frbusy(r_init_state, r_sd_state)
  BY DEF frbusy
<1>4. CASE rdState = 0
  <2>1. AskSector /\ Quiet /\ mover = 0 /\ read_start /\ ~rdone
    BY <1>1, <1>2, <1>4 DEF ReaderTick, AwaitSector, AskByte, TakeByte, NextByte, SectorDone,
                            ReaderHost, ReaderPlace, Chosen
  <2>2. rdState' = 1
    BY <1>4, <2>1 DEF AskSector, HostIdle, sdsbusy, sdstate, Quiet
  <2>3. ~pready' /\ ctrlstate' = 0
    BY <1>1, <2>1 DEF HostTick, Quiet
  <2>. QED BY <1>4, <2>2, <2>3 DEF toRest
<1>5. CASE rdState = 1
  <2>1. AwaitSector
    BY <1>1, <1>5 DEF ReaderTick, AskSector, AskByte, TakeByte, NextByte, SectorDone
  <2>2. /\ psel /\ pwrite
        /\ (ctrlstate \in {0, 2} /\ ~pready) \/ (ctrlstate = 0 /\ pready)
    BY <1>5 DEF ReaderHost
  <2>3. CASE pready
    <3>1. rdState' = 2
      BY <1>5, <2>1, <2>3 DEF AwaitSector
    <3>. QED BY <3>1 DEF toRest
  <2>4. CASE ~pready /\ ctrlstate = 0
    <3>1. rdState' = 1 /\ ctrlstate' = 2 /\ ~pready'
      BY <1>1, <1>5, <2>1, <2>2, <2>4 DEF AwaitSector, HostTick
    <3>. QED BY <1>5, <2>4, <3>1 DEF toRest
  <2>5. CASE ~pready /\ ctrlstate = 2
    <3>1. rdState' = 1 /\ ctrlstate' = 0 /\ pready'
      BY <1>1, <1>5, <2>1, <2>2, <2>5 DEF AwaitSector, HostTick
    <3>. QED BY <1>5, <2>5, <3>1 DEF toRest
  <2>. QED BY <2>2, <2>3, <2>4, <2>5
<1>6. CASE rdState \in {2, 3}
  <2>1. AwaitSector
    BY <1>1, <1>6 DEF ReaderTick, AskSector, AskByte, TakeByte, NextByte, SectorDone
  <2>2. rdState' \in {2, 3, 10}
    BY <1>6, <2>1 DEF AwaitSector
  <2>. QED BY <2>2 DEF toRest
<1>7. CASE rdState = 10
  <2>1. AskByte(frbusy(r_init_state, r_sd_state))
    BY <1>1, <1>7 DEF ReaderTick, AskSector, AwaitSector, TakeByte, NextByte, SectorDone
  <2>2. rdState' = 10
    BY <1>3, <1>7, <2>1 DEF AskByte
  <2>. QED BY <2>2 DEF toRest
<1>8. CASE rdState = 11
  <2>1. IF pready THEN rdState' = 12 ELSE rdState' = 11
    BY <1>1, <1>8 DEF ReaderTick, AskSector, AwaitSector, AskByte, TakeByte, NextByte, SectorDone
  <2>2. psel /\ ~pwrite /\ (ctrlstate = 0 \/ (ctrlstate \in {15, 16} /\ ~pready))
    BY <1>8 DEF ReaderHost
  <2>3. /\ ctrlstate = 0 /\ ~pready => ctrlstate' = 15 /\ ~pready'
        /\ ctrlstate = 15 => ctrlstate' = 16
        /\ ctrlstate = 16 => ctrlstate' = 0 /\ pready'
    BY <1>1, <2>2 DEF HostTick
  <2>4. CASE pready
    BY <1>8, <2>1, <2>2, <2>4 DEF toRest
  <2>5. CASE ~pready
    BY <1>8, <2>1, <2>2, <2>3, <2>5 DEF toRest
  <2>. QED BY <2>4, <2>5
<1>9. CASE rdState \in {12, 13}
  <2>1. NextByte
    BY <1>1, <1>9 DEF ReaderTick, AskSector, AwaitSector, AskByte, TakeByte, SectorDone
  <2>2. IF rdState = 12 THEN rdState' = 13 ELSE rdState' \in {10, 14}
    BY <1>9, <2>1 DEF NextByte
  <2>. QED BY <1>9, <2>2 DEF toRest
<1>10. CASE rdState = 14
  <2>1. SectorDone
    BY <1>1, <1>10 DEF ReaderTick, AskSector, AwaitSector, AskByte, TakeByte, NextByte
  <2>2. ~rdone' /\ rdState' = IF read_start THEN 14 ELSE 15
    BY <1>10, <2>1 DEF SectorDone
  <2>3. rdone \/ ~read_start
    BY <1>10 DEF Chosen
  <2>. QED BY <1>2, <1>10, <2>2, <2>3 DEF toRest
<1>11. CASE rdState = 15
  <2>1. SectorDone /\ ~rdone
    BY <1>1, <1>11 DEF ReaderTick, AskSector, AwaitSector, AskByte, TakeByte, NextByte,
                       ReaderPlace
  <2>2. rdState' = IF read_start THEN 0 ELSE 15
    BY <1>11, <2>1 DEF SectorDone
  <2>3. read_start <=> filesystem_state # "DONE"
    BY <1>2, <1>11 DEF Chosen, Reading
  <2>4. filesystem_state = "DONE" => filesystem_state' = "DONE"
    BY <1>1, <2>1 DEF FindTick, Ask
  <2>5. CASE filesystem_state = "DONE"
    BY <1>11, <2>2, <2>3, <2>4, <2>5 DEF toRest
  <2>6. CASE filesystem_state # "DONE"
    BY <1>11, <2>2, <2>3, <2>6 DEF toRest
  <2>. QED BY <2>5, <2>6
<1>. QED BY <1>2, <1>4, <1>5, <1>6, <1>7, <1>8, <1>9, <1>10, <1>11

LEMMA TimeLeft ==
  ASSUME TypeOK, Chosen, Position, HandShake, Stages, Zeroed, ReadBack, Tick,
         r_init_state \in {4, 5, 6}
  PROVE  timeLeft \in Int /\ timeLeft' \in Nat /\ timeLeft' >= timeLeft - 1
<1>1. /\ busy \in Nat /\ BinWords \in Nat /\ BinWords >= 2
      /\ r_rb_state \in {0, 1, 2, 7, 20} /\ r_mem_rb_done \in BOOLEAN /\ r_rb_delay \in 0 .. 1
      /\ r_initaddr6 \in Nat /\ r_initaddr6 <= BinWords
  BY BootTypes
<1>2. r_init_state' = CASE r_init_state = 4 -> 6
                        [] r_init_state = 6 /\ r_mem_rb_done -> 5
                        [] OTHER -> r_init_state
  BY DEF Tick, InitState
<1>3. CASE r_init_state = 5
  BY <1>2, <1>3 DEF timeLeft
<1>4. CASE r_init_state = 4
  <2>1. r_init_state' = 6
    BY <1>2, <1>4
  <2>2. r_rb_state' = 0 /\ r_initaddr6' = 0 /\ ~r_mem_rb_done'
    BY <1>4, BackMoves DEF ReadBack
  <2>. QED BY <1>1, <1>4, <2>1, <2>2 DEF timeLeft, left
<1>5. CASE r_init_state = 6 /\ r_mem_rb_done
  BY <1>2, <1>5 DEF timeLeft
<1>6. CASE r_init_state = 6 /\ ~r_mem_rb_done
  <2>0. r_init_state' = 6
    BY <1>2, <1>6
  <2>1. CASE r_rb_state = 0
    <3>1. r_rb_state' = 1 /\ ~r_mem_rb_done' /\ r_initaddr6' = r_initaddr6
      BY <1>6, <2>1, BackMoves
    <3>. QED BY <1>1, <1>6, <2>0, <2>1, <3>1 DEF timeLeft, left
  <2>2. CASE r_rb_state = 1 /\ r_mem_rb_done'
    <3>1. r_initaddr6' = r_initaddr6 /\ r_initaddr6 = BinWords
      BY <1>6, <2>2, BackMoves
    <3>. QED BY <1>1, <1>6, <2>0, <2>2, <3>1 DEF timeLeft, left
  <2>3. CASE r_rb_state = 1 /\ ~r_mem_rb_done'
    <3>1. /\ r_rb_state' = 1 \/ (r_rb_state' = 7 /\ busy = 0)
          /\ r_initaddr6' = r_initaddr6
      BY <1>6, <2>3, BackMoves
    <3>2. r_rb_state' = 7 => busy' = 0
      BY <1>6, <2>3, <3>1, PortStep
    <3>. QED BY <1>1, <1>6, <2>0, <2>3, <3>1, <3>2 DEF timeLeft, left
  <2>4. CASE r_rb_state = 7
    <3>0. left >= 1 /\ left \in Int
      BY <1>1, <2>4 DEF ReadBack, left
    <3>1. /\ (r_rb_state' = 7 /\ busy = 0) \/ (r_rb_state' = 2 /\ busy > 0)
          /\ r_initaddr6' = r_initaddr6 /\ ~r_mem_rb_done' /\ left' = left
      BY <1>6, <2>4, BackMoves DEF left
    <3>2. busy = 0 => busy' > 0
      BY <1>6, <2>4, PortStep
    <3>. QED BY <1>1, <1>6, <2>0, <2>4, <3>0, <3>1, <3>2 DEF timeLeft
  <2>5. CASE r_rb_state = 2
    <3>0. left >= 1 /\ left \in Int
      BY <1>1, <2>5 DEF ReadBack, left
    <3>1. /\ r_rb_state' = 2 \/ (r_rb_state' = 20 /\ r_rb_delay' = 0)
          /\ ~r_mem_rb_done' /\ left' = left
      BY <1>6, <2>5, BackMoves DEF left
    <3>. QED BY <1>1, <1>6, <2>0, <2>5, <3>0, <3>1 DEF timeLeft
  <2>6. CASE r_rb_state = 20
    <3>0. left >= 1 /\ left \in Int
      BY <1>1, <2>6 DEF ReadBack, left
    <3>1. \/ /\ r_rb_state' = 20 /\ r_rb_delay = 0 /\ r_rb_delay' = 1
             /\ ~r_mem_rb_done' /\ r_initaddr6' = r_initaddr6
          \/ /\ r_rb_state' = 0 /\ r_rb_delay = 1
             /\ ~r_mem_rb_done' /\ r_initaddr6' = r_initaddr6 + 1
      BY <1>6, <2>6, BackMoves
    <3>2. CASE r_rb_state' = 20
      <4>1. left' = left
        BY <3>1, <3>2 DEF left
      <4>. QED BY <1>1, <1>6, <2>0, <2>6, <3>0, <3>1, <3>2, <4>1 DEF timeLeft
    <3>3. CASE r_rb_state' = 0
      <4>1. left' = left - 1
        BY <1>1, <3>1, <3>3 DEF left
      <4>. QED BY <1>1, <1>6, <2>0, <2>6, <3>0, <3>1, <3>3, <4>1 DEF timeLeft
    <3>. QED BY <3>1, <3>2, <3>3
  <2>. QED BY <1>1, <2>1, <2>2, <2>3, <2>4, <2>5, <2>6
<1>. QED BY <1>3, <1>4, <1>5, <1>6

LEMMA RestStep ==
  ASSUME TypeOK, TypeOK', ReaderHost, ReaderPlace, Chosen, Position, HandShake, Stages, Zeroed,
         ReadBack, Rest, Tick
  PROVE  Rest'
<1>1. toRest \in 0 .. 13 /\ toRest' \in 0 .. 13
  <2>1. TypeOK' => toRest' \in 0 .. 13
    BY DEF toRest, TypeOK, LoaderTypeOK
  <2>. QED BY <2>1, RestNat
<1>2. r_init_state \in {1, 3, 4, 5, 6}
  BY BootTypes
<1>3. CASE r_init_state \in {4, 5, 6}
  <2>1. toRest <= timeLeft
    BY <1>3 DEF Rest
  <2>. QED BY <1>1, <1>3, <2>1, RestSooner, TimeLeft DEF Rest
<1>4. CASE r_init_state \in {1, 3}
  <2>1. r_init_state' \in {1, 3, 4}
    BY <1>4 DEF Tick, InitState
  <2>2. r_init_state' = 4 => timeLeft' = 13
    BY DEF timeLeft
  <2>. QED BY <1>1, <2>1, <2>2 DEF Rest
<1>. QED BY <1>2, <1>3, <1>4

(* The types.                                                              *)
LEMMA BootTypesStep ==
  ASSUME TypeOK, Chosen, Position, Gathered, HandShake, Stages, Zeroed, Filled, ReadBack, Tick
  PROVE  /\ busy' \in Nat /\ mem' \in [0 .. BinWords -> Nat \cup {None}]
         /\ odata' \in Nat \cup {None}
         /\ o_init_calib_complete' \in BOOLEAN
         /\ r_init_state' \in {1, 3, 4, 5, 6}
         /\ r_zero_we' \in BOOLEAN /\ r_zero_done' \in BOOLEAN
         /\ r_sd_state' \in 0 .. 2 /\ r_sd_init_we' \in BOOLEAN /\ r_sd_init_data' \in Nat
         /\ r_initaddr3' \in 0 .. BinWords /\ r_sd_checksum' \in Nat /\ r_bblsd_done' \in BOOLEAN
         /\ r_rb_state' \in {0, 1, 2, 7, 20} /\ r_rb_delay' \in 0 .. 1
         /\ r_initaddr6' \in 0 .. BinWords /\ r_set_dram_le' \in BOOLEAN
         /\ r_verify_checksum' \in Nat /\ r_mem_rb_done' \in BOOLEAN
<1>1. /\ busy \in Nat /\ mem \in [0 .. BinWords -> Nat \cup {None}]
      /\ odata \in Nat \cup {None} /\ o_init_calib_complete \in BOOLEAN
      /\ r_zero_we \in BOOLEAN /\ r_zero_done \in BOOLEAN
      /\ r_init_state \in {1, 3, 4, 5, 6} /\ r_sd_state \in 0 .. 2
      /\ r_sd_init_we \in BOOLEAN /\ r_sd_init_data \in Nat
      /\ r_zeroaddr \in Nat /\ r_initaddr3 \in Nat /\ r_initaddr3 <= BinWords
      /\ r_sd_checksum \in Nat /\ r_bblsd_done \in BOOLEAN /\ r_rb_delay \in 0 .. 1
      /\ r_initaddr6 \in Nat /\ r_initaddr6 <= BinWords /\ r_set_dram_le \in BOOLEAN
      /\ r_verify_checksum \in Nat /\ r_mem_rb_done \in BOOLEAN /\ BinWords \in Nat
      /\ r_rb_state \in {0, 1, 2, 7, 20} /\ DATA \in Nat /\ WE \in BOOLEAN
  BY Sizes DEF TypeOK, LoaderTypeOK
<1>2. /\ busy > 0 => busy' = busy - 1 /\ mem' = mem /\ odata' = odata
      /\ busy = 0 => busy' \in 0 .. 22
      /\ busy = 0 => odata' = odata \/ (r_rb_state = 7 /\ odata' = mem[r_initaddr6])
      /\ busy = 0 => \/ mem' = mem
                     \/ \E a \in Nat : mem' = [mem EXCEPT ![a] = 0]
                     \/ mem' = [mem EXCEPT ![r_initaddr3] = r_sd_init_data]
  BY <1>1, PortStep
<1>3. busy' \in Nat
  BY <1>1, <1>2, SMTT(30)
<1>4. mem' \in [0 .. BinWords -> Nat \cup {None}]
  BY <1>1, <1>2
<1>5. odata' \in Nat \cup {None}
  BY <1>1, <1>2
<1>6. o_init_calib_complete' \in BOOLEAN
  BY <1>1 DEF Tick, PortTick
<1>7. r_init_state' \in {1, 3, 4, 5, 6}
  BY <1>1 DEF Tick, InitState
<1>8. r_zero_we' \in BOOLEAN
  BY <1>1 DEF Tick, ZeroTick
<1>9. r_zero_done' \in BOOLEAN
  BY <1>1, Zenon DEF Tick, ZeroTick
<1>10. r_bblsd_done' \in BOOLEAN
  BY <1>1, Zenon DEF Tick, CopyTick
<1>11. /\ r_sd_state' \in 0 .. 2 /\ r_sd_init_we' \in BOOLEAN /\ r_sd_init_data' \in Nat
       /\ r_sd_checksum' \in Nat
  <2>1. Plus(r_sd_checksum, DATA) \in Nat
    BY <1>1, PlusNat
  <2>2. TakeWord \/ HoldWord \/ WordStored
    BY DEF Tick, CopyTick
  <2>3. r_sd_init_we' \in BOOLEAN
    BY <1>1, <2>2 DEF TakeWord, HoldWord, WordStored
  <2>4. r_sd_state' \in 0 .. 2
    BY <1>1, <2>2 DEF TakeWord, HoldWord, WordStored
  <2>5. r_sd_init_data' \in Nat /\ r_sd_checksum' \in Nat
    BY <1>1, <2>1, <2>2 DEF TakeWord, HoldWord, WordStored
  <2>. QED BY <2>3, <2>4, <2>5
<1>12. r_initaddr3' \in 0 .. BinWords
  BY <1>1, CopyMoves
<1>13. /\ r_rb_state' \in {0, 1, 2, 7, 20} /\ r_rb_delay' \in 0 .. 1 /\ r_set_dram_le' \in BOOLEAN
  <2>1. r_rb_state' \in {0, 1, 2, 7, 20} /\ r_rb_delay' \in 0 .. 1
    BY <1>1, BackMoves
  <2>2. BackTick
    BY DEF Tick
  <2>3. r_set_dram_le' \in BOOLEAN
    BY <1>1, <2>2 DEF BackTick, NextWord, ReadWord
  <2>. QED BY <2>1, <2>3
<1>14. r_initaddr6' \in 0 .. BinWords
  <2>1. r_rb_state = 20 => r_initaddr6 < BinWords
    BY DEF ReadBack
  <2>. QED BY <1>1, <2>1, BackMoves
<1>15. r_mem_rb_done' \in BOOLEAN
  BY <1>1, BackMoves
<1>16. r_verify_checksum' \in Nat
  <2>1. CASE r_rb_state = 2 /\ r_rb_state' = 20
    <3>1. r_init_state = 6 /\ r_initaddr6 < BinWords /\ odata = mem[r_initaddr6]
      BY <2>1, BackMoves DEF ReadBack
    <3>2. odata \in Nat
      BY <1>1, <3>1 DEF Filled
    <3>. QED BY <1>1, <2>1, <3>2, PlusNat, BackMoves
  <2>2. CASE ~(r_rb_state = 2 /\ r_rb_state' = 20)
    BY <1>1, <2>2, BackMoves
  <2>. QED BY <2>1, <2>2
<1>. QED BY <1>3, <1>4, <1>5, <1>6, <1>7, <1>8, <1>9, <1>10, <1>11, <1>12, <1>13, <1>14, <1>15,
            <1>16
-----------------------------------------------------------------------------
(* The invariant.                                                          *)
LEMMA InitInv ==
  ASSUME Init
  PROVE  IInv
<1>1. card \in Cards /\ LoaderInit
  BY DEF Init, LoaderInit
<1>2. /\ BinWords \in Nat /\ BinWords >= 2 /\ 4 * BinWords = BIN_SIZE /\ BIN_SIZE >= 8
      /\ BIN_SIZE \in Nat /\ SECTOR \in Nat /\ SECTOR >= 8 /\ card.size \in Nat
  BY <1>1, Sizes, CardNat
<1>3. TypeOK
  <2>1. /\ fptr \in 0 .. card.size /\ senti \in 0 .. BIN_SIZE
        /\ waddr \in 0 .. SECTOR /\ raddr \in 0 .. SECTOR - 1
        /\ mw \in [0 .. 3 -> Nat]
    BY <1>1, <1>2 DEF LoaderInit
  <2>2. /\ ctrlstate \in {0, 2, 15, 16} /\ blk \in Nat \cup {None} /\ mover \in 0 .. 4
        /\ rdState \in {0, 1, 2, 3, 10, 11, 12, 13, 14, 15} /\ state \in {0, 20, 21, 22}
        /\ filesystem_state \in Reading \cup {"RESET", "DONE"}
        /\ rsector \in Int /\ rdata \in Nat /\ read_sector_no \in Int /\ DATA \in Nat
        /\ curr_cluster \in Nat /\ cluster_sector_offset \in Nat /\ target_cluster \in Nat
    BY <1>1 DEF LoaderInit
  <2>3. /\ pready \in BOOLEAN /\ psel \in BOOLEAN /\ pwrite \in BOOLEAN
        /\ outen \in BOOLEAN /\ rdone \in BOOLEAN
        /\ read_start \in BOOLEAN /\ search_fat \in BOOLEAN /\ file_found \in BOOLEAN
        /\ send \in BOOLEAN /\ WE \in BOOLEAN /\ BOOTDONE \in BOOLEAN
    BY <1>1 DEF LoaderInit
  <2>4. LoaderTypeOK
    BY <1>1, <2>1, <2>2, <2>3 DEF LoaderTypeOK
  <2>5. /\ busy \in Nat /\ mem \in [0 .. BinWords -> Nat \cup {None}]
        /\ odata \in Nat \cup {None}
        /\ r_init_state \in {1, 3, 4, 5, 6} /\ r_zeroaddr \in 0 .. BinWords
        /\ r_sd_state \in 0 .. 2 /\ r_sd_init_data \in Nat
        /\ r_initaddr3 \in 0 .. BinWords /\ r_sd_checksum \in Nat
        /\ r_rb_state \in {0, 1, 2, 7, 20} /\ r_rb_delay \in 0 .. 1
        /\ r_initaddr6 \in 0 .. BinWords /\ r_verify_checksum \in Nat
    BY <1>2 DEF Init
  <2>6. /\ o_init_calib_complete \in BOOLEAN /\ r_zero_we \in BOOLEAN
        /\ r_zero_done \in BOOLEAN /\ r_sd_init_we \in BOOLEAN /\ r_bblsd_done \in BOOLEAN
        /\ r_set_dram_le \in BOOLEAN /\ r_mem_rb_done \in BOOLEAN
    BY DEF Init
  <2>. QED BY <2>4, <2>5, <2>6 DEF TypeOK
<1>4. fptr = 0 /\ state = 0 /\ ~send /\ ~BOOTDONE /\ senti = 0 /\ ~WE /\ DATA = 0
  BY <1>1 DEF LoaderInit
<1>5. words = 0 /\ fptr % 4 = 0 /\ fptr % 8 = 0 /\ ~Pending
  BY <1>4 DEF words, Pending, Offered
<1>6. ReaderHost /\ ReaderPlace
  BY <1>1 DEF LoaderInit, ReaderHost, ReaderPlace, Quiet
<1>7. Chosen /\ Position
  BY <1>1 DEF LoaderInit, Chosen, Position, InFile, Reading
<1>8. Gathered
  BY <1>4, <1>5 DEF Gathered
<1>9. HandShake
  BY <1>2, <1>4, <1>5 DEF HandShake, Init, Pending
<1>10. Stages /\ Zeroed /\ ReadBack /\ Rest
  BY <1>2 DEF Init, Stages, Zeroed, ReadBack, Rest
<1>11. Race
  BY <1>5 DEF Race
<1>12. Filled /\ StoredInOrder
  BY DEF Init, Filled, StoredInOrder
<1>13. Summed
  BY <1>1, SumNext DEF Init, Summed
<1>. QED BY <1>3, <1>6, <1>7, <1>8, <1>9, <1>10, <1>11, <1>12, <1>13 DEF IInv

LEMMA TypesStep ==
  ASSUME IInv, Tick
  PROVE  TypeOK'
<1>. USE DEF IInv
<1>1. card' = card
  BY DEF Tick, LoaderTick
<1>2. LoaderTypeOK'
  BY <1>1, ReaderTypes, FindTypes, SendTypes DEF LoaderTypeOK
<1>. QED BY <1>2, BootTypesStep, ZeroedStep DEF TypeOK

LEMMA TickInv ==
  ASSUME IInv, Tick
  PROVE  IInv'
<1>1. /\ TypeOK /\ ReaderHost /\ ReaderPlace /\ Chosen /\ Position /\ Gathered /\ HandShake
      /\ Stages /\ Race /\ Zeroed /\ Filled /\ StoredInOrder /\ ReadBack /\ Summed /\ Rest
  BY DEF IInv
<1>2. TypeOK'
  BY TypesStep
<1>3. ReaderHost'
  BY <1>1, ReaderHostStep
<1>4. ReaderPlace' /\ Chosen' /\ Position'
  BY <1>1, ReaderPlaceStep, ChosenStep, PositionStep
<1>5. Gathered' /\ HandShake' /\ Stages'
  BY <1>1, GatheredStep, HandShakeStep, StagesStep
<1>6. Race'
  BY <1>1, RaceStep
<1>7. Zeroed' /\ Filled' /\ StoredInOrder' /\ ReadBack' /\ Summed'
  BY <1>1, ZeroedStep, FilledStep, StoredStep, ReadBackStep, SummedStep
<1>8. Rest'
  BY <1>1, <1>2, RestStep
<1>. QED BY <1>2, <1>3, <1>4, <1>5, <1>6, <1>7, <1>8 DEF IInv

LEMMA StutterInv ==
  ASSUME IInv, UNCHANGED vars
  PROVE  IInv'
<1>1. /\ UNCHANGED loaderVars /\ UNCHANGED bootVars
  BY DEF vars
<1>2. /\ UNCHANGED card /\ UNCHANGED hostVars /\ UNCHANGED readerVars
      /\ UNCHANGED findVars /\ UNCHANGED sendVars
  BY <1>1 DEF loaderVars
<1>3. /\ UNCHANGED portVars /\ UNCHANGED r_init_state /\ UNCHANGED zeroVars
      /\ UNCHANGED copyVars /\ UNCHANGED backVars
  BY <1>1 DEF bootVars
<1>. USE <1>2, <1>3 DEF hostVars, readerVars, findVars, sendVars, portVars, zeroVars, copyVars,
                        backVars
<1>4. TypeOK' <=> TypeOK
  BY DEF TypeOK, LoaderTypeOK
<1>5. ReaderHost' <=> ReaderHost
  BY DEF ReaderHost, Quiet
<1>6. ReaderPlace' <=> ReaderPlace
  BY DEF ReaderPlace
<1>7. Chosen' <=> Chosen
  BY DEF Chosen
<1>8. Position' <=> Position
  BY DEF Position, InFile, At, taken, FirstTold
<1>9. Gathered' <=> Gathered
  BY DEF Gathered, words, FileWord, FirstTold
<1>10. HandShake' <=> HandShake
  BY DEF HandShake, Pending, Offered, words
<1>11. Stages' <=> Stages
  BY DEF Stages
<1>12. Race' <=> Race
  BY DEF Race, Pending, Offered, U, T, byteIn
<1>13. Zeroed' <=> Zeroed
  BY DEF Zeroed
<1>14. (Filled' <=> Filled) /\ (StoredInOrder' <=> StoredInOrder)
  BY DEF Filled, StoredInOrder, FileWord, FirstTold, w_dram_busy
<1>15. ReadBack' <=> ReadBack
  BY DEF ReadBack
<1>16. Summed' <=> Summed
  BY DEF Summed, FirstTold
<1>17. Rest' <=> Rest
  BY DEF Rest, toRest, timeLeft, left
<1>. QED BY <1>4, <1>5, <1>6, <1>7, <1>8, <1>9, <1>10, <1>11, <1>12, <1>13, <1>14, <1>15, <1>16,
            <1>17 DEF IInv

(* The invariant, whatever the card and the times of its blocks and of the  *)
(* memory.                                                                  *)
THEOREM BootInv == Spec => []IInv
<1>1. IInv /\ [Tick]_vars => IInv'
  BY TickInv, StutterInv
<1>. QED BY InitInv, <1>1, PTL DEF Spec

(* However long the memory takes for each word, within 2 to 22 cycles, the *)
(* copy loses, doubles and misplaces none of a file whose first cluster    *)
(* two bytes tell, and writes nothing where it has not got yet, on any     *)
(* card (maintn.v:200, sdspi_file_reader.v:637).                           *)
THEOREM StoredSafe == Spec => []StoredInOrder
<1>1. IInv => StoredInOrder
  BY DEF IInv
<1>. QED BY <1>1, BootInv, PTL

(* The card host is handed over between two accesses, and every counter of *)
(* the boot keeps its range (example_soc-dual.v:588, maintn.v:196).        *)
THEOREM BootSafe == Spec => []Inv
<1>1. IInv => Inv
  BY HandedOver DEF IInv, Inv, HandOver, Quiet
<1>. QED BY <1>1, BootInv, PTL

LEMMA BootedAll ==
  ASSUME IInv, w_init_done
  PROVE  /\ r_initaddr3 = BinWords /\ r_initaddr6 = BinWords /\ r_sd_state # 1 /\ r_rb_state = 0
         /\ card \in Cards /\ card.size >= BIN_SIZE
         /\ FirstTold => \A k \in 0 .. BinWords - 1 : mem[k] = FileWord(k)
<1>1. r_init_state = 5
  BY DEF w_init_done
<1>2. r_initaddr3 = BinWords /\ r_initaddr6 = BinWords /\ r_rb_state = 0
  BY <1>1 DEF IInv, Stages, ReadBack
<1>3. r_sd_state # 1
  BY <1>1, CopyOnly DEF IInv
<1>4. card \in Cards /\ fptr \in 0 .. card.size
  BY DEF IInv, TypeOK, LoaderTypeOK
<1>5. card.size >= BIN_SIZE
  <2>1. BIN_SIZE <= fptr
    BY <1>2, WholeImage, Sizes DEF IInv
  <2>2. card.size \in Nat /\ BIN_SIZE \in Nat
    BY <1>4, CardNat, Sizes
  <2>. QED BY <1>4, <2>1, <2>2
<1>6. FirstTold => \A k \in 0 .. BinWords - 1 : mem[k] = FileWord(k)
  BY <1>1, <1>2, <1>3, Sizes DEF IInv, StoredInOrder
<1>. QED BY <1>2, <1>3, <1>4, <1>5, <1>6

(* The sum of what was copied, that of what was read back and the one      *)
(* initmem_gen printed are the same (maintn.v:309, main-nuttx.c:110), when *)
(* two bytes tell where the file begins.                                   *)
THEOREM SumsSafe == Spec => []ChecksumsAgree
<1>1. ASSUME IInv PROVE ChecksumsAgree
  <2>1. SUFFICES ASSUME FirstTold, w_init_done
                 PROVE  r_verify_checksum = r_sd_checksum /\ r_sd_checksum = card.sums[BinWords]
    BY DEF ChecksumsAgree
  <2>2. /\ r_initaddr3 = BinWords /\ r_initaddr6 = BinWords /\ r_sd_state # 1
        /\ r_rb_state = 0 /\ card.size >= BIN_SIZE /\ BinWords + 0 = BinWords
    BY <1>1, <2>1, BootedAll, Sizes
  <2>. QED BY <1>1, <2>1, <2>2 DEF IInv, Summed
<1>. QED BY <1>1, BootInv, PTL

(* The digits of a word.                                                   *)
LEMMA Digit ==
  ASSUME NEW b \in Byte, NEW m \in Nat
  PROVE  (b + BASE * m) % BASE = b /\ (b + BASE * m) \div BASE = m /\ b + BASE * m \in Nat
<1>1. BASE \in Nat /\ BASE >= 2
  BY Sizes
<1>2. BASE * m \in Nat
  BY <1>1
<1>3. PICK x \in Nat : x = b + BASE * m
  BY <1>1, <1>2 DEF Byte
<1>4. x \div BASE \in Int /\ x % BASE \in 0 .. BASE - 1 /\ x = BASE * (x \div BASE) + (x % BASE)
  BY <1>1
<1>5. PICK q \in Int : q = x \div BASE
  BY <1>4
<1>6. PICK r \in 0 .. BASE - 1 : r = x % BASE
  BY <1>4
<1>7. BASE * q + r = BASE * m + b
  BY <1>1, <1>2, <1>3, <1>4, <1>5, <1>6 DEF Byte
<1>8. q = m /\ r = b
  BY <1>1, <1>7, DivUnique DEF Byte
<1>. QED BY <1>3, <1>5, <1>6, <1>8

LEMMA Decode ==
  ASSUME NEW b0 \in Byte, NEW b1 \in Byte, NEW b2 \in Byte, NEW b3 \in Byte
  PROVE  LET w == WordOf(b0, b1, b2, b3)
         IN  /\ Shifted(w, 0) % BASE = b0 /\ Shifted(w, 1) % BASE = b1
             /\ Shifted(w, 2) % BASE = b2 /\ Shifted(w, 3) % BASE = b3
<1>0. 0 \in Nat /\ b3 \in Nat
  BY Sizes DEF Byte
<1>1. PICK w2 \in Nat : w2 = b2 + BASE * b3
  BY <1>0, Digit
<1>2. PICK w1 \in Nat : w1 = b1 + BASE * w2
  BY <1>1, Digit
<1>3. PICK w0 \in Nat : w0 = b0 + BASE * w1
  BY <1>2, Digit
<1>4. w0 = WordOf(b0, b1, b2, b3)
  BY <1>1, <1>2, <1>3 DEF WordOf
<1>5. /\ w0 % BASE = b0 /\ w0 \div BASE = w1
      /\ w1 % BASE = b1 /\ w1 \div BASE = w2
      /\ w2 % BASE = b2 /\ w2 \div BASE = b3
  BY <1>0, <1>1, <1>2, <1>3, Digit
<1>6. b3 % BASE = b3
  BY Sizes DEF Byte
<1>. QED BY <1>4, <1>5, <1>6 DEF Shifted

LEMMA MemoryIsImage ==
  ASSUME IInv, FirstTold, w_init_done, NEW i \in 0 .. BIN_SIZE - 1
  PROVE  ByteAt(i) = ImageOf[i]
<1>1. BIN_SIZE \in Nat /\ BinWords \in Nat /\ 4 * BinWords = BIN_SIZE
  BY Sizes
<1>2. PICK k \in 0 .. BinWords - 1 : k = i \div 4
  BY <1>1
<1>3. PICK j \in 0 .. 3 : j = i % 4
  OBVIOUS
<1>4. i = 4 * k + j
  BY <1>2, <1>3
<1>5. mem[k] = FileWord(k) /\ card \in Cards /\ card.size >= BIN_SIZE
  BY BootedAll
<1>6. \A n \in 0 .. BIN_SIZE - 1 : card.data[n] \in Byte /\ card.data[n] = ImageOf[n]
  BY <1>1, <1>5, CardFacts, CardNat DEF FromGenerator, ImageOf
<1>7. /\ 4 * k \in 0 .. BIN_SIZE - 1 /\ 4 * k + 1 \in 0 .. BIN_SIZE - 1
      /\ 4 * k + 2 \in 0 .. BIN_SIZE - 1 /\ 4 * k + 3 \in 0 .. BIN_SIZE - 1
  BY <1>1
<1>8. /\ Shifted(FileWord(k), 0) % BASE = card.data[4 * k]
      /\ Shifted(FileWord(k), 1) % BASE = card.data[4 * k + 1]
      /\ Shifted(FileWord(k), 2) % BASE = card.data[4 * k + 2]
      /\ Shifted(FileWord(k), 3) % BASE = card.data[4 * k + 3]
  BY <1>6, <1>7, Decode DEF FileWord
<1>9. ByteAt(i) = Shifted(FileWord(k), j) % BASE
  BY <1>2, <1>3, <1>5 DEF ByteAt
<1>10. ByteAt(i) = card.data[i]
  BY <1>3, <1>4, <1>8, <1>9
<1>. QED BY <1>6, <1>10

LEMMA Loads ==
  ASSUME NEW file \in Seq(Byte), NEW m, NEW at \in Nat, NEW i \in DOMAIN m, i \in Int
  PROVE  /\ i \in at .. at + Len(file) - 1 => load_binfile(file, m, at)[i] = file[i - at + 1]
         /\ i < at => load_binfile(file, m, at)[i] = m[i]
         /\ DOMAIN load_binfile(file, m, at) = DOMAIN m
<1>1. Len(file) \in Nat
  OBVIOUS
<1>. QED BY <1>1 DEF load_binfile, Loaded

LEMMA ImageHolds ==
  ASSUME card \in Cards, card.size >= BIN_SIZE
  PROVE  /\ \A i \in 1 .. Len(card.kernel) : i - 1 \in 0 .. BIN_SIZE - 1
                                             /\ ImageOf[i - 1] = card.kernel[i]
         /\ \A i \in 1 .. Len(card.dtb) : D_INITD_ADDR + i - 1 \in 0 .. BIN_SIZE - 1
                                          /\ ImageOf[D_INITD_ADDR + i - 1] = card.dtb[i]
<1>1. /\ card.kernel \in Seq(Byte) /\ card.dtb \in Seq(Byte) /\ Fits(card.kernel, 0)
      /\ card.dtb # <<>> => /\ Len(card.kernel) <= D_INITD_ADDR
                            /\ Fits(card.dtb, D_INITD_ADDR)
  BY CardFacts DEF FromGenerator
<1>2. /\ D_INITD_ADDR \in Nat /\ DRAM_SIZE \in Nat /\ BIN_SIZE = DRAM_SIZE
      /\ Len(card.kernel) \in Nat /\ Len(card.dtb) \in Nat
  BY <1>1, ImageAssumption, SizesAssumption
<1>3. /\ Len(card.kernel) + 1 <= DRAM_SIZE
      /\ card.dtb # <<>> => D_INITD_ADDR + Len(card.dtb) + 1 <= DRAM_SIZE
  BY <1>1, <1>2 DEF Fits, Loaded
<1> DEFINE K == load_binfile(card.kernel, Cleared, 0)
<1>4. DOMAIN Cleared = 0 .. DRAM_SIZE - 1
  BY DEF Cleared
<1>5. DOMAIN K = 0 .. DRAM_SIZE - 1
  BY <1>4 DEF load_binfile
<1>6. \A i \in 0 .. Len(card.kernel) - 1 : K[i] = card.kernel[i + 1]
  <2>1. SUFFICES ASSUME NEW i \in 0 .. Len(card.kernel) - 1 PROVE K[i] = card.kernel[i + 1]
    OBVIOUS
  <2>2. i \in DOMAIN Cleared /\ i \in Int /\ i \in 0 .. 0 + Len(card.kernel) - 1 /\ 0 \in Nat
    BY <1>2, <1>3, <1>4
  <2>3. K[i] = card.kernel[i - 0 + 1]
    BY <1>1, <2>2, Loads
  <2>. QED BY <2>3
<1> HIDE DEF K
<1>7. ImageOf = IF card.dtb = <<>> THEN K ELSE load_binfile(card.dtb, K, D_INITD_ADDR)
  BY DEF ImageOf, initmem_nuttx, initmem_linux, K
<1>8. ASSUME NEW i \in 1 .. Len(card.kernel)
      PROVE  i - 1 \in 0 .. BIN_SIZE - 1 /\ ImageOf[i - 1] = card.kernel[i]
  <2>1. i - 1 \in 0 .. BIN_SIZE - 1 /\ i - 1 \in 0 .. Len(card.kernel) - 1
    BY <1>2, <1>3
  <2>2. K[i - 1] = card.kernel[i]
    <3>1. K[i - 1] = card.kernel[i - 1 + 1]
      BY <1>6, <2>1
    <3>. QED BY <1>2, <3>1
  <2>3. CASE card.dtb = <<>>
    BY <1>7, <2>1, <2>2, <2>3
  <2>4. CASE card.dtb # <<>>
    <3>1. i - 1 < D_INITD_ADDR /\ i - 1 \in DOMAIN K /\ i - 1 \in Int
      BY <1>1, <1>2, <1>5, <2>1, <2>4
    <3>2. load_binfile(card.dtb, K, D_INITD_ADDR)[i - 1] = K[i - 1]
      BY <1>1, <1>2, <3>1, Loads
    <3>. QED BY <1>7, <2>1, <2>2, <2>4, <3>2
  <2>. QED BY <2>3, <2>4
<1>9. ASSUME NEW i \in 1 .. Len(card.dtb)
      PROVE  /\ D_INITD_ADDR + i - 1 \in 0 .. BIN_SIZE - 1
             /\ ImageOf[D_INITD_ADDR + i - 1] = card.dtb[i]
  <2>1. card.dtb # <<>>
    OBVIOUS
  <2>2. PICK a \in Int : a = D_INITD_ADDR + i - 1
    BY <1>2
  <2>3. a \in 0 .. BIN_SIZE - 1 /\ a \in D_INITD_ADDR .. D_INITD_ADDR + Len(card.dtb) - 1
    BY <1>2, <1>3, <2>1, <2>2
  <2>4. a \in DOMAIN K /\ a \in Int /\ D_INITD_ADDR \in Nat
    BY <1>2, <1>5, <2>3
  <2>5. load_binfile(card.dtb, K, D_INITD_ADDR)[a] = card.dtb[a - D_INITD_ADDR + 1]
    <3> DEFINE file == card.dtb
    <3>1. file \in Seq(Byte)
      BY <1>1
    <3>2. a \in D_INITD_ADDR .. D_INITD_ADDR + Len(file) - 1
      BY <2>3
    <3> HIDE DEF file
    <3>3. load_binfile(file, K, D_INITD_ADDR)[a] = file[a - D_INITD_ADDR + 1]
      BY <2>4, <3>1, <3>2, Loads
    <3>. QED BY <3>3 DEF file
  <2>6. a - D_INITD_ADDR + 1 = i
    BY <1>2, <2>2
  <2>. QED BY <1>7, <2>1, <2>2, <2>3, <2>5, <2>6
<1>. QED BY <1>8, <1>9

(* When the harts get the memory (maintn.v:280), the file was as long as   *)
(* the image, and the programs are there if two bytes tell where it begins.*)
THEOREM ProgramsSafe == Spec => []ProgramsInMemory
<1>1. ASSUME IInv PROVE ProgramsInMemory
  <2>1. SUFFICES ASSUME w_init_done
                 PROVE  /\ card.size >= BIN_SIZE
                        /\ FirstTold =>
                             /\ \A i \in 1 .. Len(card.kernel) : ByteAt(i - 1) = card.kernel[i]
                             /\ \A i \in 1 .. Len(card.dtb) :
                                  ByteAt(D_INITD_ADDR + i - 1) = card.dtb[i]
    BY DEF ProgramsInMemory
  <2>2. card \in Cards /\ card.size >= BIN_SIZE
    BY <1>1, <2>1, BootedAll
  <2>. QED BY <1>1, <2>1, <2>2, ImageHolds, MemoryIsImage
<1>. QED BY <1>1, BootInv, PTL
=============================================================================
