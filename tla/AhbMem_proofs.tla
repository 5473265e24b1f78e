---------------------------- MODULE AhbMem_proofs ----------------------------
(***************************************************************************)
(* Proofs about AhbMem.                                                    *)
(***************************************************************************)
EXTENDS AhbMem, TLAPS

(***************************************************************************)
(* The words of the memory and of the bus.                                 *)
(***************************************************************************)
LEMMA CellType ==
  ASSUME NEW a \in CpuAddr
  PROVE  Cell(a) \in Addr /\ a[1] \in Tag /\ a[2] \in Index
BY CacheAssumption DEF CpuAddr, Addr, Cell

LEMMA CellOf ==
  ASSUME NEW a \in CpuAddr
  PROVE  Cell(a) = <<Frame[a[1]], a[2]>> /\ a = <<a[1], a[2]>>
BY DEF CpuAddr, Cell

LEMMA ReadType ==
  ASSUME NEW a \in CpuAddr, NEW m \in SUBSET Lane
  PROVE  /\ ReadOf(a, m) \in ReadRequest
         /\ ReadOf(a, m) \in Request
         /\ ReadOf(a, m).op = "read" /\ ReadOf(a, m).addr = Cell(a)
         /\ ReadOf(a, m) # NoReq /\ ReadOf(a, m) # Written
BY CellType, CacheAssumption DEF ReadOf, ReadRequest, Request

LEMMA WriteType ==
  ASSUME NEW a \in CpuAddr, NEW m \in SUBSET Lane, NEW d \in Word
  PROVE  /\ WriteOf(a, m, d) \in WriteRequest
         /\ WriteOf(a, m, d) \in Request
         /\ WriteOf(a, m, d).op = "write" /\ WriteOf(a, m, d).addr = Cell(a)
         /\ WriteOf(a, m, d).ctrl = m /\ WriteOf(a, m, d).data = d
         /\ WriteOf(a, m, d) # NoReq /\ WriteOf(a, m, d) # Written
BY CellType, CacheAssumption DEF WriteOf, WriteRequest, Request

(* Mixing lanes of two words gives a word.                                 *)
LEMMA MixType ==
  ASSUME NEW w \in Word, NEW d \in Word, NEW m
  PROVE  [l \in Lane |-> IF l \in m THEN d[l] ELSE w[l]] \in Word
BY DEF Word

(***************************************************************************)
(* The cache.                                                              *)
(***************************************************************************)
(* Lines stay coherent while the memory does not change: a line is filled  *)
(* with the word its tag names.                                            *)
LEMMA BramCoherent ==
  ASSUME CacheTypeOK, LinesCoherent, NEW a \in CpuAddr, Bram(a), mem' = mem,
         c_we => c_idata = mem[Cell(a)]
  PROVE  LinesCoherent'
<1> SUFFICES ASSUME NEW i \in Index, line'[i] # Invalid
             PROVE  line'[i][2] = mem[<<Frame[line'[i][1]], i>>]
  BY DEF LinesCoherent
<1>1. a[2] \in Index /\ Cell(a) = <<Frame[a[1]], a[2]>>
  BY CellType, CellOf
<1>2. CASE i # a[2]
  BY <1>1, <1>2 DEF Bram, LinesCoherent, CacheTypeOK
<1>3. CASE i = a[2] /\ c_we
  <2>1. line'[i] = <<a[1], c_idata>>
    BY <1>1, <1>3 DEF Bram, CacheTypeOK
  <2> QED
    BY <2>1, <1>1, <1>3
<1>4. CASE i = a[2] /\ ~c_we
  <2>1. line'[i] = line[i]
    BY <1>1, <1>4 DEF Bram, CacheTypeOK
  <2> QED
    BY <2>1, <1>1, <1>4 DEF LinesCoherent
<1> QED
  BY <1>2, <1>3, <1>4

(* A write to the memory finds the line of its index cleared.              *)
LEMMA WriteCoherent ==
  ASSUME CacheTypeOK, LinesCoherent, NEW a \in CpuAddr, Bram(a),
         line[a[2]] = Invalid, ~c_we, NEW w, mem' = [mem EXCEPT ![Cell(a)] = w]
  PROVE  LinesCoherent'
<1> SUFFICES ASSUME NEW i \in Index, line'[i] # Invalid
             PROVE  line'[i][2] = mem'[<<Frame[line'[i][1]], i>>]
  BY DEF LinesCoherent
<1>1. a[2] \in Index /\ Cell(a) = <<Frame[a[1]], a[2]>>
  BY CellType, CellOf
<1>2. line'[a[2]] = Invalid
  BY <1>1 DEF Bram, CacheTypeOK
<1>3. i # a[2] /\ line'[i] = line[i]
  BY <1>1, <1>2 DEF Bram, CacheTypeOK
<1>4. line[i] \in Tag \X Word
  BY <1>3 DEF CacheTypeOK, Line
<1>5. <<Frame[line[i][1]], i>> \in Addr /\ <<Frame[line[i][1]], i>> # Cell(a)
  BY <1>1, <1>3, <1>4, CacheAssumption DEF Addr
<1>6. mem'[<<Frame[line[i][1]], i>>] = mem[<<Frame[line[i][1]], i>>]
  BY <1>5 DEF CacheTypeOK
<1> QED
  BY <1>3, <1>6 DEF LinesCoherent

(* The registers of the cache keep their types.                            *)
LEMMA CacheFlags ==
  ASSUME CacheFlagsOK, NEW rd, NEW wr, NEW a, NEW mask, NEW data,
         CacheTick(rd, wr, a, mask, data), MemTick
  PROVE  CacheFlagsOK'
<1>1. w_init_done' \in BOOLEAN
  BY Zenon DEF CacheFlagsOK, MemTick, PortTick, BootTick
<1>2. CASE LookUp(rd, wr, a, mask, data)
  BY <1>1, <1>2, Zenon DEF CacheFlagsOK, LookUp, NewRead, NewWrite, NoNew
<1>3. CASE Miss
  BY <1>1, <1>3, Zenon DEF CacheFlagsOK, Miss
<1>4. CASE AskWord
  BY <1>1, <1>4, Zenon DEF CacheFlagsOK, AskWord
<1>5. CASE AwaitWord
  BY <1>1, <1>5, Zenon DEF CacheFlagsOK, AwaitWord
<1>6. CASE FillLine
  BY <1>1, <1>6, Zenon DEF CacheFlagsOK, FillLine
<1>7. CASE AskWrite
  BY <1>1, <1>7, Zenon DEF CacheFlagsOK, AskWrite
<1>8. CASE AwaitWrite
  BY <1>1, <1>8, Zenon DEF CacheFlagsOK, AwaitWrite
<1> QED
  BY <1>2, <1>3, <1>4, <1>5, <1>6, <1>7, <1>8 DEF CacheTick

LEMMA BramTypes ==
  ASSUME CacheTypeOK, NEW a \in CpuAddr, Bram(a), c_we => c_idata \in Word
  PROVE  line' \in [Index -> Line] /\ r_odata' \in Line /\ r_tag' \in Tag
<1> DEFINE new == IF c_we THEN <<a[1], c_idata>>
                  ELSE IF c_clr THEN Invalid ELSE line[a[2]]
<1>1. a[1] \in Tag /\ a[2] \in Index
  BY CellType
<1>2. new \in Line
  BY <1>1 DEF CacheTypeOK, Line
<1>3. line' = [line EXCEPT ![a[2]] = new] /\ r_odata' = new /\ r_tag' = a[1]
  BY DEF Bram
<1> HIDE DEF new
<1> QED
  BY <1>1, <1>2, <1>3 DEF CacheTypeOK

LEMMA PortTypes ==
  ASSUME CacheTypeOK, MemTick
  PROVE  /\ pend' \in Request \cup {NoReq, Written}
         /\ mem' \in [Addr -> Word]
         /\ odata' \in Word \cup {Junk}
<1>1. CASE ~w_init_done
  BY <1>1 DEF MemTick, BootTick, CacheTypeOK
<1>2. CASE w_init_done /\ Port!Accept
  <2>1. PortRequest \in Request \cup {NoReq}
    BY ReadType, WriteType DEF CacheTypeOK, PortRequest
  <2> QED
    BY <1>2, <2>1 DEF Port!Accept, CacheTypeOK
<1>3. CASE w_init_done /\ Port!Write
  <2>1. pend \in WriteRequest
    BY <1>3, CacheAssumption DEF Port!Write, Request, ReadRequest, WriteRequest
  <2>2. pend.addr \in Addr /\ pend.data \in Word /\ mem[pend.addr] \in Word
    BY <2>1 DEF WriteRequest, CacheTypeOK
  <2>3. mem' = [mem EXCEPT ![pend.addr] =
               [l \in Lane |-> IF l \in pend.ctrl THEN pend.data[l]
                               ELSE mem[pend.addr][l]]]
    BY <1>3 DEF Port!Write, CacheTypeOK
  <2>4. mem' \in [Addr -> Word]
    BY <2>2, <2>3, MixType DEF CacheTypeOK
  <2> QED
    BY <1>3, <2>4 DEF Port!Write, CacheTypeOK
<1>4. CASE w_init_done /\ Port!EndWrite
  BY <1>4 DEF Port!EndWrite, CacheTypeOK
<1>5. CASE w_init_done /\ Port!EndRead
  <2>1. pend \in ReadRequest
    BY <1>5, CacheAssumption DEF Port!EndRead, Request, ReadRequest, WriteRequest
  <2>2. pend.addr \in Addr
    BY <2>1 DEF ReadRequest
  <2> QED
    BY <1>5, <2>2 DEF Port!EndRead, CacheTypeOK
<1>6. CASE w_init_done /\ Port!Quiet
  BY <1>6 DEF Port!Quiet, CacheTypeOK
<1> QED
  BY <1>1, <1>2, <1>3, <1>4, <1>5, <1>6 DEF MemTick, PortTick, Port!Serve

LEMMA CacheTypes ==
  ASSUME CacheTypeOK, CacheInv, NEW rd, NEW wr, NEW a \in CpuAddr,
         NEW mask \in SUBSET Lane, NEW data \in Word,
         CacheTick(rd, wr, a, mask, data), MemTick
  PROVE  CacheTypeOK'
<1>1. CacheFlagsOK'
  BY CacheFlags DEF CacheTypeOK
<1>2. c_we => c_idata \in Word
  <2>1. c_we => c_idata = mem[Cell(r_dram_addr)]
    BY DEF CacheInv, CacheTypeOK, Fetched
  <2> QED
    BY <2>1, CellType DEF CacheTypeOK
<1>3. line' \in [Index -> Line] /\ r_odata' \in Line /\ r_tag' \in Tag
  BY <1>2, BramTypes DEF CacheTick, CacheTypeOK
<1>4. /\ cState' \in {0, 1, 2, 3, 4, 10, 11} /\ c_idata' \in Word \cup {Junk}
      /\ r_dram_addr' \in CpuAddr /\ r_dram_mask' \in SUBSET Lane
      /\ r_dram_idata' \in Word
  <2>1. CASE LookUp(rd, wr, a, mask, data)
    BY <2>1 DEF LookUp, NewRead, NewWrite, NoNew, CacheTypeOK
  <2>2. CASE Miss \/ AskWord \/ AwaitWord \/ FillLine \/ AskWrite \/ AwaitWrite
    BY <2>2 DEF Miss, AskWord, AwaitWord, FillLine, AskWrite, AwaitWrite, CacheTypeOK
  <2> QED
    BY <2>1, <2>2 DEF CacheTick
<1> QED
  BY <1>1, <1>3, <1>4, PortTypes DEF CacheTypeOK

(* What the port may do in one cycle, by what it is busy with.             *)
Mix(w, mask, d) == [l \in Lane |-> IF l \in mask THEN d[l] ELSE w[l]]

LEMMA PortKinds ==
  ASSUME CacheTypeOK, w_init_done, MemTick
  PROVE  /\ w_init_done'
         /\ Port!Accept \/ Port!Write \/ Port!EndWrite \/ Port!EndRead \/ Port!Quiet
<1>1. PortTick
  BY DEF MemTick
<1>2. w_init_done' = w_init_done
  BY <1>1 DEF PortTick
<1> QED
  BY <1>1, <1>2 DEF PortTick, Port!Serve

LEMMA PortFree ==
  ASSUME CacheTypeOK, w_init_done, MemTick, pend = NoReq
  PROVE  /\ mem' = mem /\ odata' = odata
         /\ pend' = NoReq \/ (PortRequest # NoReq /\ pend' = PortRequest)
BY PortKinds, CacheAssumption
   DEF Port!Accept, Port!Write, Port!EndWrite, Port!EndRead, Port!Quiet

LEMMA PortWritten ==
  ASSUME CacheTypeOK, w_init_done, MemTick, pend = Written
  PROVE  /\ mem' = mem /\ odata' = odata
         /\ pend' = Written \/ (PortRequest = NoReq /\ pend' = NoReq)
BY PortKinds, CacheAssumption
   DEF Port!Accept, Port!Write, Port!EndWrite, Port!EndRead, Port!Quiet

LEMMA PortReads ==
  ASSUME CacheTypeOK, w_init_done, MemTick, ReadPending
  PROVE  /\ mem' = mem
         /\ \/ pend' = pend /\ odata' = odata
            \/ /\ PortRequest = NoReq /\ pend' = NoReq
               /\ odata' = mem[Cell(r_dram_addr)]
<1>1. /\ pend # NoReq /\ pend # Written /\ pend.op = "read"
      /\ pend.addr = Cell(r_dram_addr)
  BY ReadType DEF CacheTypeOK, ReadPending
<1> QED
  BY <1>1, PortKinds
     DEF Port!Accept, Port!Write, Port!EndWrite, Port!EndRead, Port!Quiet

LEMMA PortWrites ==
  ASSUME CacheTypeOK, w_init_done, MemTick, WritePending
  PROVE  /\ odata' = odata
         /\ \/ pend' = pend /\ mem' = mem
            \/ /\ pend' = Written
               /\ mem' = [mem EXCEPT ![Cell(r_dram_addr)] =
                            Mix(mem[Cell(r_dram_addr)], r_dram_mask, r_dram_idata)]
<1>1. /\ pend # NoReq /\ pend # Written /\ pend.op = "write"
      /\ pend.addr = Cell(r_dram_addr)
      /\ pend.ctrl = r_dram_mask /\ pend.data = r_dram_idata
  BY WriteType DEF CacheTypeOK, WritePending
<1>2. CASE Port!Write
  BY <1>1, <1>2 DEF Port!Write, Mix, CacheTypeOK
<1>3. CASE ~Port!Write
  BY <1>1, <1>3, PortKinds
     DEF Port!Accept, Port!EndWrite, Port!EndRead, Port!Quiet
<1> QED
  BY <1>2, <1>3

(* The request at the port in the states of the cache.                     *)
LEMMA Requests ==
  ASSUME CacheTypeOK
  PROVE  /\ NoRequest => PortRequest = NoReq
         /\ r_dram_le => PortRequest = ReadOf(r_dram_addr, r_dram_mask)
         /\ ~r_dram_le /\ r_dram_wr =>
              PortRequest = WriteOf(r_dram_addr, r_dram_mask, r_dram_idata)
BY DEF NoRequest, PortRequest

(* The cache states one by one.                                            *)
CacheGood == CacheInv /\ LinesCoherent

LEMMA BramKeeps ==
  ASSUME CacheTypeOK, NEW a \in CpuAddr, Bram(a), ~c_we
  PROVE  /\ line[a[2]] = Invalid \/ c_clr => line'[a[2]] = Invalid
         /\ r_odata' = line'[a[2]] /\ r_tag' = a[1]
BY CellType DEF Bram, CacheTypeOK

LEMMA LookUpStep ==
  ASSUME CacheTypeOK, CacheGood, NEW rd, NEW wr, NEW a \in CpuAddr,
         NEW mask, NEW data,
         LookUp(rd, wr, a, mask, data), Bram(a), MemTick
  PROVE  CacheGood'
<1>1. cState \in {0, 1} /\ NoRequest /\ ~c_we /\ pend = NoReq
  BY DEF LookUp, CacheGood, CacheInv
<1>2. mem' = mem /\ pend' = NoReq
  <2>1. CASE w_init_done
    BY <1>1, <2>1, PortFree, Requests
  <2>2. CASE ~w_init_done
    BY <1>1, <2>2 DEF MemTick, BootTick
  <2> QED
    BY <2>1, <2>2
<1>3. LinesCoherent'
  BY <1>1, <1>2, BramCoherent DEF CacheGood
<1>4. r_odata' = line'[a[2]] /\ r_tag' = a[1]
  BY <1>1, BramKeeps
<1>5. w_init_done => w_init_done'
  BY PortKinds
<1>6. CASE NewRead(rd, a, mask)
  BY <1>1, <1>2, <1>3, <1>4, <1>5, <1>6 DEF NewRead, CacheGood, CacheInv, NoRequest
<1>7. CASE NewWrite(rd, wr, a, mask, data)
  BY <1>1, <1>2, <1>3, <1>5, <1>7 DEF NewWrite, CacheGood, CacheInv, NoRequest
<1>8. CASE NoNew(rd, wr)
  <2>1. cState' = 0
    BY <1>8 DEF NoNew, CacheGood, CacheInv
  <2> QED
    BY <1>1, <1>2, <1>3, <2>1, <1>8 DEF NoNew, CacheGood, CacheInv, NoRequest
<1> QED
  BY <1>6, <1>7, <1>8 DEF LookUp

LEMMA MissStep ==
  ASSUME CacheTypeOK, CacheGood, Miss, NEW a \in CpuAddr, Bram(a), MemTick
  PROVE  CacheGood'
<1>1. cState = 1 /\ NoRequest /\ ~c_we /\ pend = NoReq /\ w_init_done
  BY DEF Miss, CacheGood, CacheInv
<1>2. mem' = mem /\ pend' = NoReq /\ w_init_done'
  BY <1>1, PortFree, Requests, PortKinds
<1>3. LinesCoherent'
  BY <1>1, <1>2, BramCoherent DEF CacheGood
<1> QED
  BY <1>1, <1>2, <1>3 DEF Miss, CacheGood, CacheInv, NoRequest

LEMMA AskWordStep ==
  ASSUME CacheTypeOK, CacheGood, AskWord, Bram(r_dram_addr), MemTick
  PROVE  CacheGood'
<1>1. /\ cState = 2 /\ r_dram_le /\ ~r_dram_wr /\ ~c_we /\ w_init_done
      /\ pend = NoReq \/ ReadPending
  BY DEF AskWord, CacheGood, CacheInv
<1>2. PortRequest = ReadOf(r_dram_addr, r_dram_mask) /\ PortRequest # NoReq
  BY <1>1, Requests, ReadType DEF CacheTypeOK
<1>3. w_init_done' /\ mem' = mem
  BY <1>1, PortKinds, PortFree, PortReads
<1>4. r_dram_addr \in CpuAddr /\ r_dram_addr' = r_dram_addr /\ r_dram_mask' = r_dram_mask
  BY DEF AskWord, CacheTypeOK
<1>5. LinesCoherent'
  BY <1>1, <1>3, <1>4, BramCoherent DEF CacheGood
<1>6. CASE pend = NoReq
  <2>1. pend' = NoReq \/ ReadPending'
    BY <1>1, <1>2, <1>4, <1>6, PortFree DEF ReadPending
  <2> QED
    BY <1>1, <1>3, <1>5, <1>6, <2>1 DEF AskWord, w_dram_busy, CacheGood, CacheInv
<1>7. CASE ReadPending
  <2>1. ReadPending' /\ pend # NoReq
    BY <1>1, <1>2, <1>4, <1>7, PortReads DEF ReadPending
  <2> QED
    BY <1>1, <1>3, <1>5, <2>1 DEF AskWord, w_dram_busy, CacheGood, CacheInv, NoRequest
<1> QED
  BY <1>1, <1>6, <1>7

LEMMA AwaitWordStep ==
  ASSUME CacheTypeOK, CacheGood, AwaitWord, Bram(r_dram_addr), MemTick
  PROVE  CacheGood'
<1>1. /\ cState = 3 /\ NoRequest /\ ~c_we /\ w_init_done
      /\ ReadPending \/ (pend = NoReq /\ Fetched)
  BY DEF AwaitWord, CacheGood, CacheInv
<1>2. PortRequest = NoReq
  BY <1>1, Requests
<1>3. w_init_done' /\ mem' = mem
  BY <1>1, PortKinds, PortFree, PortReads
<1>4. /\ r_dram_addr \in CpuAddr /\ r_dram_addr' = r_dram_addr
      /\ r_dram_mask' = r_dram_mask
      /\ NoRequest'
  BY <1>1 DEF AwaitWord, CacheTypeOK, NoRequest
<1>5. LinesCoherent'
  BY <1>1, <1>3, <1>4, BramCoherent DEF CacheGood
<1>6. CASE ReadPending
  <2>1. pend # NoReq
    BY <1>6, ReadType DEF ReadPending, CacheTypeOK
  <2>2. cState' = 3 /\ c_we' = c_we
    BY <2>1, <1>1 DEF AwaitWord, w_dram_busy
  <2>3. ReadPending' \/ (pend' = NoReq /\ Fetched')
    BY <1>1, <1>3, <1>4, <1>6, PortReads DEF ReadPending, Fetched
  <2> QED
    BY <1>1, <1>3, <1>4, <1>5, <2>2, <2>3 DEF CacheGood, CacheInv
<1>7. CASE pend = NoReq /\ Fetched
  <2>1. pend' = NoReq /\ odata' = odata /\ Fetched'
    BY <1>1, <1>2, <1>3, <1>4, <1>7, PortFree DEF Fetched
  <2>2. cState' = 4 /\ c_we' /\ c_idata' = odata
    BY <1>7 DEF AwaitWord, w_dram_busy
  <2> QED
    BY <1>3, <1>4, <1>5, <2>1, <2>2 DEF CacheGood, CacheInv
<1> QED
  BY <1>1, <1>6, <1>7

LEMMA FillLineStep ==
  ASSUME CacheTypeOK, CacheGood, FillLine, Bram(r_dram_addr), MemTick
  PROVE  CacheGood'
<1>1. /\ cState = 4 /\ NoRequest /\ c_we /\ w_init_done /\ pend = NoReq
      /\ c_idata = mem[Cell(r_dram_addr)]
  BY DEF FillLine, CacheGood, CacheInv, Fetched
<1>2. mem' = mem /\ pend' = NoReq /\ w_init_done'
  BY <1>1, PortFree, Requests, PortKinds
<1>3. LinesCoherent'
  BY <1>1, <1>2, BramCoherent DEF CacheGood, CacheTypeOK
<1> QED
  BY <1>1, <1>2, <1>3 DEF FillLine, CacheGood, CacheInv, NoRequest

(* In states 10 and 11 the line is cleared before the memory changes.      *)
LEMMA WritingCoherent ==
  ASSUME CacheTypeOK, CacheGood, cState \in {10, 11}, Bram(r_dram_addr),
         MemTick
  PROVE  /\ LinesCoherent' /\ w_init_done'
         /\ line'[r_dram_addr[2]] = Invalid
         /\ ~c_we
<1>1. /\ ~c_we /\ w_init_done /\ r_dram_addr \in CpuAddr
      /\ c_clr \/ Cleared
      /\ pend = NoReq \/ (Cleared /\ (WritePending \/ pend = Written))
  BY DEF CacheGood, CacheInv, CacheTypeOK
<1>2. line'[r_dram_addr[2]] = Invalid
  BY <1>1, BramKeeps DEF Cleared
<1>3. LinesCoherent'
  <2>1. CASE mem' = mem
    BY <1>1, <2>1, BramCoherent DEF CacheGood
  <2>2. CASE mem' # mem
    <3>1. WritePending
      BY <1>1, <2>2, PortFree, PortWritten
    <3>2. line[r_dram_addr[2]] = Invalid
      BY <1>1, <3>1, <2>2, PortFree DEF Cleared
    <3> QED
      BY <1>1, <2>2, <3>1, <3>2, PortWrites, WriteCoherent DEF CacheGood
  <2> QED
    BY <2>1, <2>2
<1> QED
  BY <1>1, <1>2, <1>3, PortKinds

LEMMA AskWriteStep ==
  ASSUME CacheTypeOK, CacheGood, AskWrite, Bram(r_dram_addr), MemTick
  PROVE  CacheGood'
<1>1. /\ cState = 10 /\ ~r_dram_le /\ r_dram_wr /\ ~c_we /\ w_init_done
      /\ pend = NoReq \/ (~c_clr /\ (WritePending \/ pend = Written))
  BY DEF AskWrite, CacheGood, CacheInv
<1>2. /\ PortRequest = WriteOf(r_dram_addr, r_dram_mask, r_dram_idata)
      /\ PortRequest # NoReq
  BY <1>1, Requests, WriteType DEF CacheTypeOK
<1>3. /\ r_dram_addr' = r_dram_addr /\ r_dram_mask' = r_dram_mask
      /\ r_dram_idata' = r_dram_idata
      /\ r_dram_le' = r_dram_le /\ c_we' = c_we /\ ~c_clr'
  BY DEF AskWrite
<1>4. LinesCoherent' /\ Cleared' /\ w_init_done'
  BY <1>1, <1>3, WritingCoherent DEF Cleared
<1>5. CASE pend = NoReq
  <2>1. pend' = NoReq \/ WritePending'
    BY <1>1, <1>2, <1>3, <1>5, PortFree DEF WritePending
  <2>2. cState' = 10 /\ r_dram_wr' = r_dram_wr
    BY <1>1, <1>5 DEF AskWrite, w_dram_busy
  <2> QED
    BY <1>1, <1>3, <1>4, <2>1, <2>2 DEF CacheGood, CacheInv
<1>6. CASE pend # NoReq
  <2>1. WritePending' \/ pend' = Written
    BY <1>1, <1>2, <1>3, <1>6, PortWrites, PortWritten DEF WritePending
  <2>2. cState' = 11 /\ r_dram_wr' = FALSE
    BY <1>1, <1>6 DEF AskWrite, w_dram_busy
  <2>3. NoRequest'
    BY <1>1, <1>3, <2>2 DEF NoRequest
  <2> QED
    BY <1>1, <1>3, <1>4, <2>1, <2>2, <2>3 DEF CacheGood, CacheInv
<1> QED
  BY <1>5, <1>6

LEMMA AwaitWriteStep ==
  ASSUME CacheTypeOK, CacheGood, AwaitWrite, Bram(r_dram_addr), MemTick
  PROVE  CacheGood'
<1>1. /\ cState = 11 /\ NoRequest /\ ~c_we /\ ~c_clr /\ w_init_done
      /\ pend = NoReq \/ WritePending \/ pend = Written
  BY DEF AwaitWrite, CacheGood, CacheInv
<1>2. PortRequest = NoReq
  BY <1>1, Requests
<1>3. /\ r_dram_addr' = r_dram_addr /\ r_dram_mask' = r_dram_mask
      /\ r_dram_idata' = r_dram_idata
      /\ NoRequest' /\ c_we' = c_we /\ c_clr' = c_clr
  BY <1>1 DEF AwaitWrite, NoRequest
<1>4. LinesCoherent' /\ Cleared' /\ w_init_done'
  BY <1>1, <1>3, WritingCoherent DEF Cleared
<1>5. CASE pend = NoReq
  <2>1. pend' = NoReq
    BY <1>1, <1>2, <1>5, PortFree
  <2>2. cState' = 0
    BY <1>5 DEF AwaitWrite, w_dram_busy
  <2> QED
    BY <1>1, <1>3, <1>4, <2>1, <2>2 DEF CacheGood, CacheInv
<1>6. CASE pend # NoReq
  <2>1. pend' = NoReq \/ WritePending' \/ pend' = Written
    BY <1>1, <1>3, <1>6, PortWrites, PortWritten DEF WritePending
  <2>2. cState' = 11
    BY <1>1, <1>6 DEF AwaitWrite, w_dram_busy
  <2> QED
    BY <1>1, <1>3, <1>4, <2>1, <2>2 DEF CacheGood, CacheInv
<1> QED
  BY <1>5, <1>6

(* One cycle of the cache and of the memory keeps the cache coherent.      *)
LEMMA CacheStep ==
  ASSUME CacheTypeOK, CacheGood, NEW rd, NEW wr, NEW a \in CpuAddr,
         NEW mask, NEW data, CacheTick(rd, wr, a, mask, data), MemTick
  PROVE  CacheGood'
<1> DEFINE at == IF cState <= 1 THEN a ELSE r_dram_addr
<1>1. Bram(at)
  BY DEF CacheTick
<1>2. cState \in {0, 1} => at = a
  OBVIOUS
<1>3. cState \in {2, 3, 4, 10, 11} => at = r_dram_addr
  OBVIOUS
<1> HIDE DEF at
<1>4. CASE LookUp(rd, wr, a, mask, data)
  <2>1. cState \in {0, 1}
    BY <1>4 DEF LookUp
  <2> QED
    BY <1>1, <1>2, <1>4, <2>1, LookUpStep
<1>5. CASE Miss
  <2>1. cState \in {0, 1}
    BY <1>5 DEF Miss
  <2> QED
    BY <1>1, <1>2, <1>5, <2>1, MissStep
<1>6. CASE AskWord \/ AwaitWord \/ FillLine \/ AskWrite \/ AwaitWrite
  <2>1. cState \in {2, 3, 4, 10, 11}
    BY <1>6 DEF AskWord, AwaitWord, FillLine, AskWrite, AwaitWrite
  <2> QED
    BY <1>1, <1>3, <1>6, <2>1, AskWordStep, AwaitWordStep, FillLineStep,
       AskWriteStep, AwaitWriteStep
<1> QED
  BY <1>4, <1>5, <1>6 DEF CacheTick

(* Where the cache goes from each of its states.                           *)
KeepRequest == UNCHANGED <<r_dram_addr, r_dram_mask, r_dram_idata>>

LEMMA CacheMoves ==
  ASSUME NEW rd, NEW wr, NEW a, NEW mask, NEW data,
         CacheTick(rd, wr, a, mask, data)
  PROVE  /\ cState = 0 \/ (cState = 1 /\ Hit) =>
              /\ ~w_init_done => cState' = cState /\ KeepRequest
              /\ w_init_done /\ rd => cState' = 1 /\ r_dram_addr' = a
              /\ w_init_done /\ ~rd /\ ~wr => cState' = 0 /\ KeepRequest
         /\ cState = 1 /\ ~Hit => cState' = 2 /\ KeepRequest
         /\ cState = 2  => cState' \in {2, 3} /\ KeepRequest
         /\ cState = 3  => cState' \in {3, 4} /\ KeepRequest
         /\ cState = 4  => cState' = 0 /\ KeepRequest
         /\ cState = 10 => cState' \in {10, 11} /\ KeepRequest
         /\ cState = 11 => cState' \in {11, 0} /\ KeepRequest
BY DEF CacheTick, LookUp, NewRead, NewWrite, NoNew, Miss, AskWord, AwaitWord,
       FillLine, AskWrite, AwaitWrite, KeepRequest

(***************************************************************************)
(* The bus slave.                                                          *)
(***************************************************************************)
LEMMA XferType ==
  ASSUME NEW t \in Xfer
  PROVE  /\ t # NoXfer /\ t.addr \in CpuAddr /\ t.hart \in Hart
         /\ IsRead(t) \/ IsWrite(t)
         /\ ~(IsRead(t) /\ IsWrite(t))
         /\ IsWrite(t) => t.mask \in SUBSET Lane /\ t.data \in Word
BY XferAssumption DEF ReadXfer, WriteXfer, IsRead, IsWrite

LEMMA NoXferKind == ~IsRead(NoXfer) /\ ~IsWrite(NoXfer)
BY DEF IsRead, IsWrite

(* The inputs of the cache.                                                *)
LEMMA InputTypes ==
  ASSUME TypeOK, NEW t \in Xfer \cup {NoXfer}
  PROVE  /\ w_addr(t) \in CpuAddr /\ wmask(t) \in SUBSET Lane
         /\ w_cache_mask(t) \in SUBSET Lane /\ hwdata \in Word
<1>1. wmask(t) \in SUBSET Lane
  BY XferType, NoXferKind DEF wmask
<1>2. w_addr(t) \in CpuAddr
  BY XferType DEF w_addr, TypeOK, CacheTypeOK
<1>3. w_cache_mask(t) \in SUBSET Lane
  BY <1>1 DEF w_cache_mask, TypeOK
<1>4. hwdata \in Word
  BY XferType, NoXferKind DEF hwdata, TypeOK
<1> QED
  BY <1>1, <1>2, <1>3, <1>4

LEMMA AhbFlags ==
  ASSUME AhbFlagsOK, NEW t, Tick(t)
  PROVE  AhbFlagsOK'
<1>1. early' \in BOOLEAN
  BY Zenon DEF AhbFlagsOK, Tick
<1>2. CASE Ready(t)
  BY <1>1, <1>2, Zenon DEF AhbFlagsOK, Ready, CheckNewReq, TakeRead, TakeWrite,
     TakeExclusiveWrite, RefuseExclusiveWrite, TakeNothing, StartWrite
<1>3. CASE AwaitWritten
  BY <1>1, <1>3, Zenon DEF AhbFlagsOK, AwaitWritten
<1>4. CASE TakeData
  BY <1>1, <1>4, Zenon DEF AhbFlagsOK, TakeData
<1>5. CASE HoldCommand
  BY <1>1, <1>5, Zenon DEF AhbFlagsOK, HoldCommand
<1>6. CASE Refuse
  BY <1>1, <1>6, Zenon DEF AhbFlagsOK, Refuse
<1> QED
  BY <1>2, <1>3, <1>4, <1>5, <1>6 DEF Tick

(* The registers of the monitor.                                           *)
MonitorTypeOK ==
  /\ r_excl_addr \in [Hart -> CpuAddr]
  /\ r_excl_addr_valid \in [Hart -> BOOLEAN]

LEMMA KeptMonitor ==
  ASSUME MonitorTypeOK, KeepReserved
  PROVE  MonitorTypeOK'
BY DEF MonitorTypeOK, KeepReserved

LEMMA ReadyMonitor ==
  ASSUME MonitorTypeOK, NEW t \in Xfer \cup {NoXfer}, CheckNewReq(t)
  PROVE  MonitorTypeOK'
<1>1. CASE TakeRead(t)
  <2>1. t.addr \in CpuAddr
    BY <1>1, XferType DEF TakeRead, IsRead
  <2>2. CASE t.excl
    BY <1>1, <2>1, <2>2 DEF TakeRead, Reserve, MonitorTypeOK
  <2>3. CASE ~t.excl
    BY <1>1, <2>3, KeptMonitor DEF TakeRead
  <2> QED
    BY <2>2, <2>3
<1>2. CASE TakeExclusiveWrite(t)
  BY <1>2 DEF TakeExclusiveWrite, ClearReserved, MonitorTypeOK
<1>3. CASE TakeWrite(t) \/ RefuseExclusiveWrite(t) \/ TakeNothing(t)
  BY <1>3, KeptMonitor DEF TakeWrite, RefuseExclusiveWrite, TakeNothing
<1> QED
  BY <1>1, <1>2, <1>3 DEF CheckNewReq

LEMMA OverwrittenType ==
  ASSUME NEW t \in Xfer \cup {NoXfer},
         overwritten \in [Hart -> SUBSET {"plain", "exclusive"}]
  PROVE  Overwritten(t) \in [Hart -> SUBSET {"plain", "exclusive"}]
<1>1. Kind(t) \in {"plain", "exclusive"}
  BY DEF Kind
<1> QED
  BY <1>1 DEF Overwritten

LEMMA AhbRegisters ==
  ASSUME TypeOK, NEW t \in Xfer \cup {NoXfer}, Tick(t)
  PROVE  /\ aState' \in {0, 20, 21, 22, 30, 31}
         /\ r_ahbls_haddr' \in CpuAddr /\ r_mask' \in SUBSET Lane
         /\ r_ahbls_hwdata' \in Word
         /\ MonitorTypeOK'
<1>1. MonitorTypeOK
  BY DEF TypeOK, MonitorTypeOK
<1>2. CASE Ready(t)
  <2>1. MonitorTypeOK'
    BY <1>1, <1>2, ReadyMonitor DEF Ready
  <2>2. IsWrite(t) => t.addr \in CpuAddr
    BY XferType, NoXferKind
  <2>3. CASE TakeRead(t)
    BY <2>1, <2>3, InputTypes DEF TakeRead, TypeOK
  <2>4. CASE TakeWrite(t) \/ TakeExclusiveWrite(t)
    BY <2>1, <2>2, <2>4, InputTypes DEF TakeWrite, TakeExclusiveWrite, StartWrite
  <2>5. CASE RefuseExclusiveWrite(t) \/ TakeNothing(t)
    BY <2>1, <2>5 DEF RefuseExclusiveWrite, TakeNothing, TypeOK
  <2> QED
    BY <1>2, <2>3, <2>4, <2>5 DEF Ready, CheckNewReq
<1>3. CASE AwaitWritten \/ HoldCommand \/ Refuse
  BY <1>1, <1>3, KeptMonitor DEF AwaitWritten, HoldCommand, Refuse, TypeOK
<1>4. CASE TakeData
  BY <1>1, <1>4, KeptMonitor, InputTypes DEF TakeData, TypeOK
<1> QED
  BY <1>2, <1>3, <1>4 DEF Tick

LEMMA TickTypes ==
  ASSUME TypeOK, CacheInv, NEW t \in Xfer \cup {NoXfer}, Tick(t)
  PROVE  TypeOK'
<1>1. CacheTypeOK'
  <2>1. r_ahbls_hwdata \in Word /\ CacheTypeOK
    BY DEF TypeOK
  <2> QED
    BY <2>1, InputTypes, CacheTypes DEF Tick
<1>2. AhbFlagsOK'
  BY AhbFlags DEF TypeOK
<1>3. xfer' \in Xfer \cup {NoXfer}
  BY DEF Tick, TypeOK
<1>4. overwritten' \in [Hart -> SUBSET {"plain", "exclusive"}]
  BY OverwrittenType DEF Tick, TypeOK
<1> QED
  BY <1>1, <1>2, <1>3, <1>4, AhbRegisters DEF TypeOK, MonitorTypeOK

(***************************************************************************)
(* The initial state.                                                      *)
(***************************************************************************)
LEMMA InitTypes == Init => TypeOK
<1> SUFFICES ASSUME Init PROVE TypeOK
  OBVIOUS
<1>1. r_dram_addr \in CpuAddr
  <2>1. PICK g \in Tag, i \in Index : TRUE
    BY CacheAssumption
  <2>2. <<g, i>> \in CpuAddr
    BY DEF CpuAddr
  <2> QED
    BY <2>2 DEF Init, CacheInit
<1>2. r_dram_idata \in Word
  <2>1. PICK v \in Val : TRUE
    BY CacheAssumption
  <2>2. [l \in Lane |-> v] \in Word
    BY DEF Word
  <2> QED
    BY <2>2 DEF Init, CacheInit
<1>3. r_tag \in Tag
  BY <1>1 DEF Init, CacheInit, CpuAddr
<1>4. CacheFlagsOK
  <2>1. /\ c_clr \in BOOLEAN /\ c_we = FALSE /\ r_dram_le = FALSE
        /\ r_dram_wr = FALSE /\ w_init_done = FALSE
    BY DEF Init, CacheInit
  <2> QED
    BY <2>1, Zenon DEF CacheFlagsOK
<1>5. AhbFlagsOK
  BY Zenon DEF Init, AhbFlagsOK
<1>6. CacheTypeOK
  BY <1>1, <1>2, <1>3, <1>4 DEF Init, CacheInit, CacheTypeOK, Line
<1>7. /\ r_excl_addr \in [Hart -> CpuAddr]
      /\ r_excl_addr_valid \in [Hart -> BOOLEAN]
      /\ overwritten \in [Hart -> SUBSET {"plain", "exclusive"}]
  BY <1>1 DEF Init
<1> QED
  BY <1>1, <1>2, <1>5, <1>6, <1>7 DEF Init, TypeOK

LEMMA InitInv == Init => BusInv
<1> SUFFICES ASSUME Init PROVE BusInv
  OBVIOUS
<1>1. CacheInv /\ LinesCoherent
  BY DEF Init, CacheInit, CacheInv, LinesCoherent, NoRequest
<1>2. PhaseInv /\ TransferInv
  BY DEF Init, CacheInit, PhaseInv, TransferInv, IsRead, IsWrite
<1>3. ReservationInv
  BY DEF Init, ReservationInv
<1> QED
  BY <1>1, <1>2, <1>3 DEF BusInv

(***************************************************************************)
(* The slave and the cache stay in step.                                   *)
(***************************************************************************)
(* When hready is high, the cache takes the next transfer.                 *)
LEMMA ReadyMeans ==
  ASSUME TypeOK, BusInv, hready
  PROVE  /\ aState \in {0, 21, 31} /\ (cState = 0 \/ (cState = 1 /\ Hit))
         /\ aState # 0 => cState = 0
         /\ ~a_dram_wr
         /\ ~w_init_done => xfer = NoXfer
BY DEF hready, hready_resp, o_busy, TypeOK, CacheTypeOK, BusInv, PhaseInv

LEMMA BusyMeans ==
  ASSUME TypeOK, BusInv, ~hready
  PROVE  /\ xfer \in Xfer
         /\ aState \in {0, 21} => o_busy
         /\ aState # 31
         /\ ~w_init_done => IsRead(xfer) /\ aState = 0 /\ cState = 0 /\ early
         /\ w_init_done /\ aState = 0 => cState \in {1, 2, 3, 4} /\ ~early
         /\ w_init_done /\ aState = 0 /\ cState = 1 => ~Hit
         /\ w_init_done /\ aState = 21 => cState \in {10, 11}
BY XferType DEF hready, hready_resp, o_busy, TypeOK, CacheTypeOK, BusInv, PhaseInv

LEMMA ReadyTick ==
  ASSUME TypeOK, BusInv, NEW t, Tick(t), hready
  PROVE  CheckNewReq(t) /\ xfer' = t
BY ReadyMeans DEF Tick, Ready, AwaitWritten, TakeData, HoldCommand, Refuse,
   hready, hready_resp, BusInv, PhaseInv

(* The next transfer, if there is one.                                     *)
LEMMA NextTransfer ==
  ASSUME TypeOK, BusInv, NEW t \in Xfer \cup {NoXfer}, Tick(t), hready
  PROVE  PhaseInv' /\ TransferInv'
<1>1. /\ aState \in {0, 21, 31} /\ (cState = 0 \/ (cState = 1 /\ Hit))
      /\ ~a_dram_wr /\ (~w_init_done => cState = 0 /\ xfer = NoXfer)
  BY ReadyMeans DEF BusInv, CacheInv
<1>2. CheckNewReq(t) /\ xfer' = t
  BY ReadyTick
<1>7. early' <=> t # NoXfer /\ ~w_init_done
  <2>1. early' = (t # NoXfer /\ ~w_init_done)
    BY DEF Tick
  <2> QED
    BY <2>1, Zenon
<1>3. w_init_done => w_init_done'
  BY PortKinds DEF Tick, TypeOK
<1>4. CASE IsRead(t)
  <2>1. t \in Xfer /\ ~IsWrite(t)
    BY <1>4, XferType, NoXferKind
  <2>2. aState' = 0 /\ r_ahbls_hexokay' /\ ~a_dram_wr'
    BY <1>1, <1>2, <1>4, <2>1 DEF CheckNewReq, TakeRead, TakeWrite,
       TakeExclusiveWrite, RefuseExclusiveWrite, TakeNothing, IsRead, IsWrite
  <2>3. w_addr(t) = t.addr
    BY <1>1, <2>1, XferType DEF w_addr
  <2>4. w_init_done => cState' = 1 /\ r_dram_addr' = t.addr
    BY <1>1, <1>4, <2>3, CacheMoves DEF Tick
  <2>5. ~w_init_done => cState' = 0
    BY <1>1, CacheMoves DEF Tick
  <2> QED
    BY <1>1, <1>2, <1>7, <1>3, <1>4, <2>1, <2>2, <2>4, <2>5
    DEF PhaseInv, TransferInv, IsRead, IsWrite
<1>5. CASE IsWrite(t)
  <2>1. t \in Xfer /\ ~IsRead(t)
    BY <1>5, XferType, NoXferKind
  <2>2. w_init_done
    BY <2>1, XferType DEF Tick
  <2>3. cState' = 0
    BY <1>1, <2>1, <2>2, CacheMoves DEF Tick
  <2>4. \/ /\ aState' = 22 /\ ~a_dram_wr'
           /\ r_ahbls_haddr' = t.addr /\ r_mask' = t.mask
        \/ aState' = 30 /\ ~a_dram_wr'
    BY <1>1, <1>2, <1>5, <2>1 DEF CheckNewReq, TakeRead, TakeWrite, StartWrite,
       TakeExclusiveWrite, RefuseExclusiveWrite, TakeNothing, wmask, IsRead, IsWrite
  <2> QED
    BY <1>1, <1>2, <1>7, <1>3, <1>5, <2>1, <2>2, <2>3, <2>4
    DEF PhaseInv, TransferInv, IsRead, IsWrite
<1>6. CASE t = NoXfer
  <2>1. ~IsRead(t) /\ ~IsWrite(t)
    BY <1>6, NoXferKind
  <2>2. aState' = 0 /\ r_ahbls_hexokay' /\ ~a_dram_wr'
    BY <1>1, <1>2, <2>1 DEF CheckNewReq, TakeRead, TakeWrite,
       TakeExclusiveWrite, RefuseExclusiveWrite, TakeNothing
  <2>3. cState' = 0
    BY <1>1, <2>1, CacheMoves DEF Tick
  <2> QED
    BY <1>1, <1>2, <1>7, <1>6, <2>1, <2>2, <2>3 DEF PhaseInv, TransferInv, IsRead, IsWrite
<1> QED
  BY <1>4, <1>5, <1>6, XferType

(* A transfer that waits.                                                  *)
LEMMA TransferWaits ==
  ASSUME TypeOK, BusInv, NEW t \in Xfer \cup {NoXfer}, Tick(t), ~hready
  PROVE  /\ t = NoXfer /\ ~IsRead(t) /\ xfer' = xfer /\ early' = early
         /\ w_init_done => w_init_done'
         /\ IsRead(xfer)' = IsRead(xfer) /\ IsWrite(xfer)' = IsWrite(xfer)
BY NoXferKind, PortKinds DEF Tick, TypeOK, IsRead, IsWrite

LEMMA ReadWaits ==
  ASSUME TypeOK, BusInv, NEW t \in Xfer \cup {NoXfer}, Tick(t), ~hready,
         aState = 0
  PROVE  PhaseInv' /\ TransferInv'
<1>1. /\ t = NoXfer /\ ~IsRead(t) /\ xfer' = xfer /\ early' = early
      /\ w_init_done => w_init_done'
  BY TransferWaits
<1>2. xfer \in Xfer /\ IsRead(xfer) /\ ~IsWrite(xfer) /\ xfer # NoXfer
  BY BusyMeans, XferType DEF BusInv, PhaseInv
<1>3. ~a_dram_wr
  BY DEF BusInv, PhaseInv
<1>4. aState' = 0 /\ r_ahbls_hexokay' /\ ~a_dram_wr'
  BY <1>1, <1>3, NoXferKind DEF Tick, Ready, CheckNewReq, TakeRead, TakeWrite,
     TakeExclusiveWrite, RefuseExclusiveWrite, TakeNothing, AwaitWritten,
     TakeData, HoldCommand, Refuse
<1>5. CASE ~w_init_done
  <2>1. cState = 0 /\ cState' = 0 /\ early
    BY <1>5, BusyMeans, CacheMoves DEF Tick
  <2> QED
    BY <1>1, <1>2, <1>4, <2>1
    DEF PhaseInv, TransferInv, IsRead, IsWrite
<1>6. CASE w_init_done
  <2>1. /\ cState \in {1, 2, 3, 4} /\ ~early /\ (cState = 1 => ~Hit)
        /\ r_dram_addr = xfer.addr
    BY <1>2, <1>6, BusyMeans DEF BusInv, TransferInv
  <2>2. cState' \in {0, 2, 3, 4} /\ r_dram_addr' = r_dram_addr
    BY <2>1, CacheMoves DEF Tick, KeepRequest
  <2>3. CASE cState' = 0
    <3>1. cState = 4
      BY <2>1, <2>3, CacheMoves DEF Tick
    <3>2. pend = NoReq /\ odata = mem[Cell(xfer.addr)]
      BY <2>1, <3>1 DEF BusInv, CacheInv, Fetched
    <3>3. odata' = mem'[Cell(xfer.addr)]
      BY <1>6, <3>2, PortFree DEF Tick, TypeOK
    <3> QED
      BY <1>1, <1>2, <1>4, <1>6, <2>1, <2>3, <3>3 DEF PhaseInv, TransferInv, IsRead, IsWrite
  <2>4. CASE cState' # 0
    BY <1>1, <1>2, <1>4, <1>6, <2>1, <2>2, <2>4 DEF PhaseInv, TransferInv, IsRead, IsWrite
  <2> QED
    BY <2>3, <2>4
<1> QED
  BY <1>5, <1>6

LEMMA WriteWaits ==
  ASSUME TypeOK, BusInv, NEW t \in Xfer \cup {NoXfer}, Tick(t), ~hready,
         aState # 0
  PROVE  PhaseInv' /\ TransferInv'
<1>1. /\ t = NoXfer /\ ~IsRead(t) /\ xfer' = xfer /\ early' = early
      /\ w_init_done => w_init_done'
  BY TransferWaits
<1>2. /\ xfer \in Xfer /\ IsWrite(xfer) /\ ~IsRead(xfer) /\ xfer # NoXfer
      /\ w_init_done /\ ~early
  BY BusyMeans, XferType DEF BusInv, PhaseInv
<1>3. aState \in {20, 21, 22, 30}
  BY BusyMeans DEF TypeOK
<1>4. CASE aState = 20
  <2>1. /\ a_dram_wr /\ (cState = 0 \/ (cState = 10 /\ c_clr))
        /\ r_ahbls_haddr = xfer.addr /\ r_mask = xfer.mask
        /\ r_ahbls_hwdata = xfer.data
    BY <1>4 DEF BusInv, PhaseInv, TransferInv
  <2>2. /\ HoldCommand
        /\ r_ahbls_haddr' = r_ahbls_haddr /\ r_mask' = r_mask
        /\ r_ahbls_hwdata' = r_ahbls_hwdata /\ r_ahbls_hexokay'
    BY <1>4 DEF Tick, Ready, AwaitWritten, TakeData, HoldCommand, Refuse
  <2>3. CASE cState = 0
    <3>1. /\ w_addr(t) = xfer.addr /\ w_cache_mask(t) = xfer.mask
      BY <1>4, <2>1 DEF w_addr, w_cache_mask
    <3>2. /\ cState' = 10 /\ c_clr'
          /\ r_dram_addr' = xfer.addr /\ r_dram_mask' = xfer.mask
          /\ r_dram_idata' = xfer.data
      <4>1. CacheTick(IsRead(t), a_dram_wr, w_addr(t), w_cache_mask(t),
                      r_ahbls_hwdata)
        BY DEF Tick
      <4>2. ~IsRead(t) /\ a_dram_wr /\ w_init_done /\ cState = 0
        BY <1>1, <1>2, <2>1, <2>3
      <4>3. /\ cState' = 10 /\ c_clr'
            /\ r_dram_addr' = w_addr(t) /\ r_dram_mask' = w_cache_mask(t)
            /\ r_dram_idata' = r_ahbls_hwdata
        <5>1. CASE LookUp(IsRead(t), a_dram_wr, w_addr(t), w_cache_mask(t), r_ahbls_hwdata)
          BY <4>2, <5>1 DEF NewRead, NoNew, LookUp, NewWrite
        <5>2. CASE Miss \/ AskWord \/ AwaitWord \/ FillLine \/ AskWrite \/ AwaitWrite
          BY <4>2, <5>2 DEF Miss, AskWord, AwaitWord, FillLine, AskWrite, AwaitWrite
        <5> QED
          BY <4>1, <5>1, <5>2 DEF CacheTick
      <4> QED
        BY <2>1, <3>1, <4>3
    <3>3. aState' = 20 /\ a_dram_wr'
      BY <1>2, <1>4, <2>1, <2>2, <2>3 DEF HoldCommand, o_busy
    <3> QED
      BY <1>1, <1>2, <2>1, <2>2, <3>2, <3>3 DEF PhaseInv, TransferInv, IsRead, IsWrite
  <2>4. CASE cState = 10
    <3>1. aState' = 21 /\ ~a_dram_wr'
      BY <2>2, <2>4 DEF HoldCommand, o_busy
    <3>2. cState' \in {10, 11} /\ KeepRequest
      BY <2>4, CacheMoves DEF Tick
    <3>3. /\ r_dram_addr = xfer.addr /\ r_dram_mask = xfer.mask
          /\ r_dram_idata = xfer.data
      BY <2>4 DEF BusInv, TransferInv
    <3> QED
      BY <1>1, <1>2, <2>2, <3>1, <3>2, <3>3 DEF KeepRequest, PhaseInv, TransferInv, IsRead, IsWrite
  <2> QED
    BY <2>1, <2>3, <2>4
<1>5. CASE aState = 21
  <2>1. cState \in {10, 11} /\ o_busy /\ ~a_dram_wr
    BY <1>2, <1>5, BusyMeans DEF BusInv, PhaseInv
  <2>2. aState' = 21 /\ ~a_dram_wr' /\ r_ahbls_hexokay'
    BY <1>5, <2>1 DEF Tick, Ready, AwaitWritten, TakeData, HoldCommand, Refuse
  <2>3. cState' \in {10, 11, 0} /\ KeepRequest
    BY <2>1, CacheMoves DEF Tick
  <2>4. /\ r_dram_addr = xfer.addr /\ r_dram_mask = xfer.mask
        /\ r_dram_idata = xfer.data
    BY <1>5 DEF BusInv, TransferInv
  <2> QED
    BY <1>1, <1>2, <2>2, <2>3, <2>4 DEF KeepRequest, PhaseInv, TransferInv, IsRead, IsWrite
<1>6. CASE aState = 22
  <2>1. /\ cState = 0 /\ ~a_dram_wr
        /\ r_ahbls_haddr = xfer.addr /\ r_mask = xfer.mask
    BY <1>6 DEF BusInv, PhaseInv, TransferInv
  <2>2. /\ aState' = 20 /\ a_dram_wr' /\ r_ahbls_hwdata' = xfer.data
        /\ r_ahbls_haddr' = r_ahbls_haddr /\ r_mask' = r_mask
    BY <1>2, <1>6 DEF Tick, Ready, AwaitWritten, TakeData, HoldCommand, Refuse, hwdata
  <2>3. cState' = 0
    BY <1>1, <1>2, <2>1, CacheMoves DEF Tick
  <2> QED
    BY <1>1, <1>2, <2>1, <2>2, <2>3 DEF PhaseInv, TransferInv, IsRead, IsWrite
<1>7. CASE aState = 30
  <2>1. cState = 0 /\ ~a_dram_wr
    BY <1>7 DEF BusInv, PhaseInv
  <2>2. aState' = 31 /\ ~a_dram_wr' /\ ~r_ahbls_hexokay'
    BY <1>7, <2>1 DEF Tick, Ready, AwaitWritten, TakeData, HoldCommand, Refuse
  <2>3. cState' = 0
    BY <1>1, <1>2, <2>1, CacheMoves DEF Tick
  <2> QED
    BY <1>1, <1>2, <2>2, <2>3 DEF PhaseInv, TransferInv, IsRead, IsWrite
<1> QED
  BY <1>3, <1>4, <1>5, <1>6, <1>7

(***************************************************************************)
(* The reservations.                                                       *)
(***************************************************************************)
LEMMA MonitorStep ==
  ASSUME TypeOK, BusInv, NEW t \in Xfer \cup {NoXfer}, Tick(t)
  PROVE  ReservationInv'
<1> SUFFICES ASSUME NEW h \in Hart, r_excl_addr_valid'[h]
             PROVE  "exclusive" \notin overwritten'[h]
  BY DEF ReservationInv
<1>1. /\ overwritten' = Overwritten(t)
      /\ r_excl_addr_valid[h] => "exclusive" \notin overwritten[h]
  BY DEF Tick, BusInv, ReservationInv
<1>2. ~hready => t = NoXfer
  BY DEF Tick
<1>3. CASE IsRead(t) /\ t.excl
  <2>1. TakeRead(t)
    BY <1>2, <1>3, ReadyTick, XferType, NoXferKind
       DEF CheckNewReq, TakeWrite, TakeExclusiveWrite, RefuseExclusiveWrite,
           TakeNothing
  <2>2. t.hart \in Hart
    BY <1>3, XferType, NoXferKind
  <2>3. CASE h = t.hart
    BY <1>1, <1>3, <2>2, <2>3 DEF Overwritten, TypeOK
  <2>4. CASE h # t.hart
    <3>1. r_excl_addr_valid'[h] = r_excl_addr_valid[h]
      BY <1>3, <2>1, <2>2, <2>4 DEF TakeRead, Reserve, TypeOK
    <3> QED
      BY <1>1, <1>3, <2>2, <2>4, <3>1 DEF Overwritten, TypeOK
  <2> QED
    BY <2>3, <2>4
<1>4. CASE IsWrite(t) /\ t.excl /\ Reserved(t)
  <2>1. TakeExclusiveWrite(t)
    BY <1>2, <1>4, ReadyTick, XferType, NoXferKind
       DEF CheckNewReq, TakeRead, TakeWrite, RefuseExclusiveWrite, TakeNothing
  <2>2. r_excl_addr_valid[h] /\ r_excl_addr[h] # t.addr
    BY <2>1 DEF TakeExclusiveWrite, ClearReserved
  <2>3. ~IsRead(t)
    BY <1>4, XferType, NoXferKind
  <2> QED
    BY <1>1, <1>4, <2>2, <2>3 DEF Overwritten
<1>5. CASE ~(IsRead(t) /\ t.excl) /\ ~(IsWrite(t) /\ t.excl /\ Reserved(t))
  <2>1. KeepReserved
    BY <1>5 DEF Tick, Ready, CheckNewReq, TakeRead, TakeWrite, TakeExclusiveWrite,
           RefuseExclusiveWrite, TakeNothing, AwaitWritten, TakeData,
           HoldCommand, Refuse
  <2>2. r_excl_addr_valid[h]
    BY <2>1 DEF KeepReserved
  <2>3. CASE IsWrite(t) /\ ~t.excl
    <3>1. ~IsRead(t) /\ Kind(t) = "plain"
      BY <2>3, XferType, NoXferKind DEF Kind
    <3>2. overwritten'[h] \subseteq overwritten[h] \cup {"plain"}
      BY <1>1, <2>3, <3>1 DEF Overwritten
    <3> QED
      BY <1>1, <2>2, <3>2
  <2>4. CASE ~(IsWrite(t) /\ ~t.excl)
    BY <1>1, <1>5, <2>2, <2>4 DEF Overwritten
  <2> QED
    BY <2>3, <2>4
<1> QED
  BY <1>3, <1>4, <1>5

(***************************************************************************)
(* The theorems.                                                           *)
(***************************************************************************)
LEMMA TickInv ==
  ASSUME TypeOK, BusInv, NEW t \in Xfer \cup {NoXfer}, Tick(t)
  PROVE  TypeOK' /\ BusInv'
<1>1. TypeOK'
  BY TickTypes DEF BusInv
<1>2. CacheInv' /\ LinesCoherent'
  <2>1. CacheTypeOK /\ CacheGood
    BY DEF TypeOK, BusInv, CacheGood
  <2> QED
    BY <2>1, CacheStep, InputTypes DEF Tick, CacheGood
<1>3. PhaseInv' /\ TransferInv'
  BY NextTransfer, ReadWaits, WriteWaits
<1> QED
  BY <1>1, <1>2, <1>3, MonitorStep DEF BusInv

LEMMA StutterInv ==
  ASSUME TypeOK, BusInv, UNCHANGED vars
  PROVE  TypeOK' /\ BusInv'
<1>1. UNCHANGED <<cState, c_clr, c_we, c_idata, r_dram_addr, r_dram_mask,
                  r_dram_idata, r_dram_le, r_dram_wr, line, r_odata, r_tag,
                  pend, mem, odata, w_init_done, xfer, early,
                  aState, r_ahbls_haddr, r_mask, r_ahbls_hwdata, a_dram_wr,
                  r_ahbls_hexokay, r_excl_addr, r_excl_addr_valid, overwritten>>
  BY DEF vars, cacheVars, portVars, ahbVars
<1>2. TypeOK'
  BY <1>1 DEF TypeOK, CacheTypeOK, CacheFlagsOK, AhbFlagsOK
<1>3. CacheInv' /\ LinesCoherent'
  BY <1>1 DEF BusInv, CacheInv, LinesCoherent, NoRequest, Cleared, Fetched,
     ReadPending, WritePending
<1>4. PhaseInv' /\ TransferInv' /\ ReservationInv'
  BY <1>1 DEF BusInv, PhaseInv, TransferInv, ReservationInv, IsRead, IsWrite
<1> QED
  BY <1>2, <1>3, <1>4 DEF BusInv

LEMMA Invariant == Spec => [](TypeOK /\ BusInv)
<1>1. Init => TypeOK /\ BusInv
  BY InitTypes, InitInv
<1>2. TypeOK /\ BusInv /\ [Next]_vars => (TypeOK /\ BusInv)'
  <2> SUFFICES ASSUME TypeOK, BusInv, [Next]_vars PROVE TypeOK' /\ BusInv'
    OBVIOUS
  <2>1. CASE Next
    BY <2>1, TickInv DEF Next
  <2>2. CASE UNCHANGED vars
    BY <2>2, StutterInv
  <2> QED
    BY <2>1, <2>2
<1> QED
  BY <1>1, <1>2, PTL DEF Spec

(* Every register of the slave, the cache and the port holds a value of    *)
(* its type.                                                               *)
THEOREM TypeCorrect == Spec => []TypeOK
BY Invariant, PTL

(* cache_laurwt.v: no valid line differs from the memory, whatever the     *)
(* transfers of the harts and however long the port takes.                 *)
THEOREM NeverStale == Spec => []LinesCoherent
<1>1. BusInv => LinesCoherent
  BY DEF BusInv
<1> QED
  BY <1>1, Invariant, PTL

(* ahb_laur_mem.v:207: no address phase in the first cycle of a write's    *)
(* data phase.                                                             *)
THEOREM WritePhaseAlone == Spec => []NoPhaseInWrite
<1>1. TypeOK /\ BusInv => NoPhaseInWrite
  BY DEF BusInv, PhaseInv, NoPhaseInWrite, hready, hready_resp
<1> QED
  BY <1>1, Invariant, PTL

(* A word that is read is the word of the memory, on a hit as on a miss.   *)
LEMMA HitCoherent ==
  ASSUME TypeOK, BusInv, IsRead(xfer), hready_resp, ~early
  PROVE  o_data = mem[Cell(xfer.addr)]
<1>1. aState = 0 /\ ~o_busy /\ w_init_done
  BY DEF BusInv, PhaseInv, hready_resp, o_busy
<1>2. CASE cState = 0
  BY <1>1, <1>2 DEF BusInv, TransferInv, o_data
<1>3. CASE cState # 0
  <2>1. cState = 1 /\ Hit /\ r_dram_addr = xfer.addr
    BY <1>1, <1>3 DEF BusInv, TransferInv, o_busy, TypeOK, CacheTypeOK
  <2>2. /\ r_odata = line[r_dram_addr[2]] /\ r_odata # Invalid
        /\ r_odata[1] = r_dram_addr[1]
    BY <2>1 DEF BusInv, CacheInv, Hit
  <2>3. r_dram_addr \in CpuAddr
    BY DEF TypeOK, CacheTypeOK
  <2>4. r_odata[2] = mem[Cell(r_dram_addr)]
    BY <2>2, <2>3, CellType, CellOf DEF BusInv, LinesCoherent
  <2> QED
    BY <2>1, <2>4 DEF o_data
<1> QED
  BY <1>2, <1>3

(* ahb_laur_mem.v: a read taken since the memory was filled is answered    *)
(* with the word of the memory, on a hit, after a fill and from an alias.  *)
THEOREM ReadsCoherent == Spec => []ReadCoherent
<1>1. TypeOK /\ BusInv => ReadCoherent
  BY HitCoherent DEF ReadCoherent
<1> QED
  BY <1>1, Invariant, PTL

(* ahb_laur_mem.v:129-139: an exclusive write is performed only if no      *)
(* exclusive write of another hart came between it and its exclusive read. *)
THEOREM ExclusiveWriters == Spec => OneExclusiveWriter
<1>1. TypeOK /\ BusInv /\ [Next]_vars =>
        [Performed(xfer') => "exclusive" \notin overwritten[xfer'.hart]]_vars
  <2> SUFFICES ASSUME TypeOK, BusInv, Next, Performed(xfer')
               PROVE  "exclusive" \notin overwritten[xfer'.hart]
    OBVIOUS
  <2>1. PICK t \in Xfer \cup {NoXfer} : Tick(t)
    BY DEF Next
  <2>2. CheckNewReq(t) /\ aState' = 22
    BY <2>1 DEF Performed, Tick, Ready, AwaitWritten, TakeData, HoldCommand, Refuse
  <2>3. TakeWrite(t) \/ TakeExclusiveWrite(t)
    BY <2>2 DEF CheckNewReq, TakeRead, RefuseExclusiveWrite, TakeNothing
  <2>4. t \in Xfer /\ xfer' = t
    BY <2>1, <2>3 DEF Tick, TakeWrite, TakeExclusiveWrite, IsWrite
  <2>5. Reserved(t) /\ t.hart \in Hart
    BY <2>3, <2>4, XferType DEF Performed, TakeWrite, TakeExclusiveWrite
  <2> QED
    BY <2>4, <2>5 DEF Reserved, BusInv, ReservationInv
<1> QED
  BY <1>1, Invariant, PTL DEF Spec, OneExclusiveWriter

(***************************************************************************)
(* The requester's side of the memory port.                                *)
(***************************************************************************)
LEMMA RequestType ==
  ASSUME CacheTypeOK
  PROVE  /\ PortRequest \in Request \cup {NoReq}
         /\ r_dram_le \/ r_dram_wr => PortRequest \in Request /\ PortRequest # NoReq
BY ReadType, WriteType DEF CacheTypeOK, PortRequest

(* A request is raised at a free port, held up to its acceptance, lowered. *)
LEMMA RequesterStep ==
  ASSUME CacheTypeOK, CacheTypeOK', CacheInv, NEW rd, NEW wr, NEW a, NEW mask,
         NEW data, CacheTick(rd, wr, a, mask, data)
  PROVE  Port!Requester
<1>1. /\ NoRequest => PortRequest = NoReq
      /\ r_dram_le \/ r_dram_wr => PortRequest # NoReq
  BY Requests, RequestType
<1>2. /\ NoRequest' => PortRequest' = NoReq
      /\ (r_dram_le \/ r_dram_wr)' => PortRequest' \in Request
  <2>1. r_dram_le' \/ r_dram_wr' => PortRequest' \in Request
    BY ReadType, WriteType DEF CacheTypeOK, PortRequest
  <2> QED
    BY <2>1 DEF NoRequest, PortRequest
<1>3. CASE cState \in {0, 1} /\ (LookUp(rd, wr, a, mask, data) \/ Miss)
  <2>1. NoRequest /\ pend = NoReq /\ PortRequest = NoReq
    BY <1>1, <1>3 DEF CacheInv
  <2>2. CASE r_dram_le' \/ r_dram_wr'
    BY <1>2, <2>1, <2>2 DEF Port!Requester, Port!Raise
  <2>3. CASE ~r_dram_le' /\ ~r_dram_wr'
    BY <1>2, <2>1, <2>3 DEF NoRequest, Port!Requester, Port!Hold
  <2> QED
    BY <2>2, <2>3
<1>4. CASE AskWord \/ AskWrite
  <2>1. (r_dram_le \/ r_dram_wr) /\ PortRequest # NoReq
    BY <1>1, <1>4 DEF AskWord, AskWrite, CacheInv
  <2>2. CASE pend # NoReq
    <3>1. NoRequest'
      BY <1>4, <2>2 DEF AskWord, AskWrite, CacheInv, NoRequest, w_dram_busy
    <3> QED
      BY <1>2, <2>1, <2>2, <3>1 DEF Port!Requester, Port!Lower
  <2>3. CASE pend = NoReq
    <3>1. UNCHANGED <<r_dram_addr, r_dram_mask, r_dram_idata, r_dram_le, r_dram_wr>>
      BY <1>4, <2>3 DEF AskWord, AskWrite, w_dram_busy
    <3> QED
      BY <3>1 DEF Port!Requester, Port!Hold, PortRequest, ReadOf, WriteOf
  <2> QED
    BY <2>2, <2>3
<1>5. CASE AwaitWord \/ FillLine \/ AwaitWrite
  <2>1. UNCHANGED <<r_dram_addr, r_dram_mask, r_dram_idata, r_dram_le, r_dram_wr>>
    BY <1>5 DEF AwaitWord, FillLine, AwaitWrite
  <2> QED
    BY <2>1 DEF Port!Requester, Port!Hold, PortRequest, ReadOf, WriteOf
<1> QED
  BY <1>3, <1>4, <1>5 DEF CacheTick, LookUp, Miss

(* cache_laurwt.v: the cache keeps the rules of the memory port, with any  *)
(* transfers on the bus.                                                   *)
THEOREM PortRulesKept == Spec => PortRules
<1>1. TypeOK /\ BusInv /\ (TypeOK /\ BusInv)' /\ [Next]_vars =>
        [w_init_done => Port!Requester]_vars
  <2> SUFFICES ASSUME TypeOK, TypeOK', BusInv, Next PROVE Port!Requester
    OBVIOUS
  <2>1. PICK t \in Xfer \cup {NoXfer} : Tick(t)
    BY DEF Next
  <2> QED
    BY <2>1, RequesterStep DEF Tick, TypeOK, BusInv
<1> QED
  BY <1>1, Invariant, PTL DEF Spec, PortRules

(***************************************************************************)
(* The slave, its cache and the port implement BusMemory.                  *)
(***************************************************************************)
(* The memory changes only when the port does a pending write.             *)
LEMMA MemKept ==
  ASSUME TypeOK, BusInv, MemTick, ~(w_init_done /\ WritePending)
  PROVE  mem' = mem
<1>1. CASE ~w_init_done
  BY <1>1 DEF MemTick, BootTick
<1>2. CASE w_init_done
  <2>1. pend = NoReq \/ ReadPending \/ pend = Written
    BY <1>2 DEF BusInv, CacheInv, TypeOK, CacheTypeOK
  <2> QED
    BY <1>2, <2>1, PortFree, PortReads, PortWritten DEF TypeOK
<1> QED
  BY <1>1, <1>2

Held == {<<h, r_excl_addr[h]>> : h \in {g \in Hart : r_excl_addr_valid[g]}}

LEMMA HeldMeans ==
  ASSUME NEW h \in Hart, NEW a
  PROVE  <<h, a>> \in Held <=> r_excl_addr_valid[h] /\ r_excl_addr[h] = a
BY DEF Held

(* A state of the slave answers as BusMemory demands.                      *)
LEMMA AnsweredHolds ==
  ASSUME TypeOK, BusInv
  PROVE  Bus!Answered
<1> USE DEF BusInv
<1>1. CASE ~hready_resp
  BY <1>1 DEF Bus!Answered
<1>2. CASE hready_resp /\ aState = 31
  <2>1. fate = "refused" /\ ~r_ahbls_hexokay
    BY <1>2 DEF fate, PhaseInv
  <2> QED
    BY <2>1 DEF Bus!Answered
<1>3. CASE hready_resp /\ aState = 21
  <2>1. cState = 0 /\ r_ahbls_hexokay
    BY <1>3 DEF hready_resp, o_busy, PhaseInv
  <2>2. fate \notin {"read", "pending", "refused"}
    <3>1. xfer \in Xfer
      BY <1>3 DEF TypeOK, PhaseInv
    <3>2. IsWrite(xfer) /\ xfer.op # "read"
      BY <1>3, <3>1, XferType DEF PhaseInv, IsRead
    <3> QED
      BY <1>3, <2>1, <3>2 DEF fate, Stored
  <2> QED
    BY <2>1, <2>2 DEF Bus!Answered
<1>4. CASE hready_resp /\ aState = 0
  <2>1. r_ahbls_hexokay
    BY <1>4 DEF PhaseInv
  <2>2. CASE xfer = NoXfer \/ early
    <3>1. fate \notin {"read", "pending", "stored", "refused"}
      BY <1>4, <2>2 DEF fate
    <3> QED
      BY <3>1 DEF Bus!Answered
  <2>3. CASE xfer # NoXfer /\ ~early
    <3>1. IsRead(xfer)
      BY <1>4, <2>3, XferType DEF PhaseInv, TypeOK
    <3>2. fate = "read"
      BY <1>4, <2>3, <3>1 DEF fate, IsRead
    <3>3. o_data = mem[Cell(xfer.addr)]
      BY <1>4, <2>3, <3>1, HitCoherent
    <3> QED
      BY <2>1, <3>2, <3>3 DEF Bus!Answered
  <2> QED
    BY <2>2, <2>3
<1> QED
  BY <1>1, <1>2, <1>3, <1>4 DEF hready_resp

(* An address phase: the next transfer is taken.                           *)
LEMMA HeldStep ==
  ASSUME TypeOK, NEW t \in Xfer \cup {NoXfer}, CheckNewReq(t)
  PROVE  Held' = (IF IsRead(t) /\ t.excl
                  THEN {r \in Held : r[1] # t.hart} \cup {<<t.hart, t.addr>>}
                  ELSE IF IsWrite(t) /\ t.excl /\ Reserved(t)
                  THEN {r \in Held : r[2] # t.addr}
                  ELSE Held)
<1>1. CASE IsRead(t) /\ t.excl
  <2>1. Reserve(t) /\ t.hart \in Hart
    BY <1>1, XferType, NoXferKind DEF CheckNewReq, TakeRead, TakeWrite, TakeExclusiveWrite,
       RefuseExclusiveWrite, TakeNothing
  <2>2. \A h \in Hart :
          /\ r_excl_addr_valid'[h] <=> r_excl_addr_valid[h] \/ h = t.hart
          /\ r_excl_addr'[h] = IF h = t.hart THEN t.addr ELSE r_excl_addr[h]
    BY <2>1 DEF Reserve, TypeOK
  <2>3. Held' = {r \in Held : r[1] # t.hart} \cup {<<t.hart, t.addr>>}
    BY <2>1, <2>2 DEF Held
  <2> QED
    BY <1>1, <2>3
<1>2. CASE IsWrite(t) /\ t.excl /\ Reserved(t)
  <2>1. ClearReserved(t)
    BY <1>2, XferType, NoXferKind DEF CheckNewReq, TakeRead, TakeWrite, TakeExclusiveWrite,
       RefuseExclusiveWrite, TakeNothing
  <2>2. \A h \in Hart :
          /\ r_excl_addr_valid'[h] <=> r_excl_addr_valid[h] /\ r_excl_addr[h] # t.addr
          /\ r_excl_addr'[h] = r_excl_addr[h]
    BY <2>1 DEF ClearReserved, TypeOK
  <2>3. Held' = {r \in Held : r[2] # t.addr}
    BY <2>2 DEF Held
  <2>4. ~IsRead(t)
    BY <1>2, XferType, NoXferKind
  <2> QED
    BY <1>2, <2>3, <2>4
<1>3. CASE ~(IsRead(t) /\ t.excl) /\ ~(IsWrite(t) /\ t.excl /\ Reserved(t))
  <2>1. KeepReserved
    BY <1>3 DEF CheckNewReq, TakeRead, TakeWrite, TakeExclusiveWrite,
           RefuseExclusiveWrite, TakeNothing
  <2>2. Held' = Held
    BY <2>1 DEF KeepReserved, Held
  <2> QED
    BY <1>3, <2>2
<1> QED
  BY <1>1, <1>2, <1>3

LEMMA TakeMaps ==
  ASSUME TypeOK, BusInv, NEW t \in Xfer \cup {NoXfer}, Tick(t), hready
  PROVE  Bus!Take
<1>1. /\ aState \in {0, 21, 31} /\ (cState = 0 \/ (cState = 1 /\ Hit))
      /\ ~a_dram_wr
  BY ReadyMeans
<1>2. CheckNewReq(t) /\ xfer' = t
  BY ReadyTick
<1>3. mem' = mem
  <2>1. pend = NoReq
    BY <1>1 DEF BusInv, CacheInv
  <2> QED
    BY <2>1, MemKept, WriteType DEF Tick, WritePending, TypeOK, CacheTypeOK
<1>4. Held' = Bus!ReservedAfter(t)
  <2>1. CASE t = NoXfer
    BY <1>2, <2>1, HeldStep, NoXferKind DEF Bus!ReservedAfter, Held
  <2>2. CASE t \in Xfer
    <3>1. Bus!HoldsReservation(t) <=> Reserved(t)
      BY <2>2, XferType, HeldMeans DEF Bus!HoldsReservation, Reserved, Held
    <3> QED
      BY <1>2, <2>2, <3>1, HeldStep, XferType
         DEF Bus!ReservedAfter, IsRead, IsWrite, Held
  <2> QED
    BY <2>1, <2>2
<1>5. fate' = Bus!FateOf(t)
  <2>1. early' <=> t # NoXfer /\ ~w_init_done
    <3>1. early' = (t # NoXfer /\ ~w_init_done)
      BY DEF Tick
    <3> QED
      BY <3>1, Zenon
  <2>2. CASE t = NoXfer
    BY <1>2, <2>2 DEF fate, Bus!FateOf
  <2>3. CASE IsRead(t)
    <3>1. t \in Xfer /\ t # NoXfer /\ ~IsWrite(t) /\ t.op = "read"
      BY <2>3, XferType, NoXferKind DEF IsRead
    <3>2. aState' = 0
      BY <1>2, <2>3, <3>1 DEF CheckNewReq, TakeRead, TakeWrite,
         TakeExclusiveWrite, RefuseExclusiveWrite, TakeNothing, IsRead
    <3> QED
      BY <1>2, <2>1, <3>1, <3>2 DEF fate, Bus!FateOf
  <2>4. CASE IsWrite(t)
    <3>1. /\ t \in Xfer /\ t # NoXfer /\ ~IsRead(t) /\ t.op = "write"
          /\ t.hart \in Hart /\ w_init_done
      BY <2>4, XferType, NoXferKind DEF IsWrite, Tick
    <3>2. Bus!HoldsReservation(t) <=> Reserved(t)
      BY <3>1, HeldMeans DEF Bus!HoldsReservation, Reserved, Held
    <3>3. \/ aState' = 22 /\ (t.excl => Reserved(t))
          \/ aState' = 30 /\ t.excl /\ ~Reserved(t)
      BY <1>2, <2>4, <3>1 DEF CheckNewReq, TakeRead, TakeWrite, StartWrite,
         TakeExclusiveWrite, RefuseExclusiveWrite, TakeNothing
    <3>4. cState' = 0
      BY <1>1, <3>1, CacheMoves DEF Tick
    <3> QED
      BY <1>2, <2>1, <3>1, <3>2, <3>3, <3>4 DEF fate, Stored, Bus!FateOf
  <2> QED
    BY <2>2, <2>3, <2>4, XferType
<1>6. xfer = NoXfer \/ hready_resp
  BY DEF hready
<1> QED
  BY <1>2, <1>3, <1>4, <1>5, <1>6 DEF Bus!Take, Held

(* A transfer that waits keeps the reservations.                           *)
LEMMA WaitKeeps ==
  ASSUME TypeOK, BusInv, NEW t \in Xfer \cup {NoXfer}, Tick(t), ~hready
  PROVE  /\ t = NoXfer /\ xfer' = xfer /\ early' = early /\ xfer \in Xfer
         /\ Held' = Held
<1>1. t = NoXfer /\ xfer' = xfer /\ early' = early /\ xfer \in Xfer
  BY TransferWaits, BusyMeans
<1>2. KeepReserved
  BY <1>1, NoXferKind DEF Tick, Ready, CheckNewReq, TakeRead, TakeWrite,
     TakeExclusiveWrite, RefuseExclusiveWrite, TakeNothing, AwaitWritten,
     TakeData, HoldCommand, Refuse
<1>3. Held' = Held
  BY <1>2 DEF KeepReserved, Held
<1> QED
  BY <1>1, <1>3

(* A read waits, or a write that is not at the port.                       *)
LEMMA WaitMaps ==
  ASSUME TypeOK, BusInv, NEW t \in Xfer \cup {NoXfer}, Tick(t), ~hready,
         aState # 21
  PROVE  Bus!Wait
<1>1. /\ t = NoXfer /\ xfer' = xfer /\ early' = early /\ xfer \in Xfer
      /\ Held' = Held
  BY WaitKeeps
<1>2. mem' = mem
  <2>1. ~(w_init_done /\ WritePending)
    <3>1. cState \notin {10, 11} \/ (cState = 10 /\ c_clr)
      BY DEF BusInv, PhaseInv, TypeOK
    <3>2. pend = NoReq \/ ReadPending
      BY <3>1 DEF BusInv, CacheInv, TypeOK, CacheTypeOK
    <3> QED
      BY <3>2, ReadType, WriteType DEF ReadPending, WritePending, TypeOK, CacheTypeOK
  <2> QED
    BY <2>1, MemKept DEF Tick
<1>3. fate' = fate
  <2>1. CASE aState = 0
    <3>1. aState' = 0 /\ IsRead(xfer)
      BY <1>1, <2>1, XferType, NoXferKind DEF BusInv, PhaseInv, Tick, Ready,
         CheckNewReq, TakeRead, TakeWrite, TakeExclusiveWrite,
         RefuseExclusiveWrite, TakeNothing, AwaitWritten, TakeData,
         HoldCommand, Refuse
    <3> QED
      BY <1>1, <2>1, <3>1 DEF fate, IsRead
  <2>2. CASE aState \in {30, 31}
    <3>1. aState' \in {30, 31}
      BY <2>2, BusyMeans DEF Tick, Ready, AwaitWritten, TakeData, HoldCommand, Refuse
    <3> QED
      BY <1>1, <2>2, <3>1, XferType DEF fate
  <2>3. CASE aState \in {20, 22}
    <3>1. /\ xfer.op # "read" /\ xfer # NoXfer /\ ~early /\ w_init_done
          /\ cState = 0 \/ (aState = 20 /\ cState = 10 /\ c_clr)
      BY <1>1, <2>3, XferType DEF BusInv, PhaseInv, IsRead
    <3>2. pend = NoReq /\ pend' # Written
      <4>1. pend = NoReq
        BY <3>1 DEF BusInv, CacheInv
      <4> QED
        BY <3>1, <4>1, PortFree, RequestType, CacheAssumption DEF Tick, TypeOK
    <3>3. ~Stored
      BY <2>3, <3>1, <3>2, CacheAssumption DEF Stored
    <3>4. ~Stored'
      <4>1. CASE cState = 0
        <5>1. cState' \in {0, 10}
          BY <3>1, <4>1 DEF Tick, CacheTick, LookUp, NewRead, NewWrite, NoNew, Miss, AskWord,
             AwaitWord, FillLine, AskWrite, AwaitWrite, IsRead
        <5>2. aState' \in {20, 22}
          BY <2>3, <3>1, <4>1 DEF Tick, Ready, AwaitWritten, TakeData,
             HoldCommand, Refuse, o_busy
        <5> QED
          BY <3>2, <5>1, <5>2 DEF Stored
      <4>2. CASE aState = 20 /\ cState = 10
        <5>1. cState' = 10
          BY <3>2, <4>2 DEF Tick, CacheTick, LookUp, Miss, AskWord, AwaitWord,
             FillLine, AskWrite, AwaitWrite, w_dram_busy
        <5> QED
          BY <3>2, <5>1 DEF Stored
      <4> QED
        BY <3>1, <4>1, <4>2
    <3>5. aState' \notin {30, 31}
      BY <2>3 DEF Tick, Ready, AwaitWritten, TakeData, HoldCommand, Refuse
    <3> QED
      BY <1>1, <2>3, <3>1, <3>3, <3>4, <3>5 DEF fate
  <2> QED
    BY <2>1, <2>2, <2>3 DEF TypeOK
<1> QED
  BY <1>1, <1>2, <1>3 DEF Bus!Wait, Held

(* A write at the port reaches the memory in one step.                     *)
LEMMA StoreMaps ==
  ASSUME TypeOK, BusInv, NEW t \in Xfer \cup {NoXfer}, Tick(t), ~hready,
         aState = 21
  PROVE  Bus!Store \/ Bus!Wait
<1>1. /\ t = NoXfer /\ xfer' = xfer /\ early' = early /\ xfer \in Xfer
      /\ Held' = Held
  BY WaitKeeps
<1>2. /\ w_init_done /\ cState \in {10, 11} /\ o_busy /\ ~early
      /\ xfer.op # "read" /\ xfer # NoXfer
      /\ r_dram_addr = xfer.addr /\ r_dram_mask = xfer.mask
      /\ r_dram_idata = xfer.data
  BY <1>1, BusyMeans, XferType DEF BusInv, PhaseInv, TransferInv, IsRead
<1>3. aState' = 21
  BY <1>2 DEF Tick, Ready, AwaitWritten, TakeData, HoldCommand, Refuse
<1>4. /\ fate = IF Stored THEN "stored" ELSE "pending"
      /\ fate' = IF Stored' THEN "stored" ELSE "pending"
  BY <1>1, <1>2, <1>3 DEF fate
<1>5. CacheTick(IsRead(t), a_dram_wr, w_addr(t), w_cache_mask(t), r_ahbls_hwdata)
      /\ MemTick
  BY DEF Tick
<1>6. /\ cState = 10 => cState' = IF pend # NoReq THEN 11 ELSE 10
      /\ cState = 11 => cState' = IF pend # NoReq THEN 11 ELSE 0
  BY <1>5, <1>2 DEF CacheTick, LookUp, Miss, AskWord, AwaitWord, FillLine,
     AskWrite, AwaitWrite, w_dram_busy
<1>7. CacheTypeOK
  BY DEF TypeOK
<1>8. WritePending => pend \notin {NoReq, Written}
  BY <1>7, WriteType DEF WritePending, CacheTypeOK
<1>9. /\ cState = 10 => PortRequest # NoReq
      /\ cState = 11 => PortRequest = NoReq
      /\ PortRequest # Written
  BY <1>7, Requests, RequestType, CacheAssumption DEF BusInv, CacheInv
<1>10. CASE pend = NoReq
  <2>1. mem' = mem /\ pend' # Written
    BY <1>2, <1>5, <1>7, <1>9, <1>10, PortFree, CacheAssumption
  <2>2. Stored <=> cState = 11
    BY <1>2, <1>10, CacheAssumption DEF Stored
  <2>3. Stored' <=> cState = 11
    BY <1>2, <1>3, <1>6, <1>10, <2>1 DEF Stored
  <2> QED
    BY <1>1, <1>4, <2>1, <2>2, <2>3 DEF Bus!Wait, Held
<1>11. CASE pend = Written
  <2>1. mem' = mem /\ (pend' = Written \/ (cState = 11 /\ pend' = NoReq))
    BY <1>2, <1>5, <1>7, <1>9, <1>11, PortWritten
  <2>2. Stored
    BY <1>2, <1>11 DEF Stored
  <2>3. Stored'
    BY <1>2, <1>3, <1>6, <1>11, <2>1, CacheAssumption DEF Stored
  <2> QED
    BY <1>1, <1>4, <2>1, <2>2, <2>3 DEF Bus!Wait, Held
<1>12. CASE WritePending
  <2>1. ~Stored
    BY <1>2, <1>8, <1>12 DEF Stored
  <2>2. cState' = 11
    BY <1>2, <1>6, <1>8, <1>12
  <2>3. CASE pend' = pend /\ mem' = mem
    <3>1. ~Stored'
      BY <1>3, <1>8, <1>12, <2>2, <2>3 DEF Stored
    <3> QED
      BY <1>1, <1>4, <2>1, <2>3, <3>1 DEF Bus!Wait, Held
  <2>4. CASE /\ pend' = Written
             /\ mem' = [mem EXCEPT ![Cell(r_dram_addr)] =
                          Mix(mem[Cell(r_dram_addr)], r_dram_mask, r_dram_idata)]
    <3>1. Stored'
      BY <2>2, <2>4 DEF Stored
    <3>2. Cell(xfer.addr) \in DOMAIN mem
      BY <1>1, <1>7, XferType, CellType DEF CacheTypeOK
    <3>3. mem' = [mem EXCEPT ![Cell(xfer.addr)] =
               [l \in Lane |-> IF l \in xfer.mask THEN xfer.data[l] ELSE @[l]]]
      BY <1>2, <2>4, <3>2 DEF Mix
    <3> QED
      BY <1>1, <1>4, <2>1, <3>1, <3>3 DEF Bus!Store, Held
  <2> QED
    BY <1>2, <1>5, <1>7, <1>12, <2>3, <2>4, PortWrites
<1> QED
  BY <1>2, <1>10, <1>11, <1>12 DEF BusInv, CacheInv

LEMMA TickMaps ==
  ASSUME TypeOK, BusInv, TypeOK', BusInv', NEW t \in Xfer \cup {NoXfer}, Tick(t)
  PROVE  Bus!Next
<1>1. Bus!Take \/ Bus!Store \/ Bus!Wait
  BY TakeMaps, WaitMaps, StoreMaps
<1>2. Bus!Answered'
  <2>1. TypeOK /\ BusInv => Bus!Answered
    BY AnsweredHolds
  <2>2. (TypeOK /\ BusInv => Bus!Answered)'
    BY AnsweredHolds, PTL
  <2> QED
    BY <2>2
<1>3. w_init_done => w_init_done'
  BY PortKinds DEF Tick, TypeOK
<1> QED
  BY <1>1, <1>2, <1>3 DEF Bus!Next

(* ahb_laur_mem.v, cache_laurwt.v: the harts see one memory whose words    *)
(* are read and written one transfer at a time, in the order of the bus,   *)
(* with exact reservations: every behaviour of the slave, its cache and    *)
(* the port is one of BusMemory.                                           *)
THEOREM BusSpecHolds == Spec => BusSpec
<1>1. Init => Bus!Init
  BY DEF Init, CacheInit, Bus!Init, fate
<1>2. TypeOK /\ BusInv /\ (TypeOK /\ BusInv)' /\ [Next]_vars => [Bus!Next]_(Bus!vars)
  <2> SUFFICES ASSUME TypeOK, BusInv, TypeOK', BusInv', [Next]_vars
               PROVE  Bus!Next \/ UNCHANGED Bus!vars
    OBVIOUS
  <2>1. CASE Next
    BY <2>1, TickMaps DEF Next
  <2>2. CASE UNCHANGED vars
    BY <2>2 DEF vars, cacheVars, portVars, ahbVars, Bus!vars, fate, Stored,
       hready_resp, o_busy, o_data, Hit
  <2> QED
    BY <2>1, <2>2
<1> QED
  BY <1>1, <1>2, Invariant, PTL DEF Spec, BusSpec, Bus!Spec
=============================================================================
