----------------------------- MODULE CacheCtrl -----------------------------
(***************************************************************************)
(* mem/cache_laurwt.v: the write-through cache in front of the memory      *)
(* port, direct mapped, one word a line.  A read looks its line up in one  *)
(* cycle and goes to the port on a miss; a write goes to the port only and *)
(* clears the line of its index, whatever the tag of that line.            *)
(*                                                                         *)
(* A processor address is a <<tag, index>> pair.  Tags that differ only in *)
(* address bits the memory does not have name the same cells (maintn.v and *)
(* sdram.v drop the high bits): Frame maps a tag to its cells.  The port   *)
(* is module MemPort, which DramConRV implements.                          *)
(***************************************************************************)
EXTENDS Naturals

CONSTANTS
  Tag, Index,   (* a processor address                                     *)
  Cells, Frame, (* rows of cells of the memory, and the one a tag names    *)
  Lane, Val,    (* byte lanes and the values of a byte                     *)
  NoReq, Written, Junk, Invalid

CpuAddr == Tag \X Index
Addr    == Cells \X Index
Word    == [Lane -> Val]
Cell(a) == <<Frame[a[1]], a[2]>>

ReadRequest  == [op : {"read"}, addr : Addr, ctrl : SUBSET Lane]
WriteRequest == [op : {"write"}, addr : Addr, ctrl : SUBSET Lane, data : Word]
Request      == ReadRequest \cup WriteRequest

ASSUME CacheAssumption ==
  /\ Tag # {} /\ Index # {} /\ Val # {}
  /\ Frame \in [Tag -> Cells]
  /\ NoReq \notin Request /\ Written \notin Request /\ NoReq # Written
  /\ Junk \notin Word
  /\ Invalid \notin Tag \X Word

VARIABLES
  cState,        (* state: 0, 1 look-up, 2 to 4 miss, 10 and 11 write      *)
  c_clr, c_we, c_idata,
  r_dram_addr, r_dram_mask, r_dram_idata,
  r_dram_le, r_dram_wr,
  line,          (* m_bram: a <<tag, word>> pair or Invalid, by index    *)
  r_odata,       (* what m_bram read in the last cycle                     *)
  r_tag,         (* the tag that was looked up in the last cycle           *)
  w_init_done,   (* maintn.v has filled the memory                         *)
  pend, mem, odata   (* the memory port                                    *)

cacheVars == <<cState, c_clr, c_we, c_idata, r_dram_addr, r_dram_mask,
               r_dram_idata, r_dram_le, r_dram_wr, line, r_odata, r_tag>>
portVars  == <<pend, mem, odata>>

Line == (Tag \X Word) \cup {Invalid}

CacheFlagsOK ==
  /\ c_clr \in BOOLEAN /\ c_we \in BOOLEAN
  /\ r_dram_le \in BOOLEAN /\ r_dram_wr \in BOOLEAN /\ w_init_done \in BOOLEAN

CacheTypeOK ==
  /\ CacheFlagsOK
  /\ cState \in {0, 1, 2, 3, 4, 10, 11}
  /\ c_idata \in Word \cup {Junk}
  /\ r_dram_addr \in CpuAddr /\ r_dram_mask \in SUBSET Lane /\ r_dram_idata \in Word
  /\ line \in [Index -> Line] /\ r_odata \in Line /\ r_tag \in Tag
  /\ pend \in Request \cup {NoReq, Written}
  /\ mem \in [Addr -> Word]
  /\ odata \in Word \cup {Junk}

(* c_clr has no reset value.  Address and data are reset to 0, for which   *)
(* one of each is chosen.                                                  *)
CacheInit ==
  /\ cState = 0 /\ c_clr \in BOOLEAN /\ c_we = FALSE /\ c_idata = Junk
  /\ r_dram_addr = (CHOOSE a \in CpuAddr : TRUE)
  /\ r_dram_mask = {}
  /\ r_dram_idata = (CHOOSE d \in Word : TRUE)
  /\ r_dram_le = FALSE /\ r_dram_wr = FALSE
  /\ line = [i \in Index |-> Invalid] /\ r_odata = Invalid
  /\ r_tag = r_dram_addr[1]
  /\ w_init_done = FALSE
  /\ pend = NoReq /\ mem \in [Addr -> Word] /\ odata = Junk

(* The request at the port's inputs.                                       *)
ReadOf(a, mask) == [op |-> "read", addr |-> Cell(a), ctrl |-> mask]
WriteOf(a, mask, d) ==
  [op |-> "write", addr |-> Cell(a), ctrl |-> mask, data |-> d]
PortRequest ==
  IF r_dram_le THEN ReadOf(r_dram_addr, r_dram_mask)
  ELSE IF r_dram_wr THEN WriteOf(r_dram_addr, r_dram_mask, r_dram_idata)
  ELSE NoReq

Port == INSTANCE MemPort WITH rq <- PortRequest

w_dram_busy == pend # NoReq

(* c_oe, c_odata, o_busy and o_data.                                       *)
Hit_any_tag == r_odata # Invalid    \* mutant: the tag is not compared
Hit    == r_odata # Invalid /\ r_odata[1] = r_tag
o_busy == cState \notin {0, 1} \/ (cState = 1 /\ ~Hit) \/ ~w_init_done
o_data == IF cState = 1 /\ Hit THEN r_odata[2] ELSE odata

(* One edge of m_dram_cache at address a: clear or fill the line, and read *)
(* it; what is written is also what is read.                               *)
Bram(a) ==
  LET new == IF c_we THEN <<a[1], c_idata>>
             ELSE IF c_clr THEN Invalid ELSE line[a[2]]
  IN  /\ line' = [line EXCEPT ![a[2]] = new]
      /\ r_odata' = new
      /\ r_tag' = a[1]

(* check_new_req.                                                          *)
NewRead(rd, a, mask) ==
  /\ w_init_done /\ rd
  /\ cState' = 1
  /\ r_dram_addr' = a /\ r_dram_mask' = mask
  /\ UNCHANGED <<c_clr, c_we, c_idata, r_dram_idata, r_dram_le, r_dram_wr>>

NewWrite_noclear(rd, wr, a, mask, data) ==   \* mutant: the line is left alone
  /\ w_init_done /\ ~rd /\ wr
  /\ cState' = 10 /\ r_dram_wr' = TRUE
  /\ r_dram_addr' = a /\ r_dram_mask' = mask /\ r_dram_idata' = data
  /\ UNCHANGED <<c_clr, c_we, c_idata, r_dram_le>>
NewWrite(rd, wr, a, mask, data) ==
  /\ w_init_done /\ ~rd /\ wr
  /\ cState' = 10
  /\ c_clr' = TRUE
  /\ r_dram_wr' = TRUE
  /\ r_dram_addr' = a /\ r_dram_mask' = mask /\ r_dram_idata' = data
  /\ UNCHANGED <<c_we, c_idata, r_dram_le>>

NoNew(rd, wr) ==
  /\ w_init_done => ~rd /\ ~wr
  /\ cState' = IF w_init_done THEN 0 ELSE cState
  /\ UNCHANGED <<c_clr, c_we, c_idata, r_dram_addr, r_dram_mask, r_dram_idata,
                 r_dram_le, r_dram_wr>>

(* States 0 and 1: a new request; in state 1 only if the last one hit.     *)
LookUp(rd, wr, a, mask, data) ==
  /\ cState = 0 \/ (cState = 1 /\ Hit)
  /\ \/ NewRead(rd, a, mask)
     \/ NewWrite(rd, wr, a, mask, data)
     \/ NoNew(rd, wr)

Miss ==
  /\ cState = 1 /\ ~Hit
  /\ cState' = 2 /\ r_dram_le' = TRUE
  /\ UNCHANGED <<c_clr, c_we, c_idata, r_dram_addr, r_dram_mask, r_dram_idata,
                 r_dram_wr>>

(* States 2, 3 and 4: the word is fetched and then written to the line.    *)
AskWord_drops ==     \* mutant: the command is lowered after one cycle
  /\ cState = 2
  /\ cState' = 3 /\ r_dram_le' = FALSE
  /\ UNCHANGED <<c_clr, c_we, c_idata, r_dram_addr, r_dram_mask, r_dram_idata,
                 r_dram_wr>>
AskWord ==
  /\ cState = 2
  /\ IF w_dram_busy THEN cState' = 3 /\ r_dram_le' = FALSE
                    ELSE UNCHANGED <<cState, r_dram_le>>
  /\ UNCHANGED <<c_clr, c_we, c_idata, r_dram_addr, r_dram_mask, r_dram_idata,
                 r_dram_wr>>

AwaitWord ==
  /\ cState = 3
  /\ IF w_dram_busy THEN UNCHANGED <<cState, c_we, c_idata>>
     ELSE cState' = 4 /\ c_we' = TRUE /\ c_idata' = odata
  /\ UNCHANGED <<c_clr, r_dram_addr, r_dram_mask, r_dram_idata, r_dram_le,
                 r_dram_wr>>

FillLine ==
  /\ cState = 4
  /\ cState' = 0 /\ c_we' = FALSE
  /\ UNCHANGED <<c_clr, c_idata, r_dram_addr, r_dram_mask, r_dram_idata,
                 r_dram_le, r_dram_wr>>

(* States 10 and 11: the write goes to the memory.                         *)
AskWrite_keeps ==     \* mutant: the command is not lowered
  /\ cState = 10
  /\ c_clr' = FALSE
  /\ cState' = IF w_dram_busy THEN 11 ELSE 10
  /\ UNCHANGED <<c_we, c_idata, r_dram_addr, r_dram_mask, r_dram_idata,
                 r_dram_le, r_dram_wr>>
AskWrite ==
  /\ cState = 10
  /\ c_clr' = FALSE
  /\ IF w_dram_busy THEN cState' = 11 /\ r_dram_wr' = FALSE
                    ELSE UNCHANGED <<cState, r_dram_wr>>
  /\ UNCHANGED <<c_we, c_idata, r_dram_addr, r_dram_mask, r_dram_idata,
                 r_dram_le>>

AwaitWrite ==
  /\ cState = 11
  /\ cState' = IF w_dram_busy THEN 11 ELSE 0
  /\ UNCHANGED <<c_clr, c_we, c_idata, r_dram_addr, r_dram_mask, r_dram_idata,
                 r_dram_le, r_dram_wr>>

(* One clock edge of the cache with the given inputs.                      *)
CacheTick(rd, wr, a, mask, data) ==
  /\ \/ LookUp(rd, wr, a, mask, data)
     \/ Miss \/ AskWord \/ AwaitWord \/ FillLine
     \/ AskWrite \/ AwaitWrite
  /\ Bram(IF cState <= 1 THEN a ELSE r_dram_addr)

(* The rest of the memory: the port takes a step or none, and the boot     *)
(* copier may finish; before that the port serves the copier, and whatever *)
(* word it read last stays on odata.                                       *)
PortTick == (Port!Serve \/ Port!Quiet) /\ UNCHANGED w_init_done
BootTick ==
  /\ ~w_init_done
  /\ w_init_done' \in BOOLEAN
  /\ odata' \in Word \cup {Junk}
  /\ UNCHANGED <<pend, mem>>
MemTick == IF w_init_done THEN PortTick ELSE BootTick
-----------------------------------------------------------------------------
(* Every line that is valid holds the word of the memory that its tag      *)
(* names: the cache is never stale, also for two tags that name the same   *)
(* cells, and while a write is on its way to the memory.                   *)
LinesCoherent ==
  \A i \in Index :
    line[i] # Invalid => line[i][2] = mem[<<Frame[line[i][1]], i>>]

(* How the cache and the port stand in each state of the cache.            *)
NoRequest    == ~r_dram_le /\ ~r_dram_wr
Cleared      == line[r_dram_addr[2]] = Invalid
Fetched      == odata = mem[Cell(r_dram_addr)]
ReadPending  == pend = ReadOf(r_dram_addr, r_dram_mask)
WritePending == pend = WriteOf(r_dram_addr, r_dram_mask, r_dram_idata)

CacheInv ==
  /\ cState \in {0, 1} => NoRequest /\ ~c_we /\ pend = NoReq
  /\ cState = 1  => r_odata = line[r_dram_addr[2]] /\ r_tag = r_dram_addr[1]
  /\ cState = 2  => r_dram_le /\ ~r_dram_wr /\ ~c_we /\ (pend = NoReq \/ ReadPending)
  /\ cState = 3  => NoRequest /\ ~c_we /\ (ReadPending \/ (pend = NoReq /\ Fetched))
  /\ cState = 4  => NoRequest /\ c_we /\ pend = NoReq /\ Fetched /\ c_idata = odata
  /\ cState = 10 => /\ ~r_dram_le /\ r_dram_wr /\ ~c_we
                    /\ pend = NoReq \/ (~c_clr /\ (WritePending \/ pend = Written))
                    /\ c_clr \/ Cleared
  /\ cState = 11 => /\ NoRequest /\ ~c_we /\ ~c_clr /\ Cleared
                    /\ pend = NoReq \/ WritePending \/ pend = Written
  /\ ~w_init_done => cState = 0
=============================================================================
