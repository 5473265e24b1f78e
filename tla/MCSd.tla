-------------------------------- MODULE MCSd --------------------------------
(***************************************************************************)
(* The SD card and its driver for TLC: every operation on the blocks, with *)
(* data in which no byte is like the next.                                 *)
(***************************************************************************)
EXTENDS SdDriver

ContentMC == {d \in [Index -> Byte] : \A j \in 1 .. BLOCKSIZE - 1 : d[j] # d[j - 1]}

OpMC ==
  [kind : {"write"}, block : Block, data : Content]
  \cup {[kind |-> "read", block |-> b, data |-> d] : b \in Block,
        d \in {CHOOSE d \in Content : TRUE}}
=============================================================================
