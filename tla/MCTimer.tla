------------------------------- MODULE MCTimer -------------------------------
(***************************************************************************)
(* The timer for TLC.  Accessed are the registers that the harts read and  *)
(* write at any time.                                                      *)
(***************************************************************************)
EXTENDS Timer

CONSTANTS Readable, Writable

OtherMC ==
  {[dev |-> Dev, reg |-> r, write |-> TRUE, data |-> v] :
     r \in Writable, v \in 0 .. Half - 1}
  \cup {[dev |-> d, reg |-> r, write |-> FALSE, data |-> 0] :
     d \in {Dev, NoDevice}, r \in Readable}
TransferMC == Other \cup UNION {{set_mtimecmp(v)[i] : i \in 1 .. Len(set_mtimecmp(v))} : v \in Alarm}
=============================================================================
