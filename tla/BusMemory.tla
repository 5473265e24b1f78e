----------------------------- MODULE BusMemory -----------------------------
(***************************************************************************)
(* What the memory promises to the bus.  The transfers take effect one     *)
(* after another, in the order of their address phases: a read is answered *)
(* with the word its cell holds, a write changes the lanes of its mask in  *)
(* its cell before it is answered, and an exclusive write is performed,    *)
(* and acknowledged, exactly if its hart still holds the reservation.  A   *)
(* transfer that is taken before the memory is booted is promised nothing. *)
(* AhbMem implements this module.                                          *)
(***************************************************************************)
CONSTANTS Lane, Addr, Word, Xfer, NoXfer, Cell(_)

VARIABLES
  booted,
  xfer,       (* the transfer that is to be answered                       *)
  fate,       (* what becomes of it                                        *)
  mem,
  reserved,   (* <<hart, address>>                                         *)
  ready, rdata, okay       (* the answer                                   *)

vars == <<booted, xfer, fate, mem, reserved, ready, rdata, okay>>

Init ==
  /\ ~booted
  /\ xfer = NoXfer /\ fate = "none"
  /\ mem \in [Addr -> Word]
  /\ reserved = {}

(* A transfer is answered only when it is over, and with the truth.        *)
Answered ==
  /\ ready /\ fate = "read" => rdata = mem[Cell(xfer.addr)] /\ (xfer.excl => okay)
  /\ ready => fate # "pending"
  /\ ready /\ fate = "stored" /\ xfer.excl => okay
  /\ ready /\ fate = "refused" => ~okay

HoldsReservation(t) == <<t.hart, t.addr>> \in reserved

FateOf(t) ==
  IF t = NoXfer THEN "none"
  ELSE IF t.op = "write" /\ t.excl /\ ~HoldsReservation(t) THEN "refused"
  ELSE IF ~booted THEN "early"
  ELSE IF t.op = "read" THEN "read" ELSE "pending"

ReservedAfter(t) ==
  IF t # NoXfer /\ t.op = "read" /\ t.excl
  THEN {r \in reserved : r[1] # t.hart} \cup {<<t.hart, t.addr>>}
  ELSE IF t # NoXfer /\ t.op = "write" /\ t.excl /\ HoldsReservation(t)
  THEN {r \in reserved : r[2] # t.addr}
  ELSE reserved

(* The next transfer is taken as the one before is answered.               *)
Take ==
  /\ xfer = NoXfer \/ ready
  /\ xfer' \in Xfer \cup {NoXfer}
  /\ fate' = FateOf(xfer')
  /\ reserved' = ReservedAfter(xfer')
  /\ UNCHANGED mem

Store ==
  /\ fate = "pending"
  /\ mem' = [mem EXCEPT ![Cell(xfer.addr)] =
               [l \in Lane |-> IF l \in xfer.mask THEN xfer.data[l] ELSE @[l]]]
  /\ fate' = "stored"
  /\ UNCHANGED <<xfer, reserved>>

Wait == UNCHANGED <<xfer, fate, mem, reserved>>

Next == (Take \/ Store \/ Wait) /\ Answered' /\ (booted => booted')

Spec == Init /\ [][Next]_vars
=============================================================================
