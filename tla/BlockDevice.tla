----------------------------- MODULE BlockDevice -----------------------------
(***************************************************************************)
(* What the SD card host and its driver promise to the file system: blocks *)
(* that are read and written one at a time, each whole.  An operation that *)
(* has failed may return too, but then an error shows.                     *)
(***************************************************************************)
CONSTANTS Op,      \* [kind |-> "read" or "write", block |-> b, data |-> d]
          NoOp, Content

VARIABLES disk,    \* the content of each block
          op,      \* the operation under way
          result,  \* what the last read returned
          error

vars == <<disk, op, result, error>>

Init == disk \in Content /\ op = NoOp /\ result = NoOp /\ error = TRUE

Start == op = NoOp /\ op' \in Op /\ UNCHANGED <<disk, result>>

(* The block is written at some time before the operation returns.         *)
Store ==
  /\ op # NoOp /\ op.kind = "write"
  /\ disk' = [disk EXCEPT ![op.block] = op.data]
  /\ UNCHANGED <<op, result>>

Done == IF op.kind = "read" THEN result' = disk[op.block] ELSE disk[op.block] = op.data
Return ==
  /\ op # NoOp /\ op' = NoOp
  /\ error \/ Done
  /\ op.kind = "write" => UNCHANGED result
  /\ UNCHANGED disk

(* The error may come or be reset at any time.                             *)
Signal == UNCHANGED <<disk, op, result>>

Next == error' \in BOOLEAN /\ (Start \/ Store \/ Return \/ Signal)

Spec == Init /\ [][Next]_vars
=============================================================================
