------------------------------ MODULE MemPort ------------------------------
(***************************************************************************)
(* What the memory port promises to its requester, and what the requester  *)
(* owes the port.  A request that is raised is accepted once, a write      *)
(* changes the cell of its address once and no other cell, a read returns  *)
(* the word its address holds, and the port is released only after the     *)
(* requester has lowered the request.  DramConRV implements this module;   *)
(* AhbMem uses it in place of DramConRV.                                   *)
(***************************************************************************)
CONSTANTS Addr, Lane, Word, Request, NoReq, Written

VARIABLES
  rq,     (* the request the requester holds up                            *)
  pend,   (* the accepted request; Written once a write has reached mem    *)
  mem,
  odata   (* the last word read                                            *)

vars == <<rq, pend, mem, odata>>

Init ==
  /\ rq = NoReq /\ pend = NoReq
  /\ mem \in [Addr -> Word]

(* The requester: one request at a time, held until it is accepted.        *)
Raise == rq = NoReq /\ pend = NoReq /\ rq' \in Request
Lower == rq # NoReq /\ pend # NoReq /\ rq' = NoReq
Hold  == UNCHANGED rq

Requester == Raise \/ Lower \/ Hold

(* The port.                                                               *)
Accept ==
  /\ rq # NoReq /\ pend = NoReq
  /\ pend' = rq
  /\ UNCHANGED <<mem, odata>>

Write ==
  /\ pend \in Request /\ pend.op = "write"
  /\ mem' = [mem EXCEPT ![pend.addr] =
               [l \in Lane |-> IF l \in pend.ctrl THEN pend.data[l] ELSE @[l]]]
  /\ pend' = Written
  /\ UNCHANGED odata

EndWrite ==
  /\ rq = NoReq /\ pend = Written
  /\ pend' = NoReq
  /\ UNCHANGED <<mem, odata>>

EndRead ==
  /\ rq = NoReq /\ pend \in Request /\ pend.op = "read"
  /\ odata' = mem[pend.addr]
  /\ pend' = NoReq
  /\ UNCHANGED mem

Serve == Accept \/ Write \/ EndWrite \/ EndRead
Quiet == UNCHANGED <<pend, mem, odata>>

Next == Requester /\ (Serve \/ Quiet)

(* A raised request is served to its end, if it is lowered once accepted.  *)
Spec == /\ Init /\ [][Next]_vars
        /\ WF_vars(Lower /\ (Serve \/ Quiet))
        /\ WF_vars((Lower \/ Hold) /\ Serve)
=============================================================================
