------------------------------ MODULE Crossbar ------------------------------
(***************************************************************************)
(* busfabric/ahbl_crossbar.v: one splitter (ahbl_splitter.v) for every     *)
(* master and one arbiter (ahbl_arbiter.v) for every slave.                *)
(*                                                                         *)
(* The bus is pipelined.  A master whose address phase ends while the      *)
(* slave is granted to another has the phase captured in a buffer of the   *)
(* arbiter, and waits in its data phase until the buffer has been granted  *)
(* and the slave has answered.                                             *)
(*                                                                         *)
(* A state is one clock cycle: the registers, and the wires the masters    *)
(* and the slaves drive in it.  A step is the clock edge that ends it.     *)
(***************************************************************************)
EXTENDS Naturals

CONSTANTS
  N_MASTERS,
  Slave,       (* the slaves                                               *)
  Mem,         (* the one with SLAVE_ID 0                                  *)
  Xfer,        (* what the masters put in an address phase                 *)
  Route,       (* the slave that a transfer addresses, or NoSlave          *)
  NoSlave, NoMaster, Idle

Master == 0 .. N_MASTERS - 1

ASSUME CrossbarAssumption ==
  /\ N_MASTERS \in Nat \ {0}
  /\ Mem \in Slave /\ NoSlave \notin Slave /\ NoMaster \notin Master
  /\ Idle \notin Xfer
  /\ Route \in [Xfer -> Slave \cup {NoSlave}]

VARIABLES
  (* Wires. *)
  live,          (* the address phase of each master                       *)
  near,          (* it reads at its d_pc or d_pc + 4                       *)
  answer,        (* of each slave: "ready" is hready_resp; "error" is the  *)
                 (* first cycle of an error response                       *)
  (* A splitter's registers, by master. *)
  slave_sel_d,
  decode_err_d, err_ph1,
  (* An arbiter's registers, by slave. *)
  buf,           (* buf_valid and the buffered phase, by master            *)
  mast_gnt_d,    (* the master in data phase with the slave                *)
  active,        (* the last of them                                       *)
  sel,           (* onehot_priority: the last grant                        *)
  (* History. *)
  mxfer,         (* the transfer each master is in data phase with         *)
  sxfer          (* the transfer each slave is in data phase with          *)

wires     == <<live, near, answer>>
registers == <<slave_sel_d, decode_err_d, err_ph1, buf, mast_gnt_d, active, sel>>
vars      == <<wires, registers, mxfer, sxfer>>

FlagsOK ==
  /\ near \in [Master -> BOOLEAN]
  /\ decode_err_d \in [Master -> BOOLEAN] /\ err_ph1 \in [Master -> BOOLEAN]

Answer == {"wait", "error", "ready"}

TypeOK ==
  /\ FlagsOK
  /\ live \in [Master -> Xfer \cup {Idle}]
  /\ answer \in [Slave -> Answer]
  /\ slave_sel_d \in [Master -> Slave \cup {NoSlave}]
  /\ buf \in [Slave -> [Master -> Xfer \cup {Idle}]]
  /\ mast_gnt_d \in [Slave -> Master \cup {NoMaster}]
  /\ active \in [Slave -> Master]
  /\ sel \in [Slave -> Master \cup {NoMaster}]
  /\ mxfer \in [Master -> Xfer \cup {Idle}]
  /\ sxfer \in [Slave -> Xfer \cup {Idle}]

Init ==
  /\ live = [m \in Master |-> Idle] /\ near = [m \in Master |-> FALSE]
  /\ answer \in [Slave -> {"wait", "ready"}]
  /\ slave_sel_d = [m \in Master |-> NoSlave]
  /\ decode_err_d = [m \in Master |-> FALSE]
  /\ err_ph1 = [m \in Master |-> FALSE]
  /\ buf = [j \in Slave |-> [m \in Master |-> Idle]]
  /\ mast_gnt_d = [j \in Slave |-> NoMaster]
  /\ active = [j \in Slave |-> 0] /\ sel = [j \in Slave |-> 0]
  /\ mxfer = [m \in Master |-> Idle] /\ sxfer = [j \in Slave |-> Idle]
-----------------------------------------------------------------------------
(* Address decoding in the splitter.                                       *)
slave_sel_a(m)  == IF live[m] = Idle THEN NoSlave ELSE Route[live[m]]
decode_err_a(m) == live[m] # Idle /\ Route[live[m]] = NoSlave

(* What an arbiter answers to a master, and a splitter to its master.      *)
dst_hready_resp(j)   == answer[j] = "ready"
mast_in_dphase(j, m) == buf[j][m] # Idle \/ mast_gnt_d[j] = m
ArbReady_early(j, m) ==      \* mutant: a buffered phase counts as answered
  mast_gnt_d[j] = m => dst_hready_resp(j)
ArbReady(j, m) ==
  ~mast_in_dphase(j, m) \/ (mast_gnt_d[j] = m /\ dst_hready_resp(j))

src_hready(m) ==
  IF slave_sel_d[m] = NoSlave THEN err_ph1[m] \/ ~decode_err_d[m]
                              ELSE ArbReady(slave_sel_d[m], m)

src_hresp(m) ==
  \/ decode_err_d[m]
  \/ \E j \in Slave :
       slave_sel_d[m] = j /\ mast_gnt_d[j] = m /\ answer[j] = "error"

(* The requests of the address phase at arbiter j.                         *)
actual(j, m) ==
  IF buf[j][m] # Idle THEN buf[j][m]
  ELSE IF slave_sel_a(m) = j THEN live[m] ELSE Idle

Requests_now(j) ==      \* mutant: the buffered phases do not request
  {m \in Master : actual(j, m) # Idle /\ (mast_gnt_d[j] = m \/ src_hready(m))}
mast_req_a(j) ==
  {m \in Master :
     /\ actual(j, m) # Idle
     /\ mast_gnt_d[j] = m \/ src_hready(m) \/ slave_sel_d[m] = j}

(* The grant: the last winner keeps its priority, unless the master in     *)
(* data phase with the memory ends it with the fetch of its next           *)
(* instruction.                                                            *)
canchange(j) ==
  /\ j = Mem /\ dst_hready_resp(j)
  /\ near[active[j]]
  /\ \E m \in Master : ArbReady(j, m)

Lowest(R)  == CHOOSE m \in R : \A n \in R : m <= n
Highest(R) == CHOOSE m \in R : \A n \in R : m >= n

selchg(j) == (sel[j] \in {NoMaster, 0}) <=> canchange(j)

mast_gnt_a(j) ==
  LET R == mast_req_a(j)
  IN  IF R = {} THEN NoMaster
      ELSE IF selchg(j) THEN Highest(R) ELSE Lowest(R)

(* The hready of slave j, given the grant.                                 *)
DstReady_granted(j, gnt) ==    \* mutant: the master in data phase is ignored
  gnt # NoMaster /\ src_hready(gnt)
dst_hready(j, gnt) ==
  LET m == IF mast_gnt_d[j] # NoMaster THEN mast_gnt_d[j] ELSE gnt
  IN  m # NoMaster /\ src_hready(m)

(* A phase that ends without being passed on to its slave is buffered; n   *)
(* is the master whose phase the slave takes, or NoMaster.                 *)
BufWen_any(j, m, n) ==    \* mutant: not if any phase is passed on
  m \in mast_req_a(j) /\ src_hready(m) /\ n = NoMaster
buf_wen(j, m, n) == m \in mast_req_a(j) /\ src_hready(m) /\ m # n

(* The clock edge.                                                         *)
SplittersTick ==
  LET ready == [m \in Master |-> src_hready(m)]
  IN  /\ slave_sel_d' =
           [m \in Master |-> IF ready[m] THEN slave_sel_a(m) ELSE slave_sel_d[m]]
      /\ decode_err_d' =
           [m \in Master |-> IF ready[m] THEN decode_err_a(m) ELSE decode_err_d[m]]
      /\ err_ph1' = [m \in Master |-> decode_err_d[m] /\ ~err_ph1[m]]
      /\ mxfer' = [m \in Master |-> IF ready[m] THEN live[m] ELSE mxfer[m]]

BufferAfter(j, m, n) ==
  IF buf_wen(j, m, n) THEN live[m] ELSE IF m = n THEN Idle ELSE buf[j][m]

ActiveAfter(j, n) == IF n = NoMaster THEN active[j] ELSE n

ArbitersTick ==
  LET gnt   == [j \in Slave |-> mast_gnt_a(j)]
      ready == [j \in Slave |-> dst_hready(j, gnt[j])]
      taken == [j \in Slave |-> IF ready[j] THEN gnt[j] ELSE NoMaster]
  IN  /\ sel' = gnt
      /\ mast_gnt_d' = [j \in Slave |-> IF ready[j] THEN gnt[j] ELSE mast_gnt_d[j]]
      /\ active' = [j \in Slave |-> ActiveAfter(j, taken[j])]
      /\ buf' =
           [j \in Slave |-> [m \in Master |-> BufferAfter(j, m, taken[j])]]
      /\ sxfer' = [j \in Slave |->
           IF ~ready[j] THEN sxfer[j]
           ELSE IF gnt[j] = NoMaster THEN Idle ELSE actual(j, gnt[j])]

(* A master holds its address phase until it is taken, but may withdraw it *)
(* on an error (bus_hold_aph, hazard3_cpu_1port.v:194).                    *)
Held(m) == live[m] # Idle /\ ~src_hready(m) /\ ~src_hresp(m)
MastersDrive ==
  /\ live' \in [Master -> Xfer \cup {Idle}]
  /\ \A m \in Master : Held(m) => live'[m] = live[m]
  /\ near' \in [Master -> BOOLEAN]

(* A slave answers when it likes, and with an error in two cycles.         *)
SlavesDrive ==
  /\ answer' \in [Slave -> Answer]
  /\ \A j \in Slave : answer'[j] = "error" => j # Mem /\ mast_gnt_d'[j] # NoMaster

Next == SplittersTick /\ ArbitersTick /\ MastersDrive /\ SlavesDrive

Spec == Init /\ [][Next]_vars

(* The clock runs: there is always another cycle that differs from this    *)
(* one, be it in its wires.                                                *)
FairSpec == Spec /\ []<><<TRUE>>_vars
-----------------------------------------------------------------------------
(* A transfer that a master is in data phase with is in one place: with    *)
(* the slave it addresses, whose response and write data are then those of *)
(* this master, or in the buffer of that slave's arbiter.  None is lost,   *)
(* none is doubled and none reaches a slave it does not address.           *)
AtSlave(m, j)  == mast_gnt_d[j] = m /\ sxfer[j] = mxfer[m] /\ buf[j][m] = Idle
InBuffer(m, j) == mast_gnt_d[j] # m /\ buf[j][m] = mxfer[m]
Nowhere(m, j)  == mast_gnt_d[j] # m /\ buf[j][m] = Idle

RouteOf(t) == IF t = Idle THEN NoSlave ELSE Route[t]

InOnePlace ==
  \A m \in Master, j \in Slave :
    IF RouteOf(mxfer[m]) = j THEN AtSlave(m, j) \/ InBuffer(m, j)
                             ELSE Nowhere(m, j)

(* A buffered phase is only ever let go by the end of another master's     *)
(* data phase: with no master in data phase it would stay for ever.        *)
NoStrandedBuffer ==
  \A j \in Slave, m \in Master : buf[j][m] # Idle => mast_gnt_d[j] # NoMaster

(* What AhbMem takes from its bus: a slave in data phase sees a bus that   *)
(* is ready exactly when it is ready itself, and it is given no transfer   *)
(* unless it is.                                                           *)
SlaveSeesBus ==
  \A j \in Slave : sxfer[j] # Idle => 
    (dst_hready(j, mast_gnt_a(j)) <=> dst_hready_resp(j))

(* A transfer that a master is told is over was answered by its slave, or  *)
(* goes nowhere and was in its second cycle.                               *)
TrueAnswer ==
  \A m \in Master : mxfer[m] # Idle /\ src_hready(m) =>
    IF Route[mxfer[m]] = NoSlave THEN err_ph1[m]
    ELSE sxfer[Route[mxfer[m]]] = mxfer[m] /\ dst_hready_resp(Route[mxfer[m]])

(* The registers of a splitter and of an arbiter follow these transfers.   *)
SplitterInv ==
  \A m \in Master :
    /\ slave_sel_d[m] = RouteOf(mxfer[m])
    /\ decode_err_d[m] => mxfer[m] # Idle /\ slave_sel_d[m] = NoSlave
    /\ mxfer[m] # Idle /\ slave_sel_d[m] = NoSlave => decode_err_d[m]
    /\ err_ph1[m] => decode_err_d[m]
ArbiterInv ==
  \A j \in Slave :
    /\ mast_gnt_d[j] = NoMaster => sxfer[j] = Idle
    /\ mast_gnt_d[j] # NoMaster => sxfer[j] # Idle
XInv == SplitterInv /\ ArbiterInv /\ InOnePlace /\ NoStrandedBuffer

(* A transfer ends, if every slave is ready now and then, and if now and   *)
(* then the master in data phase with it wants no other transfer: in any   *)
(* cycle of it for a slave that cannot change the priority, in its last    *)
(* cycle for the memory.                                                   *)
Pause(j) ==
  mast_gnt_d[j] \notin mast_req_a(j) /\ (j = Mem => dst_hready(j, mast_gnt_a(j)))
EveryTransferEnds ==
  (\A j \in Slave : []<>(answer[j] = "ready") /\ []<>Pause(j)) =>
    \A m \in Master : (mxfer[m] # Idle) ~> (mxfer[m] # Idle /\ src_hready(m))
=============================================================================
