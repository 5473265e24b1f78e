-------------------------- MODULE Crossbar_proofs --------------------------
(***************************************************************************)
(* Proofs about Crossbar, for any number of masters, slaves and transfers. *)
(***************************************************************************)
EXTENDS Crossbar, WellFoundedInduction, TLAPS

(***************************************************************************)
(* The grant goes to one of the masters that request, if any does.         *)
(***************************************************************************)
LEMMA LeastNatural ==
  ASSUME NEW T \in SUBSET Nat, T # {}
  PROVE  \E x \in T : \A y \in T : x <= y
<1> DEFINE less == {ss \in Nat \X Nat : ss[1] < ss[2]}
<1>1. \A x, y \in Nat : x < y => <<x, y>> \in less
  OBVIOUS
<1>2. IsWellFoundedOn(less, Nat)
  BY NatLessThanWellFounded DEF OpToRel
<1> HIDE DEF less
<1>3. PICK x \in T : \A y \in T : ~ (<<y, x>> \in less)
  BY <1>2, WFMin
<1>4. ASSUME NEW y \in T PROVE x <= y
  <2>1. ~(y < x)
    BY <1>1, <1>3
  <2> QED
    BY <2>1
<1> QED
  BY <1>3, <1>4

LEMMA LowestIn ==
  ASSUME NEW R \in SUBSET Master, R # {}
  PROVE  Lowest(R) \in R
<1>1. R \in SUBSET Nat
  BY CrossbarAssumption DEF Master
<1>2. \E m \in R : \A n \in R : m <= n
  BY <1>1, LeastNatural
<1> QED
  BY <1>2 DEF Lowest

LEMMA HighestIn ==
  ASSUME NEW R \in SUBSET Master, R # {}
  PROVE  Highest(R) \in R
<1> DEFINE U == {k \in Nat : \A m \in R : m <= k}
<1>1. N_MASTERS - 1 \in U
  BY CrossbarAssumption DEF Master
<1>2. PICK k \in U : \A n \in U : k <= n
  BY <1>1, LeastNatural, U \in SUBSET Nat, U # {}
<1>3. k \in R
  <2> SUFFICES ASSUME k \notin R PROVE FALSE
    OBVIOUS
  <2>1. PICK r \in R : TRUE
    OBVIOUS
  <2>2. \A m \in R : m <= k - 1 /\ m \in Nat
    BY CrossbarAssumption DEF Master
  <2>3. k - 1 \in U
    BY <2>1, <2>2
  <2> QED
    BY <1>2, <2>3
<1> QED
  BY <1>3 DEF Highest

LEMMA Grant ==
  ASSUME NEW j \in Slave
  PROVE  /\ mast_req_a(j) = {} => mast_gnt_a(j) = NoMaster
         /\ mast_req_a(j) # {} => mast_gnt_a(j) \in mast_req_a(j)
<1>1. mast_req_a(j) \in SUBSET Master
  BY DEF mast_req_a
<1> QED
  BY <1>1, LowestIn, HighestIn DEF mast_gnt_a

LEMMA GrantType ==
  ASSUME NEW j \in Slave
  PROVE  /\ mast_gnt_a(j) \in Master \cup {NoMaster}
         /\ mast_gnt_a(j) # NoMaster => mast_gnt_a(j) \in mast_req_a(j)
         /\ \A m \in mast_req_a(j) : m \in Master /\ mast_gnt_a(j) # NoMaster
<1>1. NoMaster \notin Master /\ mast_req_a(j) \in SUBSET Master
  BY CrossbarAssumption DEF mast_req_a
<1> QED
  BY <1>1, Grant

(***************************************************************************)
(* The registers after a clock edge.  Rdy is the hready of a slave.        *)
(***************************************************************************)
Rdy(j)   == dst_hready(j, mast_gnt_a(j))
Took(j)  == IF Rdy(j) THEN mast_gnt_a(j) ELSE NoMaster

LEMMA SplitterEdge ==
  ASSUME Next, NEW m \in Master
  PROVE  /\ slave_sel_d'[m] = IF src_hready(m) THEN slave_sel_a(m) ELSE slave_sel_d[m]
         /\ decode_err_d'[m] = IF src_hready(m) THEN decode_err_a(m) ELSE decode_err_d[m]
         /\ err_ph1'[m] = (decode_err_d[m] /\ ~err_ph1[m])
         /\ mxfer'[m] = IF src_hready(m) THEN live[m] ELSE mxfer[m]
BY Zenon DEF Next, SplittersTick

LEMMA ArbiterEdge ==
  ASSUME Next, NEW j \in Slave
  PROVE  /\ sel'[j] = mast_gnt_a(j)
         /\ mast_gnt_d'[j] = IF Rdy(j) THEN mast_gnt_a(j) ELSE mast_gnt_d[j]
         /\ active'[j] = ActiveAfter(j, Took(j))
         /\ sxfer'[j] = IF ~Rdy(j) THEN sxfer[j]
                        ELSE IF mast_gnt_a(j) = NoMaster THEN Idle
                        ELSE actual(j, mast_gnt_a(j))
         /\ \A m \in Master : buf'[j][m] = BufferAfter(j, m, Took(j))
BY Zenon DEF Next, ArbitersTick, Rdy, Took

LEMMA ArbiterShape ==
  ASSUME Next
  PROVE  /\ sel' = [j \in Slave |-> sel'[j]]
         /\ mast_gnt_d' = [j \in Slave |-> mast_gnt_d'[j]]
         /\ active' = [j \in Slave |-> active'[j]]
         /\ sxfer' = [j \in Slave |-> sxfer'[j]]
         /\ buf' = [j \in Slave |-> [m \in Master |-> buf'[j][m]]]
BY DEF Next, ArbitersTick

(***************************************************************************)
(* The type invariant.                                                     *)
(***************************************************************************)
LEMMA ActualType ==
  ASSUME TypeOK, NEW j \in Slave, NEW m \in Master
  PROVE  actual(j, m) \in Xfer \cup {Idle}
BY DEF TypeOK, actual

LEMMA DecodeType ==
  ASSUME TypeOK, NEW m \in Master
  PROVE  slave_sel_a(m) \in Slave \cup {NoSlave} /\ slave_sel_a(m) = RouteOf(live[m])
BY CrossbarAssumption DEF TypeOK, slave_sel_a, RouteOf

LEMMA FlagsStep ==
  ASSUME TypeOK, Next
  PROVE  FlagsOK'
<1>1. near' \in [Master -> BOOLEAN]
  BY DEF Next, MastersDrive
<1>2. decode_err_d' \in [Master -> BOOLEAN]
  <2>1. ASSUME NEW m \in Master
        PROVE  (IF src_hready(m) THEN decode_err_a(m) ELSE decode_err_d[m]) \in BOOLEAN
    BY Zenon DEF TypeOK, FlagsOK, decode_err_a
  <2> QED
    BY <2>1, Zenon DEF Next, SplittersTick
<1>3. err_ph1' \in [Master -> BOOLEAN]
  BY Zenon DEF Next, SplittersTick
<1> QED
  BY <1>1, <1>2, <1>3 DEF FlagsOK

LEMMA TypeStep ==
  ASSUME TypeOK, Next
  PROVE  TypeOK'
<1>1. FlagsOK'
  BY FlagsStep
<1>2. live' \in [Master -> Xfer \cup {Idle}] /\ answer' \in [Slave -> Answer]
  BY DEF Next, MastersDrive, SlavesDrive
<1>3. slave_sel_d' \in [Master -> Slave \cup {NoSlave}]
  BY DecodeType DEF Next, SplittersTick, TypeOK
<1>4. mxfer' \in [Master -> Xfer \cup {Idle}]
  BY DEF Next, SplittersTick, TypeOK
<1>5. sel' \in [Slave -> Master \cup {NoMaster}]
  BY ArbiterEdge, ArbiterShape, GrantType
<1>6. mast_gnt_d' \in [Slave -> Master \cup {NoMaster}]
  <2>1. ASSUME NEW j \in Slave PROVE mast_gnt_d'[j] \in Master \cup {NoMaster}
    BY ArbiterEdge, GrantType DEF TypeOK
  <2> QED
    BY <2>1, ArbiterShape
<1>7. active' \in [Slave -> Master]
  <2>1. ASSUME NEW j \in Slave PROVE active'[j] \in Master
    BY ArbiterEdge, GrantType DEF TypeOK, ActiveAfter, Took
  <2> QED
    BY <2>1, ArbiterShape
<1>8. sxfer' \in [Slave -> Xfer \cup {Idle}]
  <2>1. ASSUME NEW j \in Slave PROVE sxfer'[j] \in Xfer \cup {Idle}
    BY ArbiterEdge, GrantType, ActualType DEF TypeOK
  <2> QED
    BY <2>1, ArbiterShape
<1>9. buf' \in [Slave -> [Master -> Xfer \cup {Idle}]]
  <2>1. ASSUME NEW j \in Slave, NEW m \in Master
        PROVE  buf'[j][m] \in Xfer \cup {Idle}
    BY ArbiterEdge DEF TypeOK, BufferAfter
  <2> QED
    BY <2>1, ArbiterShape
<1> QED
  BY <1>1, <1>2, <1>3, <1>4, <1>5, <1>6, <1>7, <1>8, <1>9 DEF TypeOK

(***************************************************************************)
(* When a master is ready, and who requests.                               *)
(***************************************************************************)
LEMMA ReadyIf ==
  ASSUME TypeOK, XInv, NEW m \in Master, NEW j \in Slave
  PROVE  /\ RouteOf(mxfer[m]) = j =>
              (src_hready(m) <=> AtSlave(m, j) /\ dst_hready_resp(j))
         /\ mxfer[m] = Idle => src_hready(m)
<1>1. slave_sel_d[m] = RouteOf(mxfer[m])
  BY DEF XInv, SplitterInv
<1>2. ASSUME RouteOf(mxfer[m]) = j
      PROVE  src_hready(m) <=> AtSlave(m, j) /\ dst_hready_resp(j)
  <2>1. slave_sel_d[m] # NoSlave
    BY <1>1, <1>2, CrossbarAssumption
  <2>2. src_hready(m) <=> ArbReady(j, m)
    BY <2>1, <1>1, <1>2, Zenon DEF src_hready
  <2>3. AtSlave(m, j) \/ InBuffer(m, j)
    BY <1>2 DEF XInv, InOnePlace
  <2>4. mxfer[m] # Idle
    BY <1>2, CrossbarAssumption DEF RouteOf
  <2>5. CASE AtSlave(m, j)
    BY <2>2, <2>5 DEF AtSlave, ArbReady, mast_in_dphase
  <2>6. CASE InBuffer(m, j)
    BY <2>2, <2>4, <2>6 DEF InBuffer, AtSlave, ArbReady, mast_in_dphase
  <2> QED
    BY <2>3, <2>5, <2>6
<1>3. ASSUME mxfer[m] = Idle PROVE src_hready(m)
  <2>1. slave_sel_d[m] = NoSlave /\ ~decode_err_d[m]
    BY <1>1, <1>3 DEF XInv, SplitterInv, RouteOf
  <2> QED
    BY <2>1 DEF src_hready
<1> QED
  BY <1>2, <1>3

LEMMA EmptyBuffer ==
  ASSUME TypeOK, XInv, NEW m \in Master, NEW j \in Slave, src_hready(m)
  PROVE  buf[j][m] = Idle
<1>1. CASE RouteOf(mxfer[m]) = j
  BY <1>1, ReadyIf DEF AtSlave
<1>2. CASE RouteOf(mxfer[m]) # j
  BY <1>2 DEF XInv, InOnePlace, Nowhere
<1> QED
  BY <1>1, <1>2

LEMMA HolderReady ==
  ASSUME TypeOK, XInv, NEW m \in Master, NEW j \in Slave, mast_gnt_d[j] = m
  PROVE  /\ Rdy(j) <=> src_hready(m)
         /\ AtSlave(m, j) /\ RouteOf(mxfer[m]) = j
<1>1. m # NoMaster
  BY CrossbarAssumption
<1>2. Rdy(j) <=> src_hready(m)
  BY <1>1 DEF Rdy, dst_hready
<1>3. AtSlave(m, j) /\ RouteOf(mxfer[m]) = j
  BY DEF XInv, InOnePlace, InBuffer, Nowhere
<1> QED
  BY <1>2, <1>3

LEMMA TookIs ==
  ASSUME TypeOK, NEW j \in Slave, NEW m \in Master
  PROVE  /\ Took(j) = m <=> Rdy(j) /\ mast_gnt_a(j) = m
         /\ Took(j) = m => m \in mast_req_a(j)
BY CrossbarAssumption, GrantType DEF Took

(***************************************************************************)
(* Where a transfer is after a clock edge.                                 *)
(***************************************************************************)
LEMMA NewTransferPlaced ==
  ASSUME TypeOK, XInv, Next, NEW m \in Master, NEW j \in Slave,
         src_hready(m)
  PROVE  IF RouteOf(live[m]) = j
         THEN (AtSlave(m, j) \/ InBuffer(m, j))' ELSE Nowhere(m, j)'
<1> USE CrossbarAssumption
<1>1. buf[j][m] = Idle /\ mxfer'[m] = live[m]
  BY EmptyBuffer, SplitterEdge
<1>2. slave_sel_a(m) = RouteOf(live[m])
  BY DecodeType
<1>3. CASE RouteOf(live[m]) = j
  <2>1. actual(j, m) = live[m] /\ live[m] # Idle
    BY <1>1, <1>2, <1>3 DEF actual, RouteOf
  <2>2. m \in mast_req_a(j)
    BY <2>1 DEF mast_req_a
  <2>3. CASE Took(j) = m
    <3>1. Rdy(j) /\ mast_gnt_a(j) = m /\ m # NoMaster
      BY <2>3, TookIs
    <3>2. mast_gnt_d'[j] = m /\ sxfer'[j] = live[m]
      BY <2>1, <3>1, ArbiterEdge
    <3>3. buf'[j][m] = Idle
      BY <2>3, ArbiterEdge DEF BufferAfter, buf_wen
    <3> QED
      BY <1>1, <1>3, <3>2, <3>3 DEF AtSlave
  <2>4. CASE Took(j) # m
    <3>1. buf'[j][m] = live[m]
      BY <2>2, <2>4, ArbiterEdge DEF BufferAfter, buf_wen
    <3>2. mast_gnt_d'[j] # m
      BY <2>4, ArbiterEdge, HolderReady, TookIs
    <3> QED
      BY <1>1, <1>3, <3>1, <3>2 DEF InBuffer
  <2> QED
    BY <2>3, <2>4
<1>4. CASE RouteOf(live[m]) # j
  <2>1. actual(j, m) = Idle
    BY <1>1, <1>2, <1>4 DEF actual
  <2>2. m \notin mast_req_a(j)
    BY <2>1 DEF mast_req_a
  <2>3. Took(j) # m /\ mast_gnt_a(j) # m
    BY <2>2, TookIs, GrantType
  <2>4. buf'[j][m] = Idle
    BY <1>1, <2>2, <2>3, ArbiterEdge DEF BufferAfter, buf_wen
  <2>5. mast_gnt_d'[j] # m
    BY <2>3, ArbiterEdge, HolderReady
  <2> QED
    BY <1>4, <2>4, <2>5 DEF Nowhere
<1> QED
  BY <1>3, <1>4

LEMMA OldTransferPlaced ==
  ASSUME TypeOK, XInv, Next, NEW m \in Master, NEW j \in Slave,
         ~src_hready(m)
  PROVE  IF RouteOf(mxfer[m]) = j
         THEN (AtSlave(m, j) \/ InBuffer(m, j))' ELSE Nowhere(m, j)'
<1> USE CrossbarAssumption
<1>1. mxfer'[m] = mxfer[m]
  BY SplitterEdge
<1>2. buf'[j][m] = IF m = Took(j) THEN Idle ELSE buf[j][m]
  BY ArbiterEdge DEF BufferAfter, buf_wen
<1>3. CASE RouteOf(mxfer[m]) = j /\ AtSlave(m, j)
  <2>1. mast_gnt_d[j] = m /\ sxfer[j] = mxfer[m] /\ buf[j][m] = Idle
    BY <1>3 DEF AtSlave
  <2>2. ~Rdy(j)
    BY <2>1, HolderReady
  <2>3. mast_gnt_d'[j] = m /\ sxfer'[j] = mxfer[m] /\ buf'[j][m] = Idle
    BY <1>2, <2>1, <2>2, ArbiterEdge
  <2> QED
    BY <1>1, <1>3, <2>3 DEF AtSlave
<1>4. CASE RouteOf(mxfer[m]) = j /\ InBuffer(m, j)
  <2>1. mast_gnt_d[j] # m /\ buf[j][m] = mxfer[m] /\ mxfer[m] # Idle
    BY <1>4 DEF InBuffer, RouteOf
  <2>2. CASE Took(j) = m
    <3>1. Rdy(j) /\ mast_gnt_a(j) = m /\ m # NoMaster
      BY <2>2, TookIs
    <3>2. mast_gnt_d'[j] = m /\ sxfer'[j] = mxfer[m] /\ buf'[j][m] = Idle
      BY <1>2, <2>1, <2>2, <3>1, ArbiterEdge DEF actual
    <3> QED
      BY <1>1, <1>4, <3>2 DEF AtSlave
  <2>3. CASE Took(j) # m
    <3>1. mast_gnt_d'[j] # m /\ buf'[j][m] = mxfer[m]
      BY <1>2, <2>1, <2>3, ArbiterEdge, TookIs
    <3> QED
      BY <1>1, <1>4, <3>1 DEF InBuffer
  <2> QED
    BY <2>2, <2>3
<1>5. CASE RouteOf(mxfer[m]) # j
  <2>1. mast_gnt_d[j] # m /\ buf[j][m] = Idle
    BY <1>5 DEF XInv, InOnePlace, Nowhere
  <2>2. m \notin mast_req_a(j)
    BY <1>5, <2>1 DEF mast_req_a, XInv, SplitterInv
  <2>3. Took(j) # m /\ mast_gnt_a(j) # m
    BY <2>2, TookIs, GrantType
  <2>4. mast_gnt_d'[j] # m /\ buf'[j][m] = Idle
    BY <1>2, <2>1, <2>3, ArbiterEdge
  <2> QED
    BY <1>5, <2>4 DEF Nowhere
<1>6. RouteOf(mxfer[m]) = j => AtSlave(m, j) \/ InBuffer(m, j)
  BY DEF XInv, InOnePlace
<1> QED
  BY <1>3, <1>4, <1>5, <1>6

LEMMA InOnePlaceStep ==
  ASSUME TypeOK, XInv, Next
  PROVE  InOnePlace'
<1> SUFFICES ASSUME NEW m \in Master, NEW j \in Slave
             PROVE  IF RouteOf(mxfer'[m]) = j
                    THEN (AtSlave(m, j) \/ InBuffer(m, j))' ELSE Nowhere(m, j)'
  BY DEF InOnePlace, RouteOf
<1>1. CASE src_hready(m)
  BY <1>1, SplitterEdge, NewTransferPlaced
<1>2. CASE ~src_hready(m)
  BY <1>2, SplitterEdge, OldTransferPlaced
<1> QED
  BY <1>1, <1>2

(***************************************************************************)
(* The registers follow the transfers, and no buffer is stranded.          *)
(***************************************************************************)
LEMMA SplitterInvStep ==
  ASSUME TypeOK, XInv, Next
  PROVE  SplitterInv'
<1> SUFFICES ASSUME NEW m \in Master
             PROVE  /\ slave_sel_d'[m] = RouteOf(mxfer'[m])
                    /\ decode_err_d'[m] => mxfer'[m] # Idle /\ slave_sel_d'[m] = NoSlave
                    /\ mxfer'[m] # Idle /\ slave_sel_d'[m] = NoSlave => decode_err_d'[m]
                    /\ err_ph1'[m] => decode_err_d'[m]
  BY DEF SplitterInv, RouteOf
<1>1. /\ slave_sel_d[m] = RouteOf(mxfer[m])
      /\ decode_err_d[m] => mxfer[m] # Idle /\ slave_sel_d[m] = NoSlave
      /\ mxfer[m] # Idle /\ slave_sel_d[m] = NoSlave => decode_err_d[m]
      /\ err_ph1[m] => decode_err_d[m]
  BY DEF XInv, SplitterInv
<1>2. CASE src_hready(m)
  <2>1. /\ slave_sel_d'[m] = RouteOf(live[m]) /\ mxfer'[m] = live[m]
        /\ decode_err_d'[m] = decode_err_a(m)
    BY <1>2, SplitterEdge, DecodeType
  <2>2. live[m] # Idle /\ RouteOf(live[m]) = NoSlave => decode_err_a(m)
    BY DEF decode_err_a, RouteOf
  <2>3. decode_err_a(m) => live[m] # Idle /\ RouteOf(live[m]) = NoSlave
    BY DEF decode_err_a, RouteOf
  <2>4. ~err_ph1'[m]
    <3>1. decode_err_d[m] => err_ph1[m]
      BY <1>1, <1>2 DEF src_hready
    <3> QED
      BY <3>1, SplitterEdge, Zenon
  <2> QED
    BY <2>1, <2>2, <2>3, <2>4
<1>3. CASE ~src_hready(m)
  <2>1. /\ slave_sel_d'[m] = slave_sel_d[m] /\ mxfer'[m] = mxfer[m]
        /\ decode_err_d'[m] = decode_err_d[m]
    BY <1>3, SplitterEdge
  <2>2. err_ph1'[m] => decode_err_d[m]
    BY SplitterEdge, Zenon
  <2> QED
    BY <1>1, <2>1, <2>2
<1> QED
  BY <1>2, <1>3

LEMMA ArbiterInvStep ==
  ASSUME TypeOK, XInv, Next
  PROVE  ArbiterInv'
<1> SUFFICES ASSUME NEW j \in Slave
             PROVE  /\ mast_gnt_d'[j] = NoMaster => sxfer'[j] = Idle
                    /\ mast_gnt_d'[j] # NoMaster => sxfer'[j] # Idle
  BY DEF ArbiterInv
<1>1. CASE ~Rdy(j)
  BY <1>1, ArbiterEdge DEF XInv, ArbiterInv
<1>2. CASE Rdy(j)
  <2>1. \A m \in mast_req_a(j) : actual(j, m) # Idle
    BY DEF mast_req_a
  <2> QED
    BY <1>2, <2>1, ArbiterEdge, GrantType
<1> QED
  BY <1>1, <1>2

LEMMA StrandedStep ==
  ASSUME TypeOK, XInv, Next
  PROVE  NoStrandedBuffer'
<1> USE CrossbarAssumption
<1> SUFFICES ASSUME NEW j \in Slave, NEW m \in Master,
                    buf'[j][m] # Idle, mast_gnt_d'[j] = NoMaster
             PROVE  FALSE
  BY DEF NoStrandedBuffer
<1>1. buf_wen(j, m, Took(j)) \/ buf[j][m] # Idle
  BY ArbiterEdge DEF BufferAfter
<1>2. m \in mast_req_a(j)
  <2>1. CASE buf_wen(j, m, Took(j))
    BY <2>1 DEF buf_wen
  <2>2. CASE buf[j][m] # Idle
    <3>1. RouteOf(mxfer[m]) = j
      BY <2>2 DEF XInv, InOnePlace, Nowhere
    <3>2. slave_sel_d[m] = j
      BY <3>1 DEF XInv, SplitterInv
    <3> QED
      BY <2>2, <3>2 DEF mast_req_a, actual
  <2> QED
    BY <1>1, <2>1, <2>2
<1>3. mast_gnt_a(j) \in mast_req_a(j) /\ mast_gnt_a(j) # NoMaster
  BY <1>2, GrantType
<1>4. ~Rdy(j) /\ mast_gnt_d[j] = NoMaster
  BY <1>3, ArbiterEdge
<1>5. PICK n \in Master : n = mast_gnt_a(j)
  BY <1>3, GrantType
<1>6. ~src_hready(n)
  BY <1>3, <1>4, <1>5 DEF Rdy, dst_hready
<1>7. slave_sel_d[n] = j
  BY <1>3, <1>4, <1>5, <1>6 DEF mast_req_a
<1>8. RouteOf(mxfer[n]) = j
  BY <1>7 DEF XInv, SplitterInv
<1>9. InBuffer(n, j) /\ mxfer[n] # Idle
  BY <1>4, <1>8 DEF XInv, InOnePlace, AtSlave, RouteOf
<1> QED
  BY <1>4, <1>9 DEF XInv, NoStrandedBuffer, InBuffer

(***************************************************************************)
(* The invariant.                                                          *)
(***************************************************************************)
IInv == TypeOK /\ XInv

LEMMA InitInv == Init => IInv
<1> SUFFICES ASSUME Init PROVE IInv
  OBVIOUS
<1> USE CrossbarAssumption
<1>1. 0 \in Master
  BY DEF Master
<1>2. FlagsOK
  BY DEF Init, FlagsOK
<1>3. TypeOK
  BY <1>1, <1>2 DEF Init, TypeOK, Answer
<1>4. SplitterInv
  BY DEF Init, SplitterInv, RouteOf
<1>5. ArbiterInv
  BY DEF Init, ArbiterInv
<1>6. InOnePlace
  BY DEF Init, InOnePlace, RouteOf, Nowhere, AtSlave, InBuffer
<1>7. NoStrandedBuffer
  BY DEF Init, NoStrandedBuffer
<1> QED
  BY <1>3, <1>4, <1>5, <1>6, <1>7 DEF IInv, XInv

LEMMA NextInv == IInv /\ [Next]_vars => IInv'
<1> SUFFICES ASSUME IInv, [Next]_vars PROVE IInv'
  OBVIOUS
<1>1. CASE Next
  BY <1>1, TypeStep, SplitterInvStep, ArbiterInvStep, InOnePlaceStep, StrandedStep
     DEF IInv, XInv
<1>2. CASE UNCHANGED vars
  <2>1. TypeOK'
    BY <1>2 DEF IInv, TypeOK, FlagsOK, vars, wires, registers
  <2>2. SplitterInv' /\ ArbiterInv'
    BY <1>2 DEF IInv, XInv, SplitterInv, ArbiterInv, RouteOf, vars, wires, registers
  <2>3. InOnePlace' /\ NoStrandedBuffer'
    BY <1>2 DEF IInv, XInv, InOnePlace, NoStrandedBuffer, RouteOf, AtSlave,
                InBuffer, Nowhere, vars, wires, registers
  <2> QED
    BY <2>1, <2>2, <2>3 DEF IInv, XInv
<1> QED
  BY <1>1, <1>2

LEMMA Invariant == Spec => []IInv
BY InitInv, NextInv, PTL DEF Spec

(* Every register of the crossbar keeps its range; a grant is one-hot.     *)
THEOREM TypeCorrect == Spec => []TypeOK
<1>1. IInv => TypeOK
  BY DEF IInv
<1> QED
  BY <1>1, Invariant, PTL

(* ahbl_arbiter.v: no address phase is lost, doubled or misrouted, for any *)
(* number of masters and slaves and any order of answers.                  *)
THEOREM Placed == Spec => []InOnePlace
<1>1. IInv => InOnePlace
  BY DEF IInv, XInv
<1> QED
  BY <1>1, Invariant, PTL

(* ahbl_arbiter.v:186: a buffered phase never waits for nobody.            *)
THEOREM NeverStranded == Spec => []NoStrandedBuffer
<1>1. IInv => NoStrandedBuffer
  BY DEF IInv, XInv
<1> QED
  BY <1>1, Invariant, PTL

(* ahbl_arbiter.v:186, ahbl_splitter.v:180: the hready a slave in data     *)
(* phase sees is its own.                                                  *)
THEOREM OwnReady == Spec => []SlaveSeesBus
<1>1. ASSUME IInv PROVE SlaveSeesBus
  <2> SUFFICES ASSUME NEW j \in Slave, sxfer[j] # Idle
               PROVE  Rdy(j) <=> dst_hready_resp(j)
    BY DEF SlaveSeesBus, Rdy
  <2>1. PICK m \in Master : mast_gnt_d[j] = m
    BY <1>1 DEF IInv, XInv, ArbiterInv, TypeOK
  <2>2. Rdy(j) <=> src_hready(m)
    BY <1>1, <2>1, HolderReady DEF IInv
  <2>3. src_hready(m) <=> dst_hready_resp(j)
    BY <1>1, <2>1, HolderReady, ReadyIf DEF IInv
  <2> QED
    BY <2>2, <2>3
<1> QED
  BY <1>1, Invariant, PTL

(* ahbl_splitter.v:180: what a master is told about its transfer is what   *)
(* the slave says of that transfer.                                        *)
THEOREM AnsweredByItsSlave == Spec => []TrueAnswer
<1>1. ASSUME IInv PROVE TrueAnswer
  <2> SUFFICES ASSUME NEW m \in Master, mxfer[m] # Idle, src_hready(m)
               PROVE  IF Route[mxfer[m]] = NoSlave THEN err_ph1[m]
                      ELSE /\ sxfer[Route[mxfer[m]]] = mxfer[m]
                           /\ dst_hready_resp(Route[mxfer[m]])
    BY DEF TrueAnswer
  <2>1. RouteOf(mxfer[m]) = Route[mxfer[m]] /\ Route[mxfer[m]] \in Slave \cup {NoSlave}
    BY <1>1, CrossbarAssumption DEF RouteOf, IInv, TypeOK
  <2>2. CASE Route[mxfer[m]] = NoSlave
    BY <1>1, <2>1, <2>2 DEF IInv, XInv, SplitterInv, src_hready
  <2>3. CASE Route[mxfer[m]] # NoSlave
    BY <1>1, <2>1, <2>3, ReadyIf DEF IInv, AtSlave
  <2> QED
    BY <2>2, <2>3
<1> QED
  BY <1>1, Invariant, PTL
=============================================================================
