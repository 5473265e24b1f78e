------------------------------ MODULE MCAhbMem ------------------------------
(***************************************************************************)
(* Instances of AhbMem for TLC.                                            *)
(***************************************************************************)
EXTENDS AhbMem

(* Tag 2 is tag 0 plus the size of the memory: both name frame 0.          *)
FrameMC == [t \in Tag |-> t % 2]

Plain     == {t \in ReadXfer \cup WriteXfer : ~t.excl}
AllXfers  == ReadXfer \cup WriteXfer
=============================================================================
