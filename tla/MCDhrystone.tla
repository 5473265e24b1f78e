---------------------------- MODULE MCDhrystone ----------------------------
(* An instance of Dhrystone: an 8-valued counter, passes of 1, 10 and 100  *)
(* turns, and memory that held a value no procedure leaves.                *)
EXTENDS Dhrystone

MCJunk == {-7}
=============================================================================
