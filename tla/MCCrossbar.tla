----------------------------- MODULE MCCrossbar -----------------------------
(***************************************************************************)
(* The crossbar of example_soc-dual.v for TLC: two masters, the memory and *)
(* the APB bridge.  Of the transfers a and b go to the memory, io goes to  *)
(* the bridge and bad to no slave.                                         *)
(***************************************************************************)
EXTENDS Crossbar

CONSTANTS a, b, io, bad, Bridge

RouteMC ==
  [t \in Xfer |-> IF t = io THEN Bridge ELSE IF t = bad THEN NoSlave ELSE Mem]
=============================================================================
