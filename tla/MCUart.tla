------------------------------- MODULE MCUart -------------------------------
(***************************************************************************)
(* The UART for TLC: every character of NBITS bits, and transfers that     *)
(* write it, read it, or address no device.                                *)
(***************************************************************************)
EXTENDS Uart

Writes == {[dev |-> Dev, write |-> TRUE, data |-> c] : c \in Char}
Reads  == {[dev |-> Dev, write |-> FALSE, data |-> Zero]}
Stray  == {[dev |-> NoDevice, write |-> w, data |-> Zero] : w \in BOOLEAN}

TransferMC == Writes \cup Reads \cup Stray
=============================================================================
