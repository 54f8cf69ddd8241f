------------------------------- MODULE MCDmx -------------------------------
(***************************************************************************)
(* A small instance of the DMX output for TLC: the packet is longer than   *)
(* the FIFO, as 13 slots are to 8, and the tick counter wraps within a few *)
(* deadlines.                                                              *)
(***************************************************************************)
EXTENDS Dmx
=============================================================================
