------------------------------ MODULE MCHostRx ------------------------------
(***************************************************************************)
(* HostRx for TLC: a FIFO and a stream buffer that fill up, and one more   *)
(* UART that shares uart_activity.                                         *)
(***************************************************************************)
EXTENDS HostRx
=============================================================================
