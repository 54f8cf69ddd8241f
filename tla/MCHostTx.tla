------------------------------ MODULE MCHostTx ------------------------------
(***************************************************************************)
(* A small instance of the host UART for TLC: a frame that writes less     *)
(* than it asks for, one that writes all of it, and one that writes more,  *)
(* for it has a byte to stuff.                                             *)
(***************************************************************************)
EXTENDS HostTx

ShortAndLong ==
  {[room |-> 2, size |-> 1], [room |-> 3, size |-> 3], [room |-> 2, size |-> 3]}
=============================================================================
