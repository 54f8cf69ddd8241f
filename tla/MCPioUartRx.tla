---------------------------- MODULE MCPioUartRx ----------------------------
(***************************************************************************)
(* Small instances of the receive side for TLC.                            *)
(***************************************************************************)
EXTENDS PioUartRx

(* The first line has bytes enough to stall its state machine, the second  *)
(* one to keep the handler busy.                                           *)
FirstMore == <<3, 1>>
=============================================================================
