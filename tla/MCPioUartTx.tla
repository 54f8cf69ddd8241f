---------------------------- MODULE MCPioUartTx ----------------------------
(***************************************************************************)
(* Small instances of the PIO UARTs for TLC.                               *)
(***************************************************************************)
EXTENDS PioUartTx

(* What the task of each UART writes: the first fills its buffer, the      *)
(* byte of the second brings interrupts that disturb the first.            *)
One == <<4>>
FirstMore == <<4, 1>>
=============================================================================
