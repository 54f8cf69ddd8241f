----------------------------- MODULE MCUartInit -----------------------------
(***************************************************************************)
(* The real sizes of the PIOs for TLC: four state machines, 32             *)
(* instructions, programs of 8 (uart_rx.pio), 9 (uart_tx.pio) and 7        *)
(* (dmx.pio) instructions.                                                 *)
(***************************************************************************)
EXTENDS UartInit, TLC

RealSizes == [rx |-> 8, tx |-> 9, dmx |-> 7]

AllAlike == Permutations(Buses)
=============================================================================
