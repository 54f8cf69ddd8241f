--------------------------- MODULE MCModbusCodec ---------------------------
(***************************************************************************)
(* A small instance of the codec for TLC.                                  *)
(***************************************************************************)
EXTENDS ModbusCodec

(* Every byte there is, high and low, so that the whole CRC table is used. *)
EveryByte == {Word(b, 255 - b) : b \in Byte}
=============================================================================
