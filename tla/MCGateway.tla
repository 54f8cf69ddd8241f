------------------------------ MODULE MCGateway ------------------------------
(***************************************************************************)
(* Small instances of the gateway for TLC: the devices a bus reads and the *)
(* commands the ESP sends.                                                 *)
(***************************************************************************)
EXTENDS Gateway

Register(s) == [slave |-> s, function |-> "read_holding", address |-> "wide"]
Coils(s, a) == [slave |-> s, function |-> "read_coils", address |-> a]
Output(s) == [slave |-> s, function |-> "write_holding", address |-> "wide"]

(* Two registers of two slaves on one bus.                                 *)
RegisterReads == [b \in Buses |-> <<Register("s1"), Register("s2")>>]
(* A register and a byte of coils.                                         *)
MixedReads ==
  [b \in Buses |-> <<Register("s1"), Coils("s1", "narrow")>>]
OneRead == [b \in Buses |-> <<Register("s1")>>]

(* A write, and one with the function code of a read.                      *)
ValidAndInvalidWrite ==
  {[type |-> "write", bus |-> b, device |-> device] :
     b \in Buses, device \in {Output("s1"), Register("s1")}}
NoCommands == {}
=============================================================================
