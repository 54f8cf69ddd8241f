------------------------------ MODULE ByteLine ------------------------------
(***************************************************************************)
(* What the transmit side of the UARTs promises, whatever buffers, FIFOs   *)
(* and interrupts are inside: the bytes written to a UART leave on its     *)
(* line in the order they were written, each of them once.  Bytes are      *)
(* numbered in the order they are written, so the line of a UART carries   *)
(* byte 1, then byte 2, and so on.                                         *)
(***************************************************************************)
EXTENDS Naturals

CONSTANTS
  Lines,    \* the lines
  Bursts    \* how many bytes one call may write

VARIABLES
  written,  \* written[l]: the bytes accepted for line l
  sent      \* sent[l]: the number of the last byte line l has carried

lineVars == <<written, sent>>

Init ==
  /\ written = [l \in Lines |-> 0]
  /\ sent = [l \in Lines |-> 0]

(* Bytes are accepted for line l.                                          *)
Accept(l) ==
  /\ \E n \in Bursts : written' = [written EXCEPT ![l] = @ + n]
  /\ UNCHANGED sent

(* The next byte leaves.                                                   *)
Carry(l) ==
  /\ sent[l] < written[l]
  /\ sent' = [sent EXCEPT ![l] = @ + 1]
  /\ UNCHANGED written

Next == \E l \in Lines : Accept(l) \/ Carry(l)

Spec == Init /\ [][Next]_lineVars
=============================================================================
