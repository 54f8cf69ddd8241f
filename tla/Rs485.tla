-------------------------------- MODULE Rs485 --------------------------------
(***************************************************************************)
(* EXTERNAL: the RS485 line of each bus with its Modbus slaves, and the    *)
(* receive path of the PIO UART up to rx_buffer.  A slave answers when it  *)
(* likes, once or never, also long after the gateway stopped waiting; what *)
(* it sends may be lost in part, but arrives in order.                     *)
(***************************************************************************)
EXTENDS Modbus, FiniteSets

CONSTANTS
  Buses,      \* the buses of the gateway, 0 .. COUNT_PIO_UARTS - 1
  MaxUnits    \* bound: units on the wire of a bus or received and not read

ASSUME Rs485Assumption == Buses \subseteq Nat /\ MaxUnits \in Nat

VARIABLES
  asked,      \* requests the slaves may still answer
  line,       \* units on the wire, not yet received
  rx_buffer   \* units received, the uart's rx_buffer and RX FIFO

lineVars == <<asked, line, rx_buffer>>

Request == [device : Device, fresh : BOOLEAN]

Rs485TypeOK ==
  /\ asked \in [Buses -> SUBSET Request]
  /\ line \in [Buses -> Seq(Unit)]
  /\ rx_buffer \in [Buses -> Seq(Unit)]

Rs485Init ==
  /\ asked = [b \in Buses |-> {}]
  /\ line = [b \in Buses |-> <<>>]
  /\ rx_buffer = [b \in Buses |-> <<>>]

(* A slave answers a request, with data or with an exception.              *)
Answer(b) ==
  /\ Len(line[b]) + Len(rx_buffer[b]) + 2 <= MaxUnits
  /\ \E request \in asked[b], data \in Answers,
        exception \in BOOLEAN :
       LET function == IF exception THEN "exception" ELSE request.device.function
       IN  /\ asked' = [asked EXCEPT ![b] = @ \ {request}]
           /\ line' = [line EXCEPT ![b] =
                @ \o ReplyUnits(request.device, function, data, request.fresh)]
  /\ UNCHANGED rx_buffer

(* A slave that is absent, or did not understand, never answers.           *)
Ignore(b) ==
  /\ \E request \in asked[b] : asked' = [asked EXCEPT ![b] = @ \ {request}]
  /\ UNCHANGED <<line, rx_buffer>>

(* Noise: a unit of a reply is not received.                               *)
Disturb(b) ==
  /\ line[b] # <<>>
  /\ line' = [line EXCEPT ![b] = Tail(@)]
  /\ UNCHANGED <<asked, rx_buffer>>

(* The state machine shifts a unit in and pio_uart_rx_isr stores it.       *)
Receive(b) ==
  /\ line[b] # <<>>
  /\ line' = [line EXCEPT ![b] = Tail(@)]
  /\ rx_buffer' = [rx_buffer EXCEPT ![b] = Append(@, Head(line[b]))]
  /\ UNCHANGED asked

LineStep(b) == Answer(b) \/ Ignore(b) \/ Disturb(b) \/ Receive(b)

(***************************************************************************)
(* What the bus task does to the line.                                     *)
(***************************************************************************)
Quiet(b) == asked[b] = {} /\ line[b] = <<>>

(* The slaves may have forgotten what they were asked before; they         *)
(* remember at most one earlier request.                                   *)
SendRequest(b, device) ==
  \E kept \in SUBSET asked[b] :
    /\ Cardinality(kept) <= 1
    /\ asked' = [asked EXCEPT ![b] =
         kept \cup {[device |-> device, fresh |-> TRUE]}]

(* Once a transaction is over, every answer still to come is late.         *)
Late(answer) == [answer EXCEPT !.fresh = FALSE]
AllLate(units) == [k \in 1 .. Len(units) |-> Late(units[k])]
Abandon(b, unread) ==
  /\ asked' = [asked EXCEPT ![b] = {Late(r) : r \in @}]
  /\ line' = [line EXCEPT ![b] = AllLate(@)]
  /\ rx_buffer' = [rx_buffer EXCEPT ![b] = AllLate(unread)]

(* The gateway forgets every transaction, and what it received.            *)
AbandonAll ==
  /\ asked' = [b \in Buses |-> {Late(r) : r \in asked[b]}]
  /\ line' = [b \in Buses |-> AllLate(line[b])]
  /\ rx_buffer' = [b \in Buses |-> <<>>]
=============================================================================
