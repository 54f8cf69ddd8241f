----------------------------- MODULE PioUartRx -----------------------------
(***************************************************************************)
(* The receive side of the PIO UARTs (src/uart.c, src/pio/uart_rx.pio).    *)
(* The state machine of a UART collects bytes into its FIFO; the interrupt *)
(* handler moves them to the stream buffer; the bus task flushes both      *)
(* before it sends a request and reads until it has an answer or gives up; *)
(* the maintenance task reports that a stream buffer was full.             *)
(*                                                                         *)
(* Tasks and handler run on one core: the handler may interrupt a task     *)
(* anywhere, but no task runs before it returns.  When it comes is left    *)
(* open: the handlers of the transmit side and critical sections delay it. *)
(***************************************************************************)
EXTENDS Naturals, Sequences

CONSTANTS
  Count,       \* active_pio_uarts has this many entries
  BufferSize,  \* UART_BUFFER_SIZE
  FifoDepth,   \* the joined RX FIFO of a state machine: 8
  MaxBytes     \* bound: bytes that come on each line

ASSUME PioUartRxAssumption ==
  /\ Count \in Nat /\ BufferSize \in Nat
  /\ FifoDepth \in Nat \ {0}
  /\ MaxBytes \in [1 .. Count -> Nat]

Uarts == 1 .. Count

VARIABLES
  fifo,         \* RX FIFO of the state machine; a byte is its number on the line
  input,        \* the byte its "push" waits with while the FIFO is full
  rx_buffer,    \* the stream buffer
  rx_buffer_overrun,
  isr,          \* the UART the handler is at, 0 when it does not run
  reader,       \* where the bus task is
  maintenance,  \* where the maintenance task is
  arrived,      \* bytes that came on the line so far
  last,         \* the last byte the bus task read
  mark,         \* history: arrived, when the flush in hand was called
  held,         \* history: the byte its state machine was stalled with then, or 0
  lost          \* history: a byte found the buffer full, and no warning came since

lineVars == <<input, arrived>>
readVars == <<reader, last, mark, held>>
vars == <<lineVars, readVars, fifo, rx_buffer, rx_buffer_overrun, isr, maintenance, lost>>

LineOK ==
  /\ fifo \in [Uarts -> Seq(Nat)]
  /\ input \in [Uarts -> Seq(Nat)]
  /\ rx_buffer \in [Uarts -> Seq(Nat)]
  /\ \A u \in Uarts : /\ Len(fifo[u]) <= FifoDepth
                      /\ Len(input[u]) <= 1
                      /\ Len(rx_buffer[u]) <= BufferSize
  /\ arrived \in [Uarts -> Nat]

ControlOK ==
  /\ rx_buffer_overrun \in [Uarts -> BOOLEAN]
  /\ isr \in 0 .. Count + 1
  /\ reader \in [Uarts -> {"away", "drain", "reset", "read"}]
  /\ maintenance \in [at : 1 .. Count + 1, step : {"check", "clear", "warn"}]
  /\ last \in [Uarts -> Nat]
  /\ mark \in [Uarts -> Nat]
  /\ held \in [Uarts -> Nat]
  /\ lost \in [Uarts -> BOOLEAN]

(* Every variable holds a value of its type, and nothing overflows.        *)
TypeOK == LineOK /\ ControlOK

NewPass == [at |-> 1, step |-> "check"]

Init ==
  /\ fifo = [u \in Uarts |-> <<>>]
  /\ input = [u \in Uarts |-> <<>>]
  /\ rx_buffer = [u \in Uarts |-> <<>>]
  /\ rx_buffer_overrun = [u \in Uarts |-> FALSE]
  /\ isr = 0
  /\ reader = [u \in Uarts |-> "away"]
  /\ maintenance = NewPass
  /\ arrived = [u \in Uarts |-> 0]
  /\ last = [u \in Uarts |-> 0]
  /\ mark = [u \in Uarts |-> 0]
  /\ held = [u \in Uarts |-> 0]
  /\ lost = [u \in Uarts |-> FALSE]

(***************************************************************************)
(* The state machine.  "push" blocks on a full FIFO.                       *)
(***************************************************************************)
FifoRoom(u) == Len(fifo[u]) < FifoDepth
Stalled(u) == input[u] # <<>>
Comes(u) ==
  /\ arrived[u] < MaxBytes[u]
  /\ arrived' = [arrived EXCEPT ![u] = @ + 1]

ReceiveAnyway(u) ==  \* mutant: a byte overtakes the one that waits
  /\ Comes(u)
  /\ IF FifoRoom(u)
     THEN fifo' = [fifo EXCEPT ![u] = Append(@, arrived[u] + 1)] /\ UNCHANGED input
     ELSE input' = [input EXCEPT ![u] = <<arrived[u] + 1>>] /\ UNCHANGED fifo
  /\ UNCHANGED <<readVars, rx_buffer, rx_buffer_overrun, isr, maintenance, lost>>

ReceiveByte(u) ==
  /\ ~ Stalled(u)
  /\ Comes(u)
  /\ IF FifoRoom(u)
     THEN fifo' = [fifo EXCEPT ![u] = Append(@, arrived[u] + 1)] /\ UNCHANGED input
     ELSE input' = [input EXCEPT ![u] = <<arrived[u] + 1>>] /\ UNCHANGED fifo
  /\ UNCHANGED <<readVars, rx_buffer, rx_buffer_overrun, isr, maintenance, lost>>

(* A byte without a stop bit is ignored, and a stalled machine is deaf.    *)
MissByte(u) ==
  /\ Comes(u)
  /\ UNCHANGED <<readVars, input, fifo, rx_buffer, rx_buffer_overrun, isr, maintenance,
                 lost>>

PushByte(u) ==
  /\ Stalled(u)
  /\ FifoRoom(u)
  /\ fifo' = [fifo EXCEPT ![u] = Append(@, input[u][1])]
  /\ input' = [input EXCEPT ![u] = <<>>]
  /\ UNCHANGED <<readVars, arrived, rx_buffer, rx_buffer_overrun, isr, maintenance, lost>>

SmStep(u) == ReceiveByte(u) \/ MissByte(u) \/ PushByte(u)

(***************************************************************************)
(* The interrupt handler, pio_uart_rx_isr: visits all active UARTs.        *)
(***************************************************************************)
EnterIsr ==
  /\ isr = 0
  /\ \E u \in Uarts : fifo[u] # <<>>
  /\ isr' = 1
  /\ UNCHANGED <<lineVars, readVars, fifo, rx_buffer, rx_buffer_overrun, maintenance, lost>>

FlagAfresh(u, failed) ==  \* mutant: "=" in place of "|="
  rx_buffer_overrun' = [rx_buffer_overrun EXCEPT ![u] = failed]
Flag(u, failed) ==
  rx_buffer_overrun' = [rx_buffer_overrun EXCEPT ![u] = @ \/ failed]

BufferRoomLate(u) ==  \* mutant: off by one
  Len(rx_buffer[u]) <= BufferSize
BufferRoom(u) == Len(rx_buffer[u]) < BufferSize

(* xStreamBufferSendFromISR does not wait: without room the byte is gone.  *)
TakeByte(u) ==
  /\ isr = u
  /\ fifo[u] # <<>>
  /\ fifo' = [fifo EXCEPT ![u] = Tail(@)]
  /\ rx_buffer' = IF BufferRoom(u)
                  THEN [rx_buffer EXCEPT ![u] = Append(@, Head(fifo[u]))]
                  ELSE rx_buffer
  /\ Flag(u, ~ BufferRoom(u))
  /\ lost' = [lost EXCEPT ![u] = @ \/ ~ BufferRoom(u)]
  /\ UNCHANGED <<lineVars, readVars, isr, maintenance>>

PassOn(u) ==
  /\ isr = u
  /\ fifo[u] = <<>>
  /\ isr' = u + 1
  /\ UNCHANGED <<lineVars, readVars, fifo, rx_buffer, rx_buffer_overrun, maintenance, lost>>

LeaveIsr ==
  /\ isr = Count + 1
  /\ isr' = 0
  /\ UNCHANGED <<lineVars, readVars, fifo, rx_buffer, rx_buffer_overrun, maintenance, lost>>

IsrStep == EnterIsr \/ LeaveIsr \/ \E u \in Uarts : TakeByte(u) \/ PassOn(u)

(***************************************************************************)
(* The bus task: pio_uart_rx_flush, then pio_uart_read_bytes one by one.   *)
(* The mutex of the flush is taken by nobody else.  It reads the FIFO and  *)
(* finds it empty in separate steps of the code; a handler in between      *)
(* leaves nothing to read, as if it had come before.                       *)
(***************************************************************************)
CoreFree == isr = 0

CallFlush(u) ==
  /\ CoreFree
  /\ reader[u] = "away"
  /\ reader' = [reader EXCEPT ![u] = "drain"]
  /\ mark' = [mark EXCEPT ![u] = arrived[u]]
  /\ held' = [held EXCEPT ![u] = IF Stalled(u) THEN input[u][1] ELSE 0]
  /\ UNCHANGED <<lineVars, last, fifo, rx_buffer, rx_buffer_overrun, isr, maintenance, lost>>

DrainByte(u) ==
  /\ CoreFree
  /\ reader[u] = "drain"
  /\ fifo[u] # <<>>
  /\ fifo' = [fifo EXCEPT ![u] = Tail(@)]
  /\ UNCHANGED <<lineVars, readVars, rx_buffer, rx_buffer_overrun, isr, maintenance, lost>>

StopUnchecked(u) ==  \* mutant: the FIFO is not drained to its end
  /\ CoreFree
  /\ reader[u] = "drain"
  /\ reader' = [reader EXCEPT ![u] = "reset"]
  /\ UNCHANGED <<lineVars, last, mark, held, fifo, rx_buffer, rx_buffer_overrun, isr,
                 maintenance, lost>>

StopDraining(u) ==
  /\ CoreFree
  /\ reader[u] = "drain"
  /\ fifo[u] = <<>>
  /\ reader' = [reader EXCEPT ![u] = "reset"]
  /\ UNCHANGED <<lineVars, last, mark, held, fifo, rx_buffer, rx_buffer_overrun, isr,
                 maintenance, lost>>

ResetBuffer(u) ==
  /\ CoreFree
  /\ reader[u] = "reset"
  /\ rx_buffer' = [rx_buffer EXCEPT ![u] = <<>>]
  /\ reader' = [reader EXCEPT ![u] = "read"]
  /\ UNCHANGED <<lineVars, last, mark, held, fifo, rx_buffer_overrun, isr, maintenance, lost>>

ReadByte(u) ==
  /\ CoreFree
  /\ reader[u] = "read"
  /\ rx_buffer[u] # <<>>
  /\ last' = [last EXCEPT ![u] = Head(rx_buffer[u])]
  /\ rx_buffer' = [rx_buffer EXCEPT ![u] = Tail(@)]
  /\ UNCHANGED <<lineVars, reader, mark, held, fifo, rx_buffer_overrun, isr, maintenance,
                 lost>>

(* The frame is complete or wrong, or its time is over.                    *)
StopReading(u) ==
  /\ CoreFree
  /\ reader[u] = "read"
  /\ reader' = [reader EXCEPT ![u] = "away"]
  /\ UNCHANGED <<lineVars, last, mark, held, fifo, rx_buffer, rx_buffer_overrun, isr,
                 maintenance, lost>>

ReaderStep(u) ==
  \/ CallFlush(u) \/ DrainByte(u) \/ StopDraining(u) \/ ResetBuffer(u)
  \/ ReadByte(u) \/ StopReading(u)

(***************************************************************************)
(* The maintenance task: check_overrun for each active UART.               *)
(***************************************************************************)
Maintains(u, step) == CoreFree /\ maintenance = [at |-> u, step |-> step]
Proceed(u, step) == maintenance' = [at |-> u, step |-> step]

CheckOverrun(u) ==
  /\ Maintains(u, "check")
  /\ IF rx_buffer_overrun[u] THEN Proceed(u, "clear") ELSE Proceed(u + 1, "check")
  /\ UNCHANGED <<lineVars, readVars, fifo, rx_buffer, rx_buffer_overrun, isr, lost>>

ClearOverrun(u) ==
  /\ Maintains(u, "clear")
  /\ rx_buffer_overrun' = [rx_buffer_overrun EXCEPT ![u] = FALSE]
  /\ Proceed(u, "warn")
  /\ UNCHANGED <<lineVars, readVars, fifo, rx_buffer, isr, lost>>

WarnOverrun(u) ==
  /\ Maintains(u, "warn")
  /\ lost' = [lost EXCEPT ![u] = FALSE]
  /\ Proceed(u + 1, "check")
  /\ UNCHANGED <<lineVars, readVars, fifo, rx_buffer, rx_buffer_overrun, isr>>

(* The pass is over; the next one comes 25 ms later.                       *)
Rest ==
  /\ CoreFree
  /\ maintenance.at = Count + 1
  /\ maintenance' = NewPass
  /\ UNCHANGED <<lineVars, readVars, fifo, rx_buffer, rx_buffer_overrun, isr, lost>>

MaintenanceStep ==
  Rest \/ \E u \in Uarts : CheckOverrun(u) \/ ClearOverrun(u) \/ WarnOverrun(u)

Next == IsrStep \/ MaintenanceStep \/ \E u \in Uarts : SmStep(u) \/ ReaderStep(u)

(* A pending interrupt is taken and its handler returns.  The maintenance  *)
(* task has the lowest priority, but bus tasks sleep while they wait for   *)
(* an answer, and handlers move what has come: it gets on in the end.      *)
Fairness == WF_vars(IsrStep) /\ SF_vars(MaintenanceStep)

Spec == Init /\ [][Next]_vars
FairSpec == Spec /\ Fairness

(***************************************************************************)
(* Properties.                                                             *)
(***************************************************************************)

(* "Flush any remaining byte in the UART RX buffer" (bus.c:32): what is    *)
(* read after a flush came after the flush was called, wherever handler,   *)
(* FIFO and buffer were.  The one exception is the single byte a stalled   *)
(* state machine holds, which no flush can reach.                          *)
FreshAfterFlush ==
  [][\A u \in Uarts : last'[u] \notin {last[u], held[u]} => last'[u] > mark[u]]_vars

(* The bus task reads the bytes in the order they came, each once, however *)
(* many are missed, dropped or flushed in between.                         *)
ReadsInOrder == [][\A u \in Uarts : last'[u] # last[u] => last'[u] > last[u]]_vars

(* A full stream buffer drops bytes but not silently: the maintenance task *)
(* warns in the end, though it clears the flag the handler sets            *)
(* (uart.c:379-386 against 272-273).                                       *)
LossReported == \A u \in Uarts : lost[u] ~> ~ lost[u]
=============================================================================
