----------------------------- MODULE PioUartTx -----------------------------
(***************************************************************************)
(* The transmit side of the PIO UARTs (src/uart.c, src/pio/uart_tx.pio).   *)
(* A bus task writes a frame into the stream buffer of its UART and        *)
(* enables the "FIFO not full" interrupt of its state machine; the         *)
(* interrupt handler moves bytes from the stream buffers to the FIFOs and  *)
(* disables the interrupt of a UART whose buffer is empty; the state       *)
(* machine shifts the bytes out and raises its "done" interrupt.           *)
(*                                                                         *)
(* Tasks and handlers run on one core: a handler may interrupt a task      *)
(* anywhere, but no task runs before the handler returns, and the handlers *)
(* do not nest.  The state machines run on their own.                      *)
(***************************************************************************)
EXTENDS Naturals, Sequences

CONSTANTS
  Count,       \* active_pio_uarts has this many entries
  BufferSize,  \* UART_BUFFER_SIZE
  FifoDepth,   \* the joined TX FIFO of a state machine: 8
  FrameSizes,  \* sizes of the frames the bus tasks write
  MaxBytes     \* bound: bytes written to each UART

(* BUS_MODBUS_FRAME_BUFFER_SIZE is less than UART_BUFFER_SIZE.             *)
ASSUME PioUartTxAssumption ==
  /\ Count \in Nat /\ BufferSize \in Nat
  /\ FifoDepth \in Nat \ {0}
  /\ FrameSizes \subseteq 1 .. BufferSize
  /\ MaxBytes \in [1 .. Count -> Nat]

Uarts == 1 .. Count

VARIABLES
  writer,       \* where the task is inside pio_uart_write_bytes_blocking
  frame_size,   \* the size of the frame it writes
  tx_buffer,    \* the stream buffer; a byte is its number since the start
  tx_done,
  irq_enabled,  \* the FIFO interrupt of the UART is enabled
  fifo,         \* TX FIFO of the state machine
  osr,          \* the byte it shifts out, if any
  sm_irq,       \* its irq flag
  isr,          \* the handler that runs, and where it is
  written,      \* bytes written so far
  sent          \* the last byte shifted out

taskVars == <<writer, frame_size, written>>
smVars == <<osr, sent>>
vars == <<taskVars, smVars, tx_buffer, tx_done, irq_enabled, fifo, sm_irq, isr>>

NoIsr == [handler |-> "none", at |-> 1, step |-> "check"]

ControlOK ==
  /\ writer \in [Uarts -> {"idle", "send", "mark", "enable"}]
  /\ frame_size \in [Uarts -> Nat]
  /\ tx_done \in [Uarts -> BOOLEAN]
  /\ irq_enabled \in [Uarts -> BOOLEAN]
  /\ sm_irq \in [Uarts -> BOOLEAN]
  /\ isr \in [handler : {"none", "fifo", "done"}, at : 1 .. Count + 1,
              step : {"check", "pump", "disable", "clear"}]

BytesOK ==
  /\ tx_buffer \in [Uarts -> Seq(Nat)]
  /\ fifo \in [Uarts -> Seq(Nat)]
  /\ osr \in [Uarts -> Seq(Nat)]
  /\ \A u \in Uarts : /\ Len(tx_buffer[u]) <= BufferSize
                      /\ Len(fifo[u]) <= FifoDepth
                      /\ Len(osr[u]) <= 1
  /\ written \in [Uarts -> Nat]
  /\ sent \in [Uarts -> Nat]

(* Every variable holds a value of its type, and nothing overflows.        *)
TypeOK == ControlOK /\ BytesOK

Init ==
  /\ writer = [u \in Uarts |-> "idle"]
  /\ frame_size = [u \in Uarts |-> 0]
  /\ tx_buffer = [u \in Uarts |-> <<>>]
  /\ tx_done = [u \in Uarts |-> TRUE]
  /\ irq_enabled = [u \in Uarts |-> FALSE]
  /\ fifo = [u \in Uarts |-> <<>>]
  /\ osr = [u \in Uarts |-> <<>>]
  /\ sm_irq = [u \in Uarts |-> FALSE]
  /\ isr = NoIsr
  /\ written = [u \in Uarts |-> 0]
  /\ sent = [u \in Uarts |-> 0]

(***************************************************************************)
(* The bus task: pio_uart_write_bytes_blocking.                            *)
(***************************************************************************)
AnyCore == TRUE  \* mutant: the tasks run on another core than the handlers
CoreFree == isr.handler = "none"

CallWrite(u) ==
  /\ CoreFree
  /\ writer[u] = "idle"
  /\ \E n \in FrameSizes :
       /\ written[u] + n <= MaxBytes[u]
       /\ frame_size' = [frame_size EXCEPT ![u] = n]
  /\ writer' = [writer EXCEPT ![u] = "send"]
  /\ UNCHANGED <<smVars, tx_buffer, tx_done, irq_enabled, fifo, sm_irq, isr, written>>

HasSpace(u) ==  \* mutant: waits for space for one byte, not for the frame
  Len(tx_buffer[u]) < BufferSize
FitsFrame(u) == Len(tx_buffer[u]) + frame_size[u] <= BufferSize

(* n bytes are numbered on.                                                *)
Numbers(from, n) == [k \in 1 .. n |-> from + k]

(* xStreamBufferSend with portMAX_DELAY waits for space for all of it.     *)
SendFrame(u) ==
  /\ CoreFree
  /\ writer[u] = "send"
  /\ FitsFrame(u)
  /\ tx_buffer' = [tx_buffer EXCEPT ![u] =
       @ \o Numbers(written[u], frame_size[u])]
  /\ written' = [written EXCEPT ![u] = @ + frame_size[u]]
  /\ writer' = [writer EXCEPT ![u] = "mark"]
  /\ UNCHANGED <<smVars, frame_size, tx_done, irq_enabled, fifo, sm_irq, isr>>

MarkBusy(u) ==
  /\ CoreFree
  /\ writer[u] = "mark"
  /\ tx_done' = [tx_done EXCEPT ![u] = FALSE]
  /\ writer' = [writer EXCEPT ![u] = "enable"]
  /\ UNCHANGED <<smVars, frame_size, tx_buffer, irq_enabled, fifo, sm_irq, isr, written>>

EnableIrq(u) ==
  /\ CoreFree
  /\ writer[u] = "enable"
  /\ irq_enabled' = [irq_enabled EXCEPT ![u] = TRUE]
  /\ writer' = [writer EXCEPT ![u] = "idle"]
  /\ UNCHANGED <<smVars, frame_size, tx_buffer, tx_done, fifo, sm_irq, isr, written>>

WriterStep(u) == SendFrame(u) \/ MarkBusy(u) \/ EnableIrq(u)

(***************************************************************************)
(* The interrupt handlers.  Each visits all active UARTs.                  *)
(***************************************************************************)
Writable(u) == Len(fifo[u]) < FifoDepth
Goto(u, step) == isr' = [isr EXCEPT !.at = u, !.step = step]
At(handler, u, step) == isr = [handler |-> handler, at |-> u, step |-> step]

EnterFifoIsr ==
  /\ isr.handler = "none"
  /\ \E u \in Uarts : irq_enabled[u] /\ Writable(u)
  /\ isr' = [NoIsr EXCEPT !.handler = "fifo"]
  /\ UNCHANGED <<taskVars, smVars, tx_buffer, tx_done, irq_enabled, fifo, sm_irq>>

EnterDoneIsr ==
  /\ isr.handler = "none"
  /\ \E u \in Uarts : sm_irq[u]
  /\ isr' = [NoIsr EXCEPT !.handler = "done"]
  /\ UNCHANGED <<taskVars, smVars, tx_buffer, tx_done, irq_enabled, fifo, sm_irq>>

LeaveIsr ==
  /\ isr.handler # "none"
  /\ isr.at = Count + 1
  /\ isr' = NoIsr
  /\ UNCHANGED <<taskVars, smVars, tx_buffer, tx_done, irq_enabled, fifo, sm_irq>>

(* pio_uart_tx_fifo_isr: a UART whose FIFO is full is passed over.         *)
CheckFifo(u) ==
  /\ At("fifo", u, "check")
  /\ IF Writable(u) THEN Goto(u, "pump") ELSE Goto(u + 1, "check")
  /\ UNCHANGED <<taskVars, smVars, tx_buffer, tx_done, irq_enabled, fifo, sm_irq>>

(* pio_sm_put into a full FIFO loses the byte.                             *)
Put(u, byte) ==
  fifo' = IF Writable(u) THEN [fifo EXCEPT ![u] = Append(@, byte)] ELSE fifo

MovesUnchecked(u) ==  \* mutant: only the first byte of the loop is checked
  tx_buffer[u] # <<>>
Moves(u) == Writable(u) /\ tx_buffer[u] # <<>>

MoveByte(u) ==
  /\ At("fifo", u, "pump")
  /\ Moves(u)
  /\ Put(u, Head(tx_buffer[u]))
  /\ tx_buffer' = [tx_buffer EXCEPT ![u] = Tail(@)]
  /\ UNCHANGED <<taskVars, smVars, tx_done, irq_enabled, sm_irq, isr>>

StopMovingAlways(u) ==  \* mutant: the interrupt is disabled when the FIFO is full
  /\ At("fifo", u, "pump")
  /\ ~ Moves(u)
  /\ Goto(u, "disable")
  /\ UNCHANGED <<taskVars, smVars, tx_buffer, tx_done, irq_enabled, fifo, sm_irq>>

StopMoving(u) ==
  /\ At("fifo", u, "pump")
  /\ ~ Moves(u)
  /\ IF tx_buffer[u] = <<>> THEN Goto(u, "disable") ELSE Goto(u + 1, "check")
  /\ UNCHANGED <<taskVars, smVars, tx_buffer, tx_done, irq_enabled, fifo, sm_irq>>

DisableIrq(u) ==
  /\ At("fifo", u, "disable")
  /\ irq_enabled' = [irq_enabled EXCEPT ![u] = FALSE]
  /\ Goto(u + 1, "check")
  /\ UNCHANGED <<taskVars, smVars, tx_buffer, tx_done, fifo, sm_irq>>

(* pio_uart_tx_done_isr: a UART whose flag is not set is passed over.      *)
CheckDone(u) ==
  /\ At("done", u, "check")
  /\ IF sm_irq[u] THEN tx_done' = [tx_done EXCEPT ![u] = TRUE] /\ Goto(u, "clear")
     ELSE UNCHANGED tx_done /\ Goto(u + 1, "check")
  /\ UNCHANGED <<taskVars, smVars, tx_buffer, irq_enabled, fifo, sm_irq>>

ClearDone(u) ==
  /\ At("done", u, "clear")
  /\ sm_irq' = [sm_irq EXCEPT ![u] = FALSE]
  /\ Goto(u + 1, "check")
  /\ UNCHANGED <<taskVars, smVars, tx_buffer, tx_done, irq_enabled, fifo>>

IsrStep ==
  \/ EnterFifoIsr \/ EnterDoneIsr \/ LeaveIsr
  \/ \E u \in Uarts :
       \/ CheckFifo(u) \/ MoveByte(u) \/ StopMoving(u) \/ DisableIrq(u)
       \/ CheckDone(u) \/ ClearDone(u)

(***************************************************************************)
(* The state machine.  Eight shifts empty the OSR: "jmp !osre start" is    *)
(* never taken and the irq flag is raised after every byte.                *)
(***************************************************************************)
PullByte(u) ==
  /\ osr[u] = <<>>
  /\ fifo[u] # <<>>
  /\ osr' = [osr EXCEPT ![u] = <<Head(fifo[u])>>]
  /\ fifo' = [fifo EXCEPT ![u] = Tail(@)]
  /\ UNCHANGED <<taskVars, sent, tx_buffer, tx_done, irq_enabled, sm_irq, isr>>

ShiftByte(u) ==
  /\ osr[u] # <<>>
  /\ sent' = [sent EXCEPT ![u] = osr[u][1]]
  /\ osr' = [osr EXCEPT ![u] = <<>>]
  /\ sm_irq' = [sm_irq EXCEPT ![u] = TRUE]
  /\ UNCHANGED <<taskVars, tx_buffer, tx_done, irq_enabled, fifo, isr>>

SmStep(u) == PullByte(u) \/ ShiftByte(u)

Next == IsrStep \/ \E u \in Uarts : CallWrite(u) \/ WriterStep(u) \/ SmStep(u)

(* The hardware runs: the state machines, and an interrupt that is pending *)
(* on an idle core is taken.  Interrupts take a part of the core's time    *)
(* only: a task that can go on again and again does so in the end.         *)
Fairness ==
  /\ WF_vars(IsrStep)
  /\ \A u \in Uarts : WF_vars(SmStep(u)) /\ SF_vars(WriterStep(u))

Spec == Init /\ [][Next]_vars
FairSpec == Spec /\ Fairness

(***************************************************************************)
(* Properties.                                                             *)
(***************************************************************************)

(* Bytes in the stream buffer are never left behind: the interrupt that    *)
(* will move them is enabled, or the task is about to enable it            *)
(* (uart.c:256-259 against 299-304).                                       *)
NotStranded ==
  \A u \in Uarts : tx_buffer[u] # <<>> =>
    irq_enabled[u] \/ writer[u] \in {"mark", "enable"}

(* The UARTs are lines that carry what is written to them in order         *)
(* (uart.h:118-122): ByteLine, which knows nothing of buffers, FIFOs and   *)
(* interrupts.                                                             *)
Line == INSTANCE ByteLine WITH Lines <- Uarts, Bursts <- FrameSizes
ImplementsLine == Line!Spec

(* ... and every byte written leaves in the end.                           *)
EveryByteLeaves == \A u \in Uarts : WF_Line!lineVars(Line!Carry(u))

(* A task that writes a frame comes back, also from a full buffer          *)
(* (uart.c:286).                                                           *)
WritersReturn == \A u \in Uarts : writer[u] # "idle" ~> writer[u] = "idle"

(* tx_done: "If the TX has no more data to send" (uart.h:33), outside the  *)
(* calls that write.                                                       *)
TxDoneMeansSent ==
  \A u \in Uarts : tx_done[u] /\ writer[u] = "idle" => sent[u] = written[u]
=============================================================================
