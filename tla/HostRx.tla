------------------------------- MODULE HostRx -------------------------------
(***************************************************************************)
(* The receive side of the host UART, the maintenance task and the         *)
(* activity LED (src/uart.c, src/led.c).  The interrupt handler of the     *)
(* host UART, the host task, the task that transmits for it and the LED    *)
(* task run on core 0; the maintenance task runs on core 1.  They share    *)
(* flags without a lock, and a flag is or-ed by a load and a store: a step *)
(* of the model makes one access to a shared flag.                         *)
(*                                                                         *)
(* EXTERNAL: the hardware UART.  A byte that finds its FIFO full is lost   *)
(* and raises the overrun status, which stays until it is cleared; the     *)
(* code never clears it.  A value about to be stored is FALSE in between.  *)
(***************************************************************************)
EXTENDS Naturals

CONSTANTS
  Count,       \* PIO UARTs in active_pio_uarts
  BufferSize,  \* UART_BUFFER_SIZE
  FifoDepth,   \* RX FIFO of the hardware UART
  MaxBytes     \* bound: bytes that come from the ESP

ASSUME HostRxAssumption ==
  /\ Count \in Nat /\ BufferSize \in Nat
  /\ FifoDepth \in Nat \ {0} /\ MaxBytes \in Nat

(* The host UART is the only active hardware UART.                         *)
HostUart == 0
Uarts == HostUart .. Count

VARIABLES
  arrived,         \* bytes that came so far
  fifo,            \* number of bytes in the RX FIFO
  overrun_status,  \* the overrun bit of its raw interrupt status
  rx_buffer,       \* number of bytes in the stream buffer
  rx_buffer_overrun,
  isr,             \* where hw_uart_rx_isr is
  isr_flag,        \* the value it is about to store in rx_buffer_overrun
  tx,              \* whether task_hw_uart_tx is about to store in activity
  tx_flag,         \* ... this value
  activity,        \* of each UART
  uart_activity,
  maintenance,     \* where the maintenance task is
  gathered,        \* the value it is about to store in uart_activity
  led,             \* where the LED task is
  lost,            \* history: a byte was lost, and no warning came since
  due              \* history: UARTs that were active since a blink began

overrunVars == <<arrived, fifo, overrun_status, rx_buffer, rx_buffer_overrun,
                 isr_flag, lost>>
activityVars == <<tx, tx_flag, activity, uart_activity, gathered, due>>
vars == <<overrunVars, activityVars, isr, maintenance, led>>

(* Every variable holds a value of its type, and neither FIFO nor stream   *)
(* buffer overflows.                                                       *)
TypeOK ==
  /\ arrived \in Nat
  /\ fifo \in 0 .. FifoDepth /\ rx_buffer \in 0 .. BufferSize
  /\ isr \in {"off", "drain", "store", "status", "leave"}
  /\ tx \in {"away", "store"}
  /\ activity \in [Uarts -> BOOLEAN]
  /\ maintenance \in [at : Uarts,
                      step : {"check", "reset", "warn", "load", "or", "store", "clear"}]
  /\ maintenance.step \in {"check", "reset", "warn"} => maintenance.at = HostUart
  /\ led \in {"look", "clear", "light", "dark"}
  /\ due \subseteq Uarts
  /\ {overrun_status, rx_buffer_overrun, isr_flag, tx_flag, uart_activity,
      gathered, lost} \subseteq BOOLEAN

NewPass == [at |-> HostUart, step |-> "check"]

Init ==
  /\ arrived = 0 /\ fifo = 0 /\ rx_buffer = 0
  /\ overrun_status = FALSE /\ rx_buffer_overrun = FALSE
  /\ isr = "off" /\ isr_flag = FALSE
  /\ tx = "away" /\ tx_flag = FALSE
  /\ activity = [u \in Uarts |-> FALSE] /\ uart_activity = FALSE
  /\ maintenance = NewPass /\ gathered = FALSE
  /\ led = "look"
  /\ lost = FALSE /\ due = {}

(***************************************************************************)
(* Activity.  What raises the flag of a UART after its last reader has     *)
(* looked and before that one stores what it saw is overwritten.           *)
(***************************************************************************)
OverwrittenByMaintenance(u) ==
  /\ maintenance.at = u
  /\ \/ maintenance.step = "clear"
     \/ maintenance.step = "store" /\ ~ gathered
OverwrittenByTx(u) == u = HostUart /\ tx = "store" /\ ~ tx_flag
Overwritten(u) == OverwrittenByMaintenance(u) \/ OverwrittenByTx(u)

Raise(u) ==
  /\ activity' = [activity EXCEPT ![u] = TRUE]
  /\ due' = IF Overwritten(u) THEN due ELSE due \cup {u}
  /\ UNCHANGED <<uart_activity, gathered>>

(***************************************************************************)
(* The hardware UART.                                                      *)
(***************************************************************************)
Comes == arrived < MaxBytes /\ arrived' = arrived + 1

ReceiveByte ==
  /\ Comes
  /\ fifo < FifoDepth
  /\ fifo' = fifo + 1
  /\ UNCHANGED <<overrun_status, rx_buffer, rx_buffer_overrun, isr_flag, lost,
                 activityVars, isr, maintenance, led>>

OverrunFifo ==
  /\ Comes
  /\ fifo = FifoDepth
  /\ overrun_status' = TRUE
  /\ lost' = TRUE
  /\ UNCHANGED <<fifo, rx_buffer, rx_buffer_overrun, isr_flag,
                 activityVars, isr, maintenance, led>>

(***************************************************************************)
(* The interrupt handler, hw_uart_rx_isr.  It comes when the FIFO is full  *)
(* enough or the line has been quiet for a while.                          *)
(***************************************************************************)
Goto(pc) == isr' = pc /\ UNCHANGED <<maintenance, led>>

EnterIsr ==
  /\ isr = "off"
  /\ fifo > 0
  /\ Goto("drain")
  /\ UNCHANGED <<overrunVars, activityVars>>

OredFlag(failed) == isr_flag' = (rx_buffer_overrun \/ failed)

BufferOverfull == rx_buffer > BufferSize  \* mutant: off by one
BufferFull == rx_buffer = BufferSize

(* xStreamBufferSendFromISR does not wait: without room the byte is gone.  *)
TakeByte ==
  /\ isr = "drain"
  /\ fifo > 0
  /\ fifo' = fifo - 1
  /\ rx_buffer' = IF BufferFull THEN rx_buffer ELSE rx_buffer + 1
  /\ OredFlag(BufferFull)
  /\ lost' = (lost \/ BufferFull)
  /\ Goto("store")
  /\ UNCHANGED <<arrived, overrun_status, rx_buffer_overrun, activityVars>>

StoreFlag ==
  /\ isr = "store"
  /\ rx_buffer_overrun' = isr_flag /\ isr_flag' = FALSE
  /\ Goto("drain")
  /\ UNCHANGED <<arrived, fifo, overrun_status, rx_buffer, lost, activityVars>>

MarkActive ==
  /\ isr = "drain"
  /\ fifo = 0
  /\ Raise(HostUart)
  /\ Goto("status")
  /\ UNCHANGED <<overrunVars, tx, tx_flag>>

SkipStatus ==  \* mutant: the overrun of the hardware is not looked at
  /\ isr = "status"
  /\ OredFlag(FALSE)
  /\ Goto("leave")
  /\ UNCHANGED <<arrived, fifo, overrun_status, rx_buffer, rx_buffer_overrun, lost,
                 activityVars>>

ReadStatus ==
  /\ isr = "status"
  /\ OredFlag(overrun_status)
  /\ Goto("leave")
  /\ UNCHANGED <<arrived, fifo, overrun_status, rx_buffer, rx_buffer_overrun, lost,
                 activityVars>>

LeaveIsr ==
  /\ isr = "leave"
  /\ rx_buffer_overrun' = isr_flag /\ isr_flag' = FALSE
  /\ Goto("off")
  /\ UNCHANGED <<arrived, fifo, overrun_status, rx_buffer, lost, activityVars>>

IsrStep == EnterIsr \/ TakeByte \/ StoreFlag \/ MarkActive \/ ReadStatus \/ LeaveIsr

(***************************************************************************)
(* Tasks on core 0, which run while the handler does not, and writers and  *)
(* handlers of the PIO UARTs on core 1.                                    *)
(***************************************************************************)
Core0Free == isr = "off"

(* The host task reads a byte and feeds MIN with it.                       *)
ReadByte ==
  /\ Core0Free
  /\ rx_buffer > 0
  /\ rx_buffer' = rx_buffer - 1
  /\ UNCHANGED <<arrived, fifo, overrun_status, rx_buffer_overrun, isr_flag, lost,
                 activityVars, isr, maintenance, led>>

(* It writes a byte of a frame, which it does while it holds the mutex.    *)
WriteByte ==
  /\ Core0Free
  /\ tx = "away"
  /\ Raise(HostUart)
  /\ UNCHANGED <<overrunVars, tx, tx_flag, isr, maintenance, led>>

(* The transmit task, while it holds the mutex, has moved bytes or none.   *)
TxLoad ==
  /\ Core0Free
  /\ tx = "away"
  /\ \E bytes_written \in BOOLEAN : tx_flag' = (activity[HostUart] \/ bytes_written)
  /\ tx' = "store"
  /\ UNCHANGED <<overrunVars, activity, uart_activity, gathered, due, isr,
                 maintenance, led>>

TxStore ==
  /\ Core0Free
  /\ tx = "store"
  /\ tx' = "away" /\ tx_flag' = FALSE
  /\ IF tx_flag THEN Raise(HostUart)
     ELSE /\ activity' = [activity EXCEPT ![HostUart] = FALSE]
          /\ UNCHANGED <<uart_activity, gathered, due>>
  /\ UNCHANGED <<overrunVars, isr, maintenance, led>>

RaisePio(u) ==
  /\ u # HostUart
  /\ Raise(u)
  /\ UNCHANGED <<overrunVars, tx, tx_flag, isr, maintenance, led>>

(***************************************************************************)
(* The maintenance task.  check_overrun is shown for the host UART; for    *)
(* the others it is in PioUartRx.                                          *)
(***************************************************************************)
At(u, step) == maintenance = [at |-> u, step |-> step]
Proceed(u, step) == maintenance' = [at |-> u, step |-> step] /\ UNCHANGED <<isr, led>>

CheckOverrun ==
  /\ At(HostUart, "check")
  /\ Proceed(HostUart, IF rx_buffer_overrun THEN "reset" ELSE "load")
  /\ UNCHANGED <<overrunVars, activityVars>>

ResetOverrun ==
  /\ At(HostUart, "reset")
  /\ rx_buffer_overrun' = FALSE
  /\ Proceed(HostUart, "warn")
  /\ UNCHANGED <<arrived, fifo, overrun_status, rx_buffer, isr_flag, lost, activityVars>>

WarnOverrun ==
  /\ At(HostUart, "warn")
  /\ lost' = FALSE
  /\ Proceed(HostUart, "load")
  /\ UNCHANGED <<arrived, fifo, overrun_status, rx_buffer, rx_buffer_overrun, isr_flag,
                 activityVars>>

LoadGathered(u) ==
  /\ At(u, "load")
  /\ gathered' = uart_activity
  /\ Proceed(u, "or")
  /\ UNCHANGED <<overrunVars, tx, tx_flag, activity, uart_activity, due>>

OrActivity(u) ==
  /\ At(u, "or")
  /\ gathered' = (gathered \/ activity[u])
  /\ Proceed(u, "store")
  /\ UNCHANGED <<overrunVars, tx, tx_flag, activity, uart_activity, due>>

StoreGathered(u) ==
  /\ At(u, "store")
  /\ uart_activity' = gathered /\ gathered' = FALSE
  /\ Proceed(u, "clear")
  /\ UNCHANGED <<overrunVars, tx, tx_flag, activity, due>>

(* After the last UART it sleeps for 25 ms.                                *)
ClearActivity(u) ==
  /\ At(u, "clear")
  /\ activity' = [activity EXCEPT ![u] = FALSE]
  /\ IF u = Count THEN Proceed(HostUart, "check") ELSE Proceed(u + 1, "load")
  /\ UNCHANGED <<overrunVars, tx, tx_flag, uart_activity, gathered, due>>

MaintenanceStep ==
  \/ CheckOverrun \/ ResetOverrun \/ WarnOverrun
  \/ \E u \in Uarts :
       LoadGathered(u) \/ OrActivity(u) \/ StoreGathered(u) \/ ClearActivity(u)

(***************************************************************************)
(* The LED task: looks, clears, blinks and sleeps.                         *)
(***************************************************************************)
LedGoto(from, to) ==
  /\ Core0Free
  /\ led = from /\ led' = to
  /\ UNCHANGED <<isr, maintenance, overrunVars, tx, tx_flag, activity, gathered>>

SeeActivity == uart_activity /\ LedGoto("look", "clear") /\ UNCHANGED <<uart_activity, due>>
ClearUartActivity == LedGoto("clear", "light") /\ uart_activity' = FALSE /\ UNCHANGED due
Light == LedGoto("light", "dark") /\ due' = {} /\ UNCHANGED uart_activity
DarkenAndClear ==  \* mutant: the flag is cleared after the blink once more
  LedGoto("dark", "look") /\ uart_activity' = FALSE /\ UNCHANGED due
Darken == LedGoto("dark", "look") /\ UNCHANGED <<uart_activity, due>>

LedStep == SeeActivity \/ ClearUartActivity \/ Light \/ Darken

Next ==
  \/ ReceiveByte \/ OverrunFifo \/ IsrStep
  \/ ReadByte \/ WriteByte \/ TxLoad \/ TxStore
  \/ \E u \in Uarts : RaisePio(u)
  \/ MaintenanceStep \/ LedStep

(* A pending interrupt is taken and its handler returns, and the two tasks *)
(* run: whoever has a higher priority sleeps in each pass of its loop.     *)
Fairness == WF_vars(IsrStep) /\ WF_vars(MaintenanceStep) /\ WF_vars(LedStep)

Spec == Init /\ [][Next]_vars
FairSpec == Spec /\ Fairness

(***************************************************************************)
(* Properties.                                                             *)
(***************************************************************************)

(* The LED blinks for every activity, unless it came between the last look *)
(* at the flag of its UART and the store that follows                      *)
(* (uart.c:406-418 and 449, led.c:19-25).                                  *)
ActivityShown == \A u \in Uarts : u \in due ~> u \notin due

(* A byte the host UART lost, in its FIFO or in the stream buffer, is      *)
(* reported, though the handler and the maintenance task write the flag on *)
(* two cores (uart.c:203-213 and 379-386).                                 *)
LossReported == lost ~> ~ lost
=============================================================================
