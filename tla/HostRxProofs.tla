---------------------------- MODULE HostRxProofs ----------------------------
(***************************************************************************)
(* Theorems about the receive side of the host UART and the activity LED,  *)
(* for any number of UARTs and any sizes.                                  *)
(***************************************************************************)
EXTENDS HostRx, TLAPS

(* An activity for which the LED has not blinked yet is on its way to it:  *)
(* in the flag of its UART, in what the maintenance task is about to       *)
(* store, in uart_activity, or with the LED task (uart.c:406-418 and 449,  *)
(* led.c:19-25).                                                           *)
ActivityKept ==
  \A u \in due :
    \/ activity[u] /\ ~ Overwritten(u)
    \/ maintenance.step = "store" /\ gathered
    \/ uart_activity
    \/ led \in {"clear", "light"}

(* What the maintenance task has loaded of uart_activity is not older than *)
(* the last store to it but the LED task's.                                *)
GatheredAll ==
  maintenance.step \in {"or", "store"} /\ uart_activity => gathered

Inv == TypeOK /\ ActivityKept /\ GatheredAll

(* The numbers of the UARTs.                                               *)
LEMMA UartFacts ==
  /\ HostUart \in Uarts
  /\ \A u \in Uarts : u # Count => u + 1 \in Uarts
  BY HostRxAssumption DEF Uarts, HostUart

(* The steps that have no part in the activity.                            *)
Uninvolved ==
  \/ ReceiveByte \/ OverrunFifo \/ ReadByte
  \/ EnterIsr \/ TakeByte \/ StoreFlag \/ ReadStatus \/ LeaveIsr
  \/ CheckOverrun \/ ResetOverrun \/ WarnOverrun

(* They count bytes, set the overrun flags and go on.                      *)
LEMMA UninvolvedFacts ==
  ASSUME TypeOK, Uninvolved
  PROVE  /\ TypeOK'
         /\ UNCHANGED <<activityVars, led>>
         /\ \/ UNCHANGED maintenance
            \/ maintenance.step \notin {"store", "clear"}
               /\ maintenance'.step \in {"reset", "warn", "load"}
<1>n. HostUart \in Uarts /\ FifoDepth \in Nat /\ BufferSize \in Nat
  BY UartFacts, HostRxAssumption
<1>1. CASE ReceiveByte \/ OverrunFifo \/ ReadByte
  <2>1. UNCHANGED <<isr_flag, rx_buffer_overrun, activityVars, isr, maintenance, led>>
    BY <1>1 DEF ReceiveByte, OverrunFifo, ReadByte
  <2>2. /\ arrived' \in Nat /\ fifo' \in 0 .. FifoDepth /\ rx_buffer' \in 0 .. BufferSize
        /\ overrun_status' \in BOOLEAN /\ lost' \in BOOLEAN
    <3>1. /\ arrived \in Nat /\ fifo \in 0 .. FifoDepth /\ rx_buffer \in 0 .. BufferSize
          /\ overrun_status \in BOOLEAN /\ lost \in BOOLEAN
      BY DEF TypeOK
    <3>2. CASE ReceiveByte
      BY <1>n, <3>1, <3>2 DEF ReceiveByte, Comes
    <3>3. CASE OverrunFifo
      BY <1>n, <3>1, <3>3 DEF OverrunFifo, Comes
    <3>4. CASE ReadByte
      BY <1>n, <3>1, <3>4 DEF ReadByte
    <3> QED BY <1>1, <3>2, <3>3, <3>4
  <2> QED BY <2>1, <2>2 DEF TypeOK, activityVars
<1>2. CASE EnterIsr \/ StoreFlag \/ ReadStatus \/ LeaveIsr
  BY <1>2, <1>n DEF EnterIsr, StoreFlag, ReadStatus, LeaveIsr, Goto, OredFlag, TypeOK,
                    activityVars, overrunVars
<1>3. CASE TakeByte
  <2>1. /\ UNCHANGED <<arrived, overrun_status, rx_buffer_overrun, activityVars>>
        /\ UNCHANGED <<maintenance, led>> /\ isr' = "store"
    BY <1>3 DEF TakeByte, Goto
  <2>2. fifo' \in 0 .. FifoDepth /\ rx_buffer' \in 0 .. BufferSize
    BY <1>3, <1>n DEF TakeByte, BufferFull, TypeOK
  <2>3. isr_flag' \in BOOLEAN /\ lost' \in BOOLEAN
    BY <1>3 DEF TakeByte, OredFlag, TypeOK
  <2> QED BY <2>1, <2>2, <2>3 DEF TypeOK, activityVars
<1>4. CASE CheckOverrun \/ ResetOverrun \/ WarnOverrun
  <2>1. /\ UNCHANGED <<arrived, fifo, overrun_status, rx_buffer, isr_flag, activityVars>>
        /\ UNCHANGED <<isr, led>>
        /\ UNCHANGED rx_buffer_overrun \/ rx_buffer_overrun' = FALSE
        /\ UNCHANGED lost \/ lost' = FALSE
    BY <1>4 DEF CheckOverrun, ResetOverrun, WarnOverrun, Proceed, overrunVars
  <2>2. /\ maintenance.step \in {"check", "reset", "warn"}
        /\ \E step \in {"reset", "warn", "load"} :
             maintenance' = [at |-> HostUart, step |-> step]
    BY <1>4 DEF CheckOverrun, ResetOverrun, WarnOverrun, At, Proceed
  <2>3. PICK step \in {"reset", "warn", "load"} :
          maintenance' = [at |-> HostUart, step |-> step]
    BY <2>2
  <2>4. /\ maintenance' \in [at : Uarts, step : {"check", "reset", "warn", "load", "or",
                                                "store", "clear"}]
        /\ maintenance'.at = HostUart
        /\ maintenance'.step \in {"reset", "warn", "load"}
    BY <1>n, <2>3
  <2>5. {overrun_status, rx_buffer_overrun, isr_flag, tx_flag, uart_activity,
         gathered, lost}' \subseteq BOOLEAN
    BY <2>1 DEF TypeOK, activityVars
  <2>6. /\ arrived' \in Nat
        /\ fifo' \in 0 .. FifoDepth /\ rx_buffer' \in 0 .. BufferSize
        /\ isr' \in {"off", "drain", "store", "status", "leave"}
        /\ tx' \in {"away", "store"}
        /\ activity' \in [Uarts -> BOOLEAN]
        /\ led' \in {"look", "clear", "light", "dark"}
        /\ due' \subseteq Uarts
    BY <2>1 DEF TypeOK, activityVars
  <2>7. TypeOK'
    BY <2>4, <2>5, <2>6 DEF TypeOK
  <2> QED BY <2>1, <2>2, <2>4, <2>7
<1> QED BY <1>1, <1>2, <1>3, <1>4 DEF Uninvolved

(* An activity is raised by the handler, a task or a PIO UART.             *)
LEMMA RaiseNext ==
  ASSUME Inv, NEW u \in Uarts, Raise(u), UNCHANGED <<maintenance, led>>,
         UNCHANGED <<tx, tx_flag>> \/ (tx_flag /\ tx' = "away")
  PROVE  /\ activity' \in [Uarts -> BOOLEAN] /\ due' \subseteq Uarts
         /\ ActivityKept' /\ GatheredAll'
<1>t. activity \in [Uarts -> BOOLEAN] /\ due \subseteq Uarts
  BY DEF Inv, TypeOK
<1>1. /\ activity' = [activity EXCEPT ![u] = TRUE]
      /\ due' = IF Overwritten(u) THEN due ELSE due \cup {u}
      /\ UNCHANGED <<uart_activity, gathered>>
  BY DEF Raise
<1>2. \A v \in Uarts : Overwritten(v)' => Overwritten(v)
  BY <1>1 DEF Overwritten, OverwrittenByMaintenance, OverwrittenByTx
<1>3. ASSUME NEW v \in due'
      PROVE  \/ activity'[v] /\ ~ Overwritten(v)'
             \/ maintenance'.step = "store" /\ gathered'
             \/ uart_activity'
             \/ led' \in {"clear", "light"}
  <2>1. CASE v \in due
    BY <1>t, <1>1, <1>2, <2>1 DEF Inv, ActivityKept
  <2>2. CASE v \notin due
    BY <1>t, <1>1, <1>2, <1>3, <2>2
  <2> QED BY <2>1, <2>2
<1>4. GatheredAll'
  BY <1>1 DEF Inv, GatheredAll
<1>5. activity' \in [Uarts -> BOOLEAN] /\ due' \subseteq Uarts
  BY <1>t, <1>1
<1> QED BY <1>3, <1>4, <1>5 DEF ActivityKept

(* The invariant holds in the next state.                                  *)
LEMMA InvNext ==
  ASSUME Inv, [Next]_vars
  PROVE  Inv'
<1>t. TypeOK /\ ActivityKept /\ GatheredAll
  BY DEF Inv
<1>h. HostUart \in Uarts
  BY UartFacts
<1>1. CASE UNCHANGED vars
  BY <1>1, <1>t DEF vars, overrunVars, activityVars, Inv, TypeOK, ActivityKept, GatheredAll,
     Overwritten, OverwrittenByMaintenance, OverwrittenByTx
<1>2. CASE Uninvolved
  <2>1. ActivityKept' /\ GatheredAll'
    BY <1>2, <1>t, UninvolvedFacts DEF activityVars, ActivityKept, GatheredAll,
       Overwritten, OverwrittenByMaintenance, OverwrittenByTx
  <2> QED BY <1>2, <1>t, <2>1, UninvolvedFacts DEF Inv
<1>3. CASE MarkActive
  <2>1. ActivityKept' /\ GatheredAll' /\ activity' \in [Uarts -> BOOLEAN] /\ due' \subseteq Uarts
    BY <1>3, <1>h, RaiseNext DEF MarkActive, Goto
  <2>2. TypeOK'
    BY <1>3, <1>t, <2>1 DEF MarkActive, Goto, Raise, TypeOK, overrunVars
  <2> QED BY <2>1, <2>2 DEF Inv
<1>4. CASE WriteByte \/ \E u \in Uarts : RaisePio(u)
  <2>1. PICK u \in Uarts : Raise(u) /\ UNCHANGED <<overrunVars, tx, tx_flag, isr, maintenance, led>>
    BY <1>4, <1>h DEF WriteByte, RaisePio
  <2>2. ActivityKept' /\ GatheredAll' /\ activity' \in [Uarts -> BOOLEAN] /\ due' \subseteq Uarts
    BY <2>1, RaiseNext
  <2>3. TypeOK'
    BY <1>t, <2>1, <2>2 DEF Raise, TypeOK, overrunVars
  <2> QED BY <2>2, <2>3 DEF Inv
<1>5. CASE TxLoad
  <2>1. TypeOK' /\ GatheredAll'
    BY <1>5, <1>t, <1>h DEF TxLoad, TypeOK, GatheredAll, overrunVars
  <2>2. \A v \in Uarts : activity[v] /\ ~ Overwritten(v) => activity'[v] /\ ~ Overwritten(v)'
    BY <1>5, <1>t, <1>h DEF TxLoad, TypeOK, Overwritten, OverwrittenByMaintenance,
                            OverwrittenByTx
  <2>3. ActivityKept'
    BY <1>5, <1>t, <2>2 DEF TxLoad, TypeOK, ActivityKept
  <2> QED BY <2>1, <2>3 DEF Inv
<1>6. CASE TxStore
  <2>1. CASE tx_flag
    <3>1. ActivityKept' /\ GatheredAll' /\ activity' \in [Uarts -> BOOLEAN] /\ due' \subseteq Uarts
      BY <1>6, <1>h, <2>1, RaiseNext DEF TxStore
    <3>2. TypeOK'
      BY <1>6, <1>t, <2>1, <3>1 DEF TxStore, Raise, TypeOK, overrunVars
    <3> QED BY <3>1, <3>2 DEF Inv
  <2>2. CASE ~ tx_flag
    <3>1. /\ activity' = [activity EXCEPT ![HostUart] = FALSE] /\ tx = "store"
          /\ tx' = "away" /\ tx_flag' = FALSE
          /\ UNCHANGED <<uart_activity, gathered, due, overrunVars, isr, maintenance, led>>
      BY <1>6, <2>2 DEF TxStore
    <3>2. TypeOK' /\ GatheredAll'
      BY <1>t, <3>1 DEF TypeOK, GatheredAll, overrunVars
    <3>3. \A v \in Uarts : activity[v] /\ ~ Overwritten(v) => activity'[v] /\ ~ Overwritten(v)'
      BY <1>t, <2>2, <3>1 DEF TypeOK, Overwritten, OverwrittenByMaintenance, OverwrittenByTx
    <3>4. ActivityKept'
      BY <1>t, <3>1, <3>3 DEF TypeOK, ActivityKept
    <3> QED BY <3>2, <3>4 DEF Inv
  <2> QED BY <2>1, <2>2
<1>7. ASSUME NEW u \in Uarts, LoadGathered(u) PROVE Inv'
  <2>1. /\ maintenance = [at |-> u, step |-> "load"] /\ maintenance' = [at |-> u, step |-> "or"]
        /\ gathered' = uart_activity
        /\ UNCHANGED <<overrunVars, tx, tx_flag, activity, uart_activity, due, isr, led>>
    BY <1>7 DEF LoadGathered, At, Proceed
  <2>2. TypeOK' /\ GatheredAll'
    BY <1>t, <2>1 DEF TypeOK, GatheredAll, overrunVars
  <2>3. ActivityKept'
    BY <1>t, <2>1 DEF ActivityKept, Overwritten, OverwrittenByMaintenance, OverwrittenByTx
  <2> QED BY <2>2, <2>3 DEF Inv
<1>8. ASSUME NEW u \in Uarts, OrActivity(u) PROVE Inv'
  <2>1. /\ maintenance = [at |-> u, step |-> "or"] /\ maintenance' = [at |-> u, step |-> "store"]
        /\ gathered' = (gathered \/ activity[u])
        /\ UNCHANGED <<overrunVars, tx, tx_flag, activity, uart_activity, due, isr, led>>
    BY <1>8 DEF OrActivity, At, Proceed
  <2>2. TypeOK' /\ GatheredAll'
    BY <1>t, <2>1 DEF TypeOK, GatheredAll, overrunVars
  <2>3. ActivityKept'
    BY <1>t, <2>1 DEF ActivityKept, Overwritten, OverwrittenByMaintenance, OverwrittenByTx
  <2> QED BY <2>2, <2>3 DEF Inv
<1>9. ASSUME NEW u \in Uarts, StoreGathered(u) PROVE Inv'
  <2>1. /\ maintenance = [at |-> u, step |-> "store"] /\ maintenance' = [at |-> u, step |-> "clear"]
        /\ uart_activity' = gathered /\ gathered' = FALSE
        /\ UNCHANGED <<overrunVars, tx, tx_flag, activity, due, isr, led>>
    BY <1>9 DEF StoreGathered, At, Proceed
  <2>2. TypeOK' /\ GatheredAll'
    BY <1>t, <2>1 DEF TypeOK, GatheredAll, overrunVars
  <2>3. ActivityKept'
    BY <1>t, <2>1 DEF ActivityKept, GatheredAll, Overwritten, OverwrittenByMaintenance,
                      OverwrittenByTx
  <2> QED BY <2>2, <2>3 DEF Inv
<1>10. ASSUME NEW u \in Uarts, ClearActivity(u) PROVE Inv'
  <2>1. /\ maintenance = [at |-> u, step |-> "clear"]
        /\ activity' = [activity EXCEPT ![u] = FALSE]
        /\ UNCHANGED <<overrunVars, tx, tx_flag, uart_activity, gathered, due, isr, led>>
    BY <1>10 DEF ClearActivity, At, Proceed
  <2>2. PICK v \in Uarts, step \in {"check", "load"} :
          maintenance' = [at |-> v, step |-> step] /\ (step = "check" => v = HostUart)
    BY <1>10, <1>h, UartFacts DEF ClearActivity, Proceed
  <2>3. TypeOK' /\ GatheredAll'
    BY <1>t, <2>1, <2>2 DEF TypeOK, GatheredAll, overrunVars
  <2>4. \A w \in Uarts : activity[w] /\ ~ Overwritten(w) => activity'[w] /\ ~ Overwritten(w)'
    BY <1>t, <2>1, <2>2 DEF TypeOK, Overwritten, OverwrittenByMaintenance, OverwrittenByTx
  <2>5. ActivityKept'
    BY <1>t, <2>1, <2>4 DEF TypeOK, ActivityKept
  <2> QED BY <2>3, <2>5 DEF Inv
<1>11. CASE LedStep
  <2>1. UNCHANGED <<isr, maintenance, overrunVars, tx, tx_flag, activity, gathered>>
        /\ led' \in {"look", "clear", "light", "dark"}
    BY <1>11 DEF LedStep, SeeActivity, ClearUartActivity, Light, Darken, LedGoto
  <2>2. \/ UNCHANGED <<uart_activity, due>> /\ (led \in {"clear", "light"} => led' \in {"clear", "light"})
        \/ uart_activity' = FALSE /\ UNCHANGED due /\ led' = "light"
        \/ due' = {} /\ UNCHANGED uart_activity
    BY <1>11 DEF LedStep, SeeActivity, ClearUartActivity, Light, Darken, LedGoto
  <2>3. TypeOK' /\ GatheredAll'
    <3>1. uart_activity' \in BOOLEAN /\ due' \subseteq Uarts
      BY <1>t, <2>2 DEF TypeOK
    <3>2. TypeOK'
      BY <1>t, <2>1, <3>1 DEF TypeOK, overrunVars
    <3> QED BY <1>t, <2>1, <2>2, <3>2 DEF GatheredAll
  <2>4. ActivityKept'
    BY <1>t, <2>1, <2>2 DEF ActivityKept, Overwritten, OverwrittenByMaintenance,
                            OverwrittenByTx
  <2> QED BY <2>3, <2>4 DEF Inv
<1> QED
  BY <1>1, <1>2, <1>3, <1>4, <1>5, <1>6, <1>7, <1>8, <1>9, <1>10, <1>11
     DEF Next, IsrStep, MaintenanceStep, Uninvolved

(* The initial state satisfies the invariant.                              *)
LEMMA InvInit == Init => Inv
<1>1. FifoDepth \in Nat /\ BufferSize \in Nat /\ HostUart \in Uarts
  BY UartFacts, HostRxAssumption
<1>2. ASSUME Init PROVE TypeOK
  <2>1. arrived \in Nat /\ fifo \in 0 .. FifoDepth /\ rx_buffer \in 0 .. BufferSize
    BY <1>1, <1>2 DEF Init
  <2>2. maintenance = [at |-> HostUart, step |-> "check"]
    BY <1>2 DEF Init, NewPass
  <2>3. /\ maintenance \in [at : Uarts, step : {"check", "reset", "warn", "load", "or",
                                               "store", "clear"}]
        /\ maintenance.at = HostUart
    BY <1>1, <2>2
  <2>4. {overrun_status, rx_buffer_overrun, isr_flag, tx_flag, uart_activity,
         gathered, lost} \subseteq BOOLEAN
    BY <1>2 DEF Init
  <2>5. /\ isr = "off" /\ tx = "away" /\ led = "look" /\ due = {}
        /\ activity \in [Uarts -> BOOLEAN]
    BY <1>2 DEF Init
  <2> QED BY <2>1, <2>3, <2>4, <2>5 DEF TypeOK
<1>3. Init => ActivityKept /\ GatheredAll
  BY DEF Init, ActivityKept, GatheredAll
<1> QED BY <1>2, <1>3 DEF Inv

(* The invariant holds at every time.                                      *)
LEMMA InvCorrect == Spec => []Inv
  BY InvInit, InvNext, PTL DEF Spec

(* Neither the FIFO nor the stream buffer of the host UART overflows, and  *)
(* every flag and every place keeps its type (uart.c:193-216 and 379-423,  *)
(* led.c:9-36).                                                            *)
THEOREM TypeCorrect == Spec => []TypeOK
  BY InvCorrect, PTL DEF Inv

(* No activity is forgotten but by the stores that overwrite its flag,     *)
(* however the two cores interleave (uart.c:406-418 and 449,               *)
(* led.c:19-25).                                                           *)
THEOREM KeptCorrect == Spec => []ActivityKept
  BY InvCorrect, PTL DEF Inv
=============================================================================
