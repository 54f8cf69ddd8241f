------------------------------ MODULE UartInit ------------------------------
(***************************************************************************)
(* Initialisation of the PIO UARTs (src/uart.c: pio_uart_init).  Each bus  *)
(* task initialises the UART of its bus when it starts.  The tasks share a *)
(* core and a priority, so one may be preempted anywhere and another one   *)
(* begin; what they share is the array of active UARTs, the programs and   *)
(* state machines of the PIOs, and the interrupt handlers.  dmx_init has   *)
(* run before (src/main.c): it holds a state machine of the receiving PIO  *)
(* and part of its program memory.  Each task then waits BUS_START_DELAY   *)
(* before it uses its UART (src/bus.c); time is counted in ticks.  The ESP *)
(* may configure a bus at any time (src/host.c), also when others run.     *)
(*                                                                         *)
(* ASSUMED: pio_uart_init takes InitTime ticks at most, preemptions        *)
(* included.                                                               *)
(* EXTERNAL: pio_claim_unused_sm and pio_add_program, which take a lock    *)
(* and panic if there is nothing left.                                     *)
(***************************************************************************)
EXTENDS Naturals, FiniteSets

CONSTANTS
  Buses,          \* the buses the ESP configures
  CountPioUarts,  \* COUNT_PIO_UARTS
  StateMachines,  \* of a PIO
  ProgramMemory,  \* of a PIO, in instructions
  ProgramSize,    \* of the programs "rx", "tx" and "dmx"
  StartDelay,     \* BUS_START_DELAY
  InitTime,       \* ticks in which a task is through with pio_uart_init
  MaxTicks,       \* bound: ticks
  None            \* NULL

Sides == {"rx", "tx"}  \* PIO_UART_RX_PIO and PIO_UART_TX_PIO

ASSUME UartInitAssumption ==
  /\ CountPioUarts \in Nat /\ ProgramMemory \in Nat
  /\ StateMachines # {} /\ IsFiniteSet(StateMachines)
  /\ ProgramSize \in [Sides \cup {"dmx"} -> Nat]
  /\ ProgramSize["dmx"] <= ProgramMemory
  /\ None \notin Buses
  /\ StartDelay \in Nat /\ InitTime \in Nat /\ MaxTicks \in Nat
  /\ IsFiniteSet(Buses) /\ Cardinality(Buses) <= CountPioUarts

VARIABLES
  pc,                \* where each bus task is inside pio_uart_init
  index,             \* its i in add_active_pio_uart
  active_pio_uarts,  \* slot CountPioUarts + 1 ends the array
  program_loaded,    \* rx_program_offset, tx_program_offset are set
  memory,            \* instructions in use
  claimed,           \* claimed[side][sm]: who claimed the state machine
  irq_enabled,       \* UARTs whose receive and done interrupts are enabled
  panicked,
  elapsed,           \* ticks
  since,             \* when a task began its initialisation, or its delay
  shared             \* ghost: UARTs that found a slot others had found, too

piosVars == <<program_loaded, memory, claimed>>
clockVars == <<elapsed, since>>
vars == <<pc, index, active_pio_uarts, piosVars, irq_enabled, panicked, shared, clockVars>>

Slots == 1 .. CountPioUarts + 1

Stages ==
  {"absent", "find", "take", "rx_program", "rx_load", "tx_program", "tx_load",
   "rx_claim", "tx_claim", "irq", "delay", "running"}
Ready == {"delay", "running"}

(* Every variable holds a value of its type.  A slot that is about to be   *)
(* taken is one of the array, the NULL that ends it stays, and a task past *)
(* its claims owns a state machine of each PIO.                            *)
ArrayOK ==
  /\ pc \in [Buses -> Stages]
  /\ index \in [Buses -> Slots]
  /\ \A b \in Buses : pc[b] = "take" => index[b] <= CountPioUarts
  /\ active_pio_uarts \in [Slots -> Buses \cup {None}]
  /\ active_pio_uarts[CountPioUarts + 1] = None
  /\ irq_enabled \subseteq Buses /\ shared \subseteq Buses
  /\ elapsed \in Nat /\ since \in [Buses -> Nat]
Owns(b, side) == \E sm \in StateMachines : claimed[side][sm] = b
PiosOK ==
  /\ program_loaded \in [Sides -> BOOLEAN]
  /\ memory \in [Sides -> 0 .. ProgramMemory]
  /\ claimed \in [Sides -> [StateMachines -> Buses \cup {None, "dmx"}]]
  /\ \A b \in Buses : pc[b] \in Ready \cup {"irq"} => Owns(b, "rx") /\ Owns(b, "tx")
  /\ panicked \in BOOLEAN
TypeOK == ArrayOK /\ PiosOK

(* dmx_init claims the first state machine of the PIO it shares.           *)
ByDmx == CHOOSE sm \in StateMachines : TRUE

Init ==
  /\ pc = [b \in Buses |-> "absent"]
  /\ index = [b \in Buses |-> 1]
  /\ active_pio_uarts = [i \in Slots |-> None]
  /\ program_loaded = [s \in Sides |-> FALSE]
  /\ memory = [s \in Sides |-> IF s = "rx" THEN ProgramSize["dmx"] ELSE 0]
  /\ claimed = [s \in Sides |-> [sm \in StateMachines |->
       IF s = "rx" /\ sm = ByDmx THEN "dmx" ELSE None]]
  /\ irq_enabled = {}
  /\ panicked = FALSE
  /\ elapsed = 0 /\ since = [b \in Buses |-> 0]
  /\ shared = {}

At(b, stage) == ~ panicked /\ pc[b] = stage
Goto(b, stage) == pc' = [pc EXCEPT ![b] = stage]

(* handle_m_config_bus creates the task of a bus once, at any time.        *)
StartTask(b) ==
  /\ At(b, "absent")
  /\ Goto(b, "find")
  /\ since' = [since EXCEPT ![b] = elapsed]
  /\ UNCHANGED <<index, active_pio_uarts, piosVars, irq_enabled, panicked, shared, elapsed>>

(***************************************************************************)
(* add_active_pio_uart: the first slot that is NULL.  There is one: the    *)
(* array has a slot for each bus.                                          *)
(***************************************************************************)
NextSlot(b) ==
  /\ At(b, "find")
  /\ index[b] <= CountPioUarts
  /\ active_pio_uarts[index[b]] # None
  /\ index' = [index EXCEPT ![b] = @ + 1]
  /\ UNCHANGED <<pc, active_pio_uarts, piosVars, irq_enabled, panicked, shared, clockVars>>

FindOther(b) ==  \* mutant: any slot will do
  /\ At(b, "find")
  /\ index[b] <= CountPioUarts
  /\ Goto(b, "take")
  /\ UNCHANGED <<index, active_pio_uarts, piosVars, irq_enabled, panicked, shared, clockVars>>

FindSlot(b) ==
  LET rivals == {c \in Buses : pc[c] = "take" /\ index[c] = index[b]} IN
  /\ At(b, "find")
  /\ index[b] <= CountPioUarts
  /\ active_pio_uarts[index[b]] = None
  /\ Goto(b, "take")
  /\ shared' = shared \cup (IF rivals = {} THEN {} ELSE rivals \cup {b})
  /\ UNCHANGED <<index, active_pio_uarts, piosVars, irq_enabled, panicked,
                 clockVars>>

TakeNext(b) ==  \* mutant: one slot too far
  /\ At(b, "take")
  /\ active_pio_uarts' =
       [active_pio_uarts EXCEPT ![IF index[b] < CountPioUarts THEN index[b] + 1 ELSE index[b]] = b]
  /\ Goto(b, "rx_program")
  /\ UNCHANGED <<index, piosVars, irq_enabled, panicked, shared, clockVars>>

TakeSlot(b) ==
  /\ At(b, "take")
  /\ active_pio_uarts' = [active_pio_uarts EXCEPT ![index[b]] = b]
  /\ Goto(b, "rx_program")
  /\ UNCHANGED <<index, piosVars, irq_enabled, panicked, shared, clockVars>>

(***************************************************************************)
(* "Add program if not already", and the state machines.                   *)
(***************************************************************************)
CheckRxProgram(b) ==
  /\ At(b, "rx_program")
  /\ Goto(b, IF program_loaded["rx"] THEN "tx_program" ELSE "rx_load")
  /\ UNCHANGED <<index, active_pio_uarts, piosVars, irq_enabled, panicked, shared, clockVars>>

CheckTxProgram(b) ==
  /\ At(b, "tx_program")
  /\ Goto(b, IF program_loaded["tx"] THEN "rx_claim" ELSE "tx_load")
  /\ UNCHANGED <<index, active_pio_uarts, piosVars, irq_enabled, panicked, shared, clockVars>>

Panic == panicked' = TRUE /\ UNCHANGED <<pc, piosVars>>

(* pio_add_program copies the program once more, whoever has done so.      *)
AddProgram(b, side, next) ==
  IF memory[side] + ProgramSize[side] > ProgramMemory THEN Panic
  ELSE /\ memory' = [memory EXCEPT ![side] = @ + ProgramSize[side]]
       /\ program_loaded' = [program_loaded EXCEPT ![side] = TRUE]
       /\ Goto(b, next)
       /\ UNCHANGED <<claimed, panicked>>

LoadRxProgram(b) ==
  /\ At(b, "rx_load")
  /\ AddProgram(b, "rx", "tx_program")
  /\ UNCHANGED <<index, active_pio_uarts, irq_enabled, shared, clockVars>>

LoadTxProgram(b) ==
  /\ At(b, "tx_load")
  /\ AddProgram(b, "tx", "rx_claim")
  /\ UNCHANGED <<index, active_pio_uarts, irq_enabled, shared, clockVars>>

Unclaimed(side) == {sm \in StateMachines : claimed[side][sm] = None}

Claim(b, side, next) ==
  IF Unclaimed(side) = {} THEN Panic
  ELSE /\ \E sm \in Unclaimed(side) : claimed' = [claimed EXCEPT ![side][sm] = b]
       /\ Goto(b, next)
       /\ UNCHANGED <<program_loaded, memory, panicked>>

ClaimRx(b) ==
  /\ At(b, "rx_claim")
  /\ Claim(b, "rx", "tx_claim")
  /\ UNCHANGED <<index, active_pio_uarts, irq_enabled, shared, clockVars>>

ClaimTxOfRx(b) ==  \* mutant: the transmitter is put in the receivers' PIO
  /\ At(b, "tx_claim")
  /\ Claim(b, "rx", "irq")
  /\ UNCHANGED <<index, active_pio_uarts, irq_enabled, shared, clockVars>>

ClaimTx(b) ==
  /\ At(b, "tx_claim")
  /\ Claim(b, "tx", "irq")
  /\ UNCHANGED <<index, active_pio_uarts, irq_enabled, shared, clockVars>>

(* The buffers are created and the interrupts enabled.  The handlers are   *)
(* the same for all UARTs: it does not matter who installs them.           *)
RunAtOnce(b) ==  \* mutant: the delay is left out
  /\ At(b, "irq")
  /\ irq_enabled' = irq_enabled \cup {b}
  /\ since' = [since EXCEPT ![b] = elapsed]
  /\ Goto(b, "running")
  /\ UNCHANGED <<index, active_pio_uarts, piosVars, panicked, shared, elapsed>>

EnableIrqs(b) ==
  /\ At(b, "irq")
  /\ irq_enabled' = irq_enabled \cup {b}
  /\ since' = [since EXCEPT ![b] = elapsed]
  /\ Goto(b, "delay")
  /\ UNCHANGED <<index, active_pio_uarts, piosVars, panicked, shared, elapsed>>

(* The delay is over: the bus sends its first request.                     *)
Run(b) ==
  /\ At(b, "delay")
  /\ since[b] + StartDelay <= elapsed
  /\ Goto(b, "running")
  /\ UNCHANGED <<index, active_pio_uarts, piosVars, irq_enabled, panicked, shared, clockVars>>

Step(b) ==
  \/ NextSlot(b) \/ FindSlot(b) \/ TakeSlot(b)
  \/ CheckRxProgram(b) \/ LoadRxProgram(b) \/ CheckTxProgram(b) \/ LoadTxProgram(b)
  \/ ClaimRx(b) \/ ClaimTx(b) \/ EnableIrqs(b) \/ Run(b)

(* A tick of the scheduler, between any two steps of the tasks: bounded    *)
(* only by the time pio_uart_init takes.                                   *)
Initialising == {b \in Buses : pc[b] \notin Ready \cup {"absent"}}

Tick ==
  /\ ~ panicked
  /\ elapsed < MaxTicks
  /\ \A b \in Initialising : elapsed < since[b] + InitTime
  /\ elapsed' = elapsed + 1
  /\ UNCHANGED <<pc, index, active_pio_uarts, piosVars, irq_enabled, panicked, shared, since>>

Next == Tick \/ \E b \in Buses : StartTask(b) \/ Step(b)

Spec == Init /\ [][Next]_vars

(***************************************************************************)
(* Properties.                                                             *)
(***************************************************************************)

(* The handlers visit the array up to the first NULL: no UART stands       *)
(* behind one, whoever was preempted in between (uart.c:47-54, 212).       *)
NoGaps ==
  \A i \in Slots : \A j \in 1 .. i :
    active_pio_uarts[i] # None => active_pio_uarts[j] # None

(* A UART whose receive interrupt is enabled is visited by the handler     *)
(* that empties its FIFO, unless its slot was found free by another task   *)
(* before it was taken (uart.c:49-52, 163-166, 264-266).                   *)
ServedUnlessShared ==
  \A b \in irq_enabled \ shared : \E i \in Slots : active_pio_uarts[i] = b

(* The handlers visit every active UART, ready or not.  "Wait until all    *)
(* buses are configured" (bus.c:99-100): a bus that runs, and with its     *)
(* requests and answers makes the handlers run, lets them find a UART      *)
(* without its PIO, state machines and buffers (uart.c:118-158 against     *)
(* 227-276) only if that one was configured too late for the delay: within *)
(* InitTime of its end, or after it.                                       *)
TooLate(c, b) == since[b] + StartDelay <= since[c] + InitTime

UnreadyIfTooLate ==
  \A b \in Buses : \A i \in Slots :
    LET c == active_pio_uarts[i] IN
    pc[b] = "running" /\ c \in Initialising => TooLate(c, b)

(* Every bus gets what it needs of the PIOs, even if each task loads its   *)
(* own copy of the programs (uart.c:121-148).                              *)
NeverPanics == ~ panicked

(* "We use 2 PIO state machines per UART channel" (config.h:54-56): there  *)
(* is one for each bus that is configured.                                 *)
StateMachineForEach ==
  \A b \in Buses : pc[b] = "rx_claim" => Unclaimed("rx") # {}
=============================================================================
