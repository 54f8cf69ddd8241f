# gateway-6ch: specifications and proofs

The firmware in `src/` runs on an RP2040 and connects an ESP32, which speaks
[MIN](https://github.com/min-protocol/min) frames over a UART, to RS485 buses with
Modbus RTU slaves. This directory holds TLA+ models of it, TLC configurations that
check them on small instances, and TLAPS proofs of the properties that matter most.

## 1. The system

| component | state | operations | talks to |
|---|---|---|---|
| bus task, one per bus (`bus.c`, core 1) | position in the periodic loop, transaction, parser, `last_data`, `next_run` | periodic read, command, `send_modbus_frame` | command queue from the host; change and reply queue to the host; its UART |
| host task (`host.c`, core 0) | MIN context, heartbeat deadline | tell that the Pico is ready, handle a message, send a change, send a reply, heartbeat, reset | ESP over MIN; creates bus tasks; the queues |
| Modbus parser and framer (`modbus_parser.h`, `modbus_framer.h`) | parser state, CRC, frame | process a byte, create a frame | called by the bus task |
| PIO UART transmit (`uart.c`, `uart_tx.pio`, core 1) | stream buffer, FIFO, OSR, interrupt enable, `tx_done` | write, two handlers, shift a byte | written by bus tasks |
| PIO UART receive (`uart.c`, `uart_rx.pio`, core 1) | FIFO, stream buffer | handler, read, flush | read by bus tasks |
| UART initialisation (`uart.c`, `uart_defs.c`) | array of active UARTs, claimed state machines | `pio_uart_init`, run by each bus task | DMX shares pio0 |
| host UART and MIN port (`uart.c`, `min_port.c`) | stream buffers, mutex, overrun flag | write, transmit task, space left, handler, read | host task, MIN |
| maintenance and LEDs (`uart.c`, `led.c`) | overrun and activity flags | collect and clear them | handlers, tasks |
| DMX (`dmx.c`, `dmx.pio`) | queue, last universe, deadline, DMA, state machine | take all, pace, write | host task |
| diagnostics (`res_usage.c`, `macrologger.h`, `debug.h`, `binary.h`) | none of the gateway's | print | everybody |

What is hard here: slaves answer when they like, also after the transaction is over;
every queue drops what it has no room for; several tasks and handlers share queues,
buffers, interrupt enables and flags, some of them across the two cores and without a
lock; the host may reconfigure or ask for a reset at any time; MIN drops frames.
`PROJECT.json` lists each such hazard at its line.

What makes each component correct:

- *bus task*: an answer is the answer to the request; the ESP's picture follows what was
  read; neither commands nor periodic reads starve; each command is answered once, in order.
- *host task*: what was accepted is delivered in order; a bus is configured once.
- *codec*: a slave hears what is asked; its answer is taken as it was sent, or not at all.
- *transmit*: bytes leave once and in order, no frame is cut, writers come back.
- *receive*: after a flush nothing older is read; nothing is lost unless overrun is flagged.
- *initialisation*: every configured UART has a slot, state machines and a handler that
  serves it.
- *host UART*: no deadlock on the mutex but behind a frame longer than MIN said, whole
  frames in order, every loss reported.
- *maintenance and LED*: no activity is forgotten on its way to the LED.
- *DMX*: a packet is one universe, paced and not cut; the last universe is shown.

## 2. Modules

    Modbus <- Rs485 <- Bus <- Host <- Gateway <- MCGateway (TLC), GatewayProofs (TLAPS)
                            CommandService <- Gateway (refinement)
    ModbusCodec <- MCModbusCodec, ModbusCodecProofs
    ByteLine <- PioUartTx <- MCPioUartTx, PioUartTxProofs
    ByteLine <- HostTx    <- MCHostTx,    HostTxProofs
                PioUartRx <- MCPioUartRx, PioUartRxProofs
                HostRx    <- MCHostRx,    HostRxProofs
                UartInit  <- MCUartInit,  UartInitProofs
                Dmx       <- MCDmx,       DmxProofs

- **Modbus**: frames and parser for the buses. A reply is two units, head and tail, so that
  it can be cut and continued by the wrong rest. A bit stands for a byte: zero or not.
- **ModbusCodec**: one transaction byte by byte. `crc_table`, `update_crc` and the six
  `modbus_create_*_frame` are operators of the same names; the parser has one action per
  state of its `switch`. The slave is external and computes the CRC from the polynomial,
  not from the table. Noise may change one byte of its reply. `rx_frame` starts with
  garbage: it is a local that is never initialised, so one transaction from any content
  stands for any transaction after any other. Three facts about closed tables (`XorFacts`,
  `TableFacts`, `PowerFacts`: 256 entries, 65536 words) are `ASSUME`s without constants,
  which TLC computes in the run and the proofs use.
- **Rs485** (external): slaves, wire, and the receive path up to `rx_buffer`. `asked` holds
  requests the slaves may still answer, and `fresh` marks what answers the transaction in
  hand. A slave remembers at most one earlier request.
- **Bus**: `bus.c`. `task`, `idx`, `job` are the program counter, `i` and the command of
  `bus_task`; one action per branch of its loop. `ReadHead`, `ReadPeriodicAnswer`,
  `ReadCommandAnswer`, `ReadOtherFunction`, `ReadError`, `ReadAstray` and `Timeout` are the
  ways the read loop of `send_modbus_frame` goes on or ends. `clean` and `missed` are
  ghosts: no action reads them.
- **Host**: `host.c`. The ready message, then passes of the loop: poll, change, reply, each
  with one action per outcome. `handle_m_pico_reset` arms the watchdog and waits for it
  while the bus tasks go on; `Watchdog` forgets all but what is on the lines and with the
  slaves. The ESP is external: it numbers its commands (the code copies `seq` and never
  looks at it), and remembers what it last heard (`esp_data`, `esp_seq`).
- **CommandService**: what the ESP may rely on for its commands, without queues and tasks:
  a command is taken or refused, answered at most once and in the order of its bus, or
  lost; a reset forgets what was taken.
- **Gateway**: the composition, its fairness and its properties. The refinement mapping
  collects the numbers of a bus from its queue, its transaction and the reply queue
  (`Waiting`); `next_seq - 1` commands are issued and `esp_seq` is the last answer.
- **ByteLine**: what a transmitting UART promises: a line that accepts bytes and carries
  them in order.
- **PioUartTx**: the transmit side of `uart.c` and the program of `uart_tx.pio`. A task is
  `writer`, the core's handler `isr`, the state machine `osr`; a byte is its number since
  the start. A handler visits one UART after the other, one action per access to shared state.
- **PioUartRx**: the receive side. The state machine has `input`, the byte it waits with
  while the FIFO is full (it is then deaf); the handler `isr` moves bytes on; `reader` is a
  bus task in `pio_uart_rx_flush` or reading; `maintenance` is `check_overrun`, on the same
  core. `mark`, `held` and `lost` are history.
- **HostTx**: `safe_min_send_frame`, the MIN port, `task_hw_uart_tx` and the mutex. `host`
  and `tx` are where the two tasks are. MIN is external: a frame is the space it asks for
  and the bytes it then writes.
- **HostRx**: `hw_uart_rx_isr`, `check_overrun` for the host UART, and the activity flags:
  raised by handlers, writers and the transmit task, gathered by the maintenance task on
  core 1, shown by the LED task on core 0. No lock protects a flag and `|=` is a load and a
  store, so an action makes one access to a shared flag; `isr_flag`, `tx_flag` and
  `gathered` are values loaded and not yet stored. `lost` and `due` are history.
- **UartInit**: `pio_uart_init`, run by one task per bus; `pc` is the statement between
  whose halves another task may run. DMX has claimed its state machine before. The task
  then waits for its start delay, in ticks. The ghost `shared` holds the UARTs whose task
  found a slot that another one had found, too.
- **Dmx**: `task_dmx_tx`, the DMA, the FIFO, the program of `dmx.pio`, and a tick counter
  that wraps at `TickRange`. A universe is its number, a slot a pair of universe and place.
  The tick counter is read twice in a pass, and a pass may be late by `MaxLate` ticks.

Tasks of core 1 and the handlers of the PIO interrupts share that core, since
`irq_set_enabled` enables an interrupt on the core that calls it, a bus task's; the
maintenance task has the same affinity (`uart.c:475`). So a task takes no step inside a
handler (`CoreFree`).

Assumptions of the models:

- *Gateway*: the CRC finds every frame that is not one (`ModbusCodec` looks at that); the
  ESP sends commands to configured buses only; the entries of a configuration are distinct.
  Time is abstracted: an entry may be due at any pass, and a transaction may time out
  whenever no byte is waiting. When the ready message reaches the ESP, it takes every entry
  for 0, as the bus tasks do (`last_data` is cleared with its context); a frame that is in
  the transmit buffer at a reset counts as sent. Lines and slaves do not notice a reset.
- *PioUartTx*, *PioUartRx*: all UARTs are initialised before one is used. A frame fits its
  stream buffer (64 of 1024 bytes). When the receive handler comes is left open.
- *HostTx*: none on MIN. Its sources are a submodule that is not in the repository; the
  bytes it stuffs (`support/min.py:40-61`) may make a frame longer than the space it asked
  for, so a frame's `room` and `size` do not bound each other. With `room < size` the host
  task can block in `min_tx_byte` with the mutex held, and then nobody makes space: the
  model reaches this state, and `BlockedForEver` proves that nothing ends it. The properties
  say that there is no other way to wait for ever (`Overfull`).
- *HostRx*: the handler of the host UART is entered when a byte is there. In
  `uart_activity |= activity` the first operand is loaded first; the language leaves that
  open. The overrun status of the hardware is sticky and the code never clears it
  (`uart.c:213` reads the raw status): after the first overrun each interrupt sets the flag
  again, so a warning follows each message from then on.
- *UartInit*: not more buses than the array has entries; `pio_uart_init` takes `InitTime`
  ticks at most, preemptions included. A bus may be configured at any tick, as `host.c:31-83`
  allows. "Wait until all buses are configured" (`bus.c:99`) is therefore true only of buses
  configured within the delay of each other: a later one is initialised while others run, and
  their requests make the handlers visit it half initialised. The model reaches this;
  `UnreadyIfTooLate` says for which buses the delay is enough. It speaks of a bus that runs:
  late answers to requests of before a reset may make a handler run earlier still.
- *Dmx*: a packet (13 slots) takes less than a tick; a pass is at most `MaxLate` ticks late,
  which is at least two less than the delay between packets (83 ticks in the firmware,
  `config.h:83`).

## 3. Runs

| run | question | bounds | result |
|---|---|---|---|
| `gateway_changes` | does the ESP follow the periodic data? | one bus, a register and a byte of coils, queues of 2, MIN may drop, resets | passes |
| `gateway_commands` | does the gateway implement `CommandService`, with fresh answers, and does all progress? | one bus, one entry, 2 writes, framable or not, queues of 2, MIN may drop, resets | passes |
| `gateway_late` | is periodic data of the slave the entry names? | two slaves | **violated** |
| `codec` | are requests and answers understood, and damaged ones refused? | all four functions, slaves 1 and 247, 3 addresses, 256 words with every byte high and low, one damaged byte | passes |
| `pio_tx` | capacity, interrupt handshake, order of bytes; do bytes leave and writers return? | two UARTs, buffer 2, FIFO 1, 4 and 1 bytes in frames of 1 or 2 | passes |
| `pio_tx_done` | does `tx_done` mean nothing is left? | one UART, 4 bytes | **violated** |
| `pio_rx` | is what is read after a flush new, in order, and is loss reported? | two UARTs, buffer 1, FIFO 1, 3 and 1 bytes | passes |
| `host_tx` | does the mutex keep frames whole, and does nobody wait for ever but behind a frame that writes more than it asked for? | frames that ask for 2, 3, 2 bytes and write 1, 3, 3; buffer 4, FIFO 2, 9 bytes | passes |
| `host_rx` | is every loss reported and every activity shown, across two cores? | the host UART and a PIO UART, buffer 1, FIFO 1, 3 bytes | passes |
| `uart_init` | do tasks that preempt each other get slots, programs, state machines, and does a bus that runs meet only UARTs that are ready, or were configured too late? | three buses started at any tick, 5 slots, the real memory and program sizes, delay 2, initialised in 1, 3 ticks | passes |
| `uart_init_four` | is there a state machine for each bus? | four buses | **violated** |
| `dmx` | one universe per packet, paced, not cut, the last one shown? | packets of 3, FIFO 2, queue 2, delay 3, ticks modulo 10, passes 1 tick late, 4 universes | passes |

Why the bounds are enough: `MaxUnits` 2 lets a reply be late, cut, and met by the next
transaction; queues of 2 fill, and two commands, then two replies, stand behind each other.
With every byte as data, every entry of `crc_table` is used. A buffer of 2 makes a writer of
a frame of 2 wait for the handler, and a FIFO of 1 fills while the handler works; in
`pio_rx` both fill, so that bytes are dropped and missed in the middle of a flush. In
`host_tx` a frame of 3 finds room or is dropped, depending on how far the transmit task is,
and the one that asks for 2 blocks for ever when two bytes are left. Three tasks show every
race of two with a third one between them; in three ticks one bus runs after its delay of
two while another one is configured. The ticks wrap at a value that is no multiple of the
delay, so deadlines fall before and beyond the wrap, and a pass that is one tick late meets
each of them. In `host_rx` one byte fills the FIFO, one the stream buffer, and one is lost
in either. Resets are not bounded: they come at any step and again. Capacities and numbers
of buses, entries and UARTs are what the proofs generalise: the order of replies from
several buses in one queue is proved for any number, and checked with one;
`gateway_commands` would have two million states with a second bus, too many for the
liveness it checks.

`CHECK_DEADLOCK FALSE` stands where the system may stop: writers at `MaxBytes`, lines at
`MaxBytes`, the ESP at `MaxUniverses`, a transaction and an initialisation at their end. The
gateway never stops, and there TLC looks for deadlock.

The violations, each a disagreement of the code with a comment of its own:

- `AnswerOfItsSlave`: a late answer is taken for that of the next entry, whose slave is
  another one; only the function code is compared (`bus.c:139`, `bus.h:20-24`).
- `TxDoneMeansSent`: `jmp !osre` tests the shift register, not the FIFO, so the done
  interrupt comes after every byte (`uart_tx.pio:27`, `uart.h:33`). Nothing in the
  firmware waits for `tx_done` today.
- `StateMachineForEach`: DMX holds one of the four state machines of `pio0`, so the fourth
  bus finds none for its receiver and `pio_claim_unused_sm` panics, although
  `COUNT_PIO_UARTS` is 5 and the messages speak of buses "From 0 to 5".

The properties that hold, next to them, say what the code does guarantee:
`QuietLineAnswersFresh` (on a line without outstanding answers at the flush, only the own
answer is taken), `EspFollows` (the ESP follows unless the *latest* change, or the ready
message after a reset, was dropped: with a full queue `last_data` is updated all the same,
`bus.c:288-294`, and nothing sends the change again), `FreshAfterFlush` (except for the one
byte a stalled state machine held when the flush was called, which no flush can reach),
`ServedUnlessShared` (a UART is served unless two tasks found the same free slot, the race
of `add_active_pio_uart`), `Paced` and `NoSlotCut` (unless a deadline was beyond the wrap,
which `IS_EXPIRED` takes for expired), `MissedAtWrapOnly` and `LastIsShown` (a pass that is
late where the counter wraps misses the deadline for a whole period, and the universe it
holds is not shown), `WaitsForExcessOnly` and `HostReturns` (the host task waits in the
mutex only for bytes beyond those MIN asked for), `UnreadyIfTooLate` (a bus that runs meets
a UART in the middle of its initialisation only if that one was configured too late for the
delay), `ActivityShown` (but for the window between the last look at a flag and the store
that follows), `AnswerUnderstood` (a register as a periodic read takes it and coils as a
command does; a command reads a register with its bytes swapped, as the FIXME at `bus.c:236`
suspects), `RequestUnderstood` (registers and the coil to write are those asked for; of
coils to read, only their number), `DamagedNeverTaken` (unless noise hit the bytes that say
where the frame ends: then a wrong frame may have a right CRC).

One more disagreement is no property: a read of coils does not read the coils its address
names. `modbus_create_read_frame` divides the address by 16 and sends the quotient as the
start (`modbus_framer.h:156-158`): address 2056 asks for coils 128 to 136. `messages.h:46`
calls it "Modbus first address to process", and `support/modbus-rtu-server.py:43-44` takes
the start for the address of a coil. From 4096 on the `uint8_t` wraps besides.

### Fairness

*Gateway*: weak fairness of the host task, of the watchdog and of each bus task. The tasks
have one priority, time slicing is on, and every pass of their loops sleeps. Nothing is
asked of slaves, line or ESP: they may be silent for ever. That a response timeout comes in
the end includes a deadline at the last ticks before the counter wraps, which `IS_EXPIRED`
may miss as it does in `Dmx`: it then comes a period of the counter late.

*PioUartTx*: weak fairness of the interrupts and of each state machine, which is hardware;
strong fairness of each writer, whose core is taken away by handlers again and again but
not for good, since a handler visits at most `Count` UARTs and moves at most what the FIFOs
take.

*PioUartRx*: weak fairness of the handler; strong fairness of the maintenance task, which
has the lowest priority of its core but gets it again and again, since bus tasks sleep
while they wait for bytes. Readers and lines owe nothing.

*HostTx*: weak fairness of the hardware; strong fairness of both tasks, which wait for the
mutex again and again: FreeRTOS hands it to the waiter, and each task sleeps in every pass.

*HostRx*: weak fairness of the handler, the maintenance task and the LED task. All others
of their cores sleep in each pass; the handler leaves when its FIFO is empty.

*Dmx*: weak fairness of the task, of the output hardware and of the tick.

## 4. Proofs

| theorem | property |
|---|---|
| `GatewayProofs!TypeCorrect` | `TypeOK` |
| `GatewayProofs!QuietLineCorrect` | `QuietLineAnswersFresh` |
| `GatewayProofs!RepliesCorrect` | `RepliesInOrder`, the invariant behind the next one |
| `GatewayProofs!ServiceCorrect` | `ImplementsService` |
| `GatewayProofs!EspFollowsCorrect` | `EspFollows` |
| `GatewayProofs!AnsweredCorrect` | `CommandsAnswered` |
| `PioUartTxProofs!TypeCorrect`, `NotStrandedCorrect`, `LineCorrect` | `TypeOK`, `NotStranded`, `ImplementsLine` |
| `PioUartRxProofs!TypeCorrect`, `FreshCorrect`, `OrderCorrect` | `TypeOK`, `FreshAfterFlush`, `ReadsInOrder` |
| `HostTxProofs!TypeCorrect`, `WaitsCorrect`, `TxDoneCorrect`, `LineCorrect` | `TypeOK`, `WaitsForExcessOnly`, `TxDoneTellsBuffer`, `ImplementsLine` |
| `HostTxProofs!BlockedForEver` | the deadlock of a frame that writes more than it asked for is permanent |
| `HostRxProofs!TypeCorrect`, `KeptCorrect` | `TypeOK`, `ActivityKept` |
| `UartInitProofs!TypeCorrect`, `NoGapsCorrect`, `ServedCorrect`, `UnreadyCorrect`, `NeverPanicsCorrect` | `TypeOK`, `NoGaps`, `ServedUnlessShared`, `UnreadyIfTooLate`, `NeverPanics` |
| `DmxProofs!TypeCorrect`, `OneUniverseCorrect`, `PacedCorrect`, `MissedAtWrapOnlyCorrect`, `NoSlotCutCorrect` | `TypeOK`, `OneUniverse`, `Paced`, `MissedAtWrapOnly`, `NoSlotCut` |
| `ModbusCodecProofs!SlaveAgrees`, `DamageShows` | the CRC: table and polynomial agree, one damaged byte shows |
| `ModbusCodecProofs!TypeCorrect`, `RequestUnderstoodCorrect`, `AnswerUnderstoodCorrect`, `DamagedNeverTakenCorrect` | `TypeOK`, `RequestUnderstood`, `AnswerUnderstood`, `DamagedNeverTaken` |

They hold for every number of buses, slaves, entries and UARTs, every capacity and every
bound, under the named `ASSUME`s of the modules, which TLC evaluates in the runs.

- *Types.* `TypeOK` of the gateway contains `JobOK`: a transaction is in hand exactly while
  the task sends or receives, and a periodic one is that of the entry the loop is at. Without
  it the types are not inductive: `last_data[b][idx[b]]` could be out of range when an
  answer comes. The type invariants of the UARTs hold capacities and who is where: a handler
  moves a byte only where there is room, a task holds the mutex exactly in its critical section.
- *Quiet line.* The property speaks of the unit at hand only. `QuietLines` adds that, in
  such a transaction, all that is asked, on the wire or received is fresh, and nothing is
  there before the request is sent; it is inductive with the types.
- *Replies.* `AllOrdered` adds that every number in the gateway is below `next_seq`, which a
  new command needs.
- *Service.* With that order the refinement needs no more invariants: each action of the
  gateway changes `Waiting` and `esp_seq` as one action of `CommandService` does, or not at
  all. That a number is in one place only makes its removal from one place its removal.
- *ESP follows.* `EspFollows` is inductive with the types. That entries are distinct is
  needed: two equal ones would share the ESP's memory but not `last_data`.
- *Answered.* An action property from `JobOK`: only the end of a transaction changes a
  command in hand. Beginning needs a task that scans, and a configuration an unconfigured bus.
- *UART transmit.* `Disabling` (a handler about to disable an interrupt has found the buffer
  empty, and no task has run since), `Writing`, and `AllNumbered`: OSR, FIFO and buffer are
  numbered on from `sent`, so the next byte shifted is `sent + 1`, which is `Line!Carry`.
- *UART receive.* `InOrder`: buffer, FIFO and state machine hold rising numbers, one after
  the other, above the last byte read. `Fresh`: a flush frees the three of older bytes, the
  one the state machine held excepted (`Recent`), one by one, the FIFO when it was seen
  empty, the buffer when it was reset. In between the handler may move bytes only from a
  place that is already free of them.
- *Host UART.* `Room`: what is left of the bytes MIN asked space for fits the buffer, which
  `BeginFrame` establishes and nobody can spoil, as the transmit task only removes bytes.
  `BlockedForEver` is an action property from the types: a host task that writes holds the
  mutex, so the transmit task is not in its critical section, and only there bytes are
  taken. `Held`: what is written of that frame is still in the buffer, so that none of it is
  on the line before it is whole. `Numbered` and `DoneOK` as for the other UARTs.
- *Initialisation.* `NoneBehind`: a task that looks for a slot has left no `NULL` behind.
  `Rivals` and `TakenByRival`: tasks about to take one slot are all in `shared`, and what
  was put in that slot is one of them; so a UART that shares with nobody keeps its slot
  (`OwnSlot`). `Running` and `RxOwned` carry the claims to the end. `Punctual`: a
  task that runs has had its delay, and one on its way has begun at most `InitTime` ago.
- *Activity.* `ActivityKept` with `GatheredAll`: while the maintenance task has
  `uart_activity` loaded, a raised one is in what it will store, so its store takes nothing
  away that the LED task has not seen.

- *No panic.* `NoPanic` counts: what is loaded in a PIO is at most DMX's program and one
  copy for each task past its load, and what is claimed at most DMX's state machine and one
  for each task past its claim. Tasks only move forward, so `EnoughForAll` suffices. It is
  tight: in the worst case every task finds the program not loaded and loads its own copy.
  Three buses satisfy it; the four of `uart_init_four` do not.
- *DMX.* The output: between a start and the tick after it, `dma`, `fifo`, `osr` and `line`
  hold the slots of one universe, one after the other, and nothing restarts the state
  machine. The time: `since` and the distance to `next_write` on the circle of the counter
  agree unless the deadline is beyond the wrap, and a pass comes within `MaxLate` ticks.
- *CRC.* The provers cannot do induction with an operator, so `Induction` is proved for sets
  of numbers, from the well-foundedness of `<`, and `CrcExists`, `CrcUnique` show what the
  recursive function `crc_after` is. From `TableFacts`: an update can be undone (the high
  byte tells which entry was taken), so different CRCs stay different, and a different byte
  makes a difference (`UpdateDiffers`).
- *Codec.* `Following`: some byte sequence arrived that differs from what was sent in the
  byte `hit` at most; `rx_buffer` is its rest; and unless noise moved the frame, the state
  of the parser, its CRC and `rx_frame` follow from the number of bytes it has seen
  (`Expects`, `Holds`). `Room` is what holds wherever noise moved the frame: data begins at the
  fourth byte of at most eight, so `data_size` stays below 8. `Requested` and `Replied`
  hold what the slave heard and sent: `WithCrc` and `Sealed` close a frame alike
  (`SealFacts`), and over a closed frame the CRC is 0.

Only model-checked: the liveness properties (`ActivityShown`, `LossReported`, `LastIsShown`
and those of progress), which need fairness and so ENABLED, out of the prover's reach. The
violations are TLC's too. `TableFacts` and its like are computed by TLC, entry by entry: the
provers would have to expand the exclusive or of 65536 pairs.

## 5. Not modelled, and the plan

Not modelled yet: deadlines of `bus.c` on real ticks (`next_run`, the response timeout; the
models leave the moment open, which covers every outcome of the comparison), and the
heartbeat, a frame without content whose deadline changes nothing else. Undefined
behaviour without a next state: a command for a bus without context, a handler that visits
a UART whose buffers are null (`UnreadyIfTooLate` says when one may), data written beyond the
frame of the parser. A command dropped without a reply is in the models, but no property
speaks of it. `hw_uart_rx_flush` and
other functions without a caller are left out. Left out for good: logging and resource
statistics (they change nothing), the support scripts (not in the firmware), pins, clocks.

Done of the plan: `Gateway` with its parts and the reset of the Pico, `CommandService` with
its refinement, `PioUartTx`, `HostTx`, `HostRx`, `UartInit`, `PioUartRx`, `Dmx`,
`ModbusCodec`, and the proof of every safety property the runs check. What is left: an
abstract specification `ChangeFeed` (the latest value of each entry, or a dropped change),
and `Gateway` shown to implement it; `EspFollows` is its invariant today.
