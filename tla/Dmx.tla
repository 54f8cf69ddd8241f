-------------------------------- MODULE Dmx --------------------------------
(***************************************************************************)
(* The DMX output (src/dmx.c, src/pio/dmx.pio).  The host task queues the  *)
(* universes the ESP sends; the task task_dmx_tx takes the last of them    *)
(* and has it sent, at most once in DMX_DELAY_BETWEEN_WRITES ticks: it     *)
(* restarts the state machine, which sends a break, and the DMA moves the  *)
(* slots of the packet to its FIFO.                                        *)
(*                                                                         *)
(* Time is the tick counter.  A packet takes less than a tick (13 slots of *)
(* 44 microseconds), so that at most one tick falls into it.  The task has *)
(* the lowest priority: a pass may come or last some ticks too long, but   *)
(* far less than the delay, which is 83 ticks.                             *)
(***************************************************************************)
EXTENDS Naturals, Sequences

CONSTANTS
  PacketSize,    \* the start code and DMX_MAX_CHANNELS slots
  FifoDepth,     \* the joined TX FIFO of the state machine: 8
  QueueLength,   \* DMX_WRITE_QUEUE_LENGTH
  Delay,         \* DMX_DELAY_BETWEEN_WRITES
  TickRange,     \* the tick counter wraps here: 2^32
  MaxLate,       \* bound: ticks between the one that wakes the task and the
                 \* end of its pass
  MaxUniverses   \* bound: universes the ESP sends

ASSUME DmxAssumption ==
  /\ PacketSize \in Nat \ {0} /\ FifoDepth \in Nat \ {0}
  /\ QueueLength \in Nat \ {0} /\ MaxUniverses \in Nat
  /\ Delay \in Nat /\ TickRange \in Nat /\ Delay < TickRange
  /\ MaxLate \in Nat /\ MaxLate + 2 <= Delay

VARIABLES
  requested,        \* universes sent by the ESP, numbered on
  dmx_write_queue,
  pc,               \* where task_dmx_tx is in its pass
  data,             \* the universe it took last; 0 is none
  has_write,
  next_write,
  now,              \* the tick counter
  dma_buffer,       \* the universe in the DMA buffer
  dma,              \* slots still to be transferred
  fifo,             \* TX FIFO: slots <<universe, number>>
  osr,              \* the slot that is shifted out, if any
  line,             \* slots sent since the last break
  ticked,           \* a tick has passed since that break
  late,             \* ghost: ticks since the one that woke the task
  since,            \* ghost: ticks since next_write was set, Delay at most
  wrapped,          \* ghost: next_write is beyond the wrap of the counter
  hurried           \* ghost: so was the one this pass found expired

ghostVars == <<late, since, wrapped, hurried>>
taskVars == <<pc, data, has_write, next_write, ghostVars>>
outVars == <<dma_buffer, dma, fifo, osr, line>>
vars == <<requested, dmx_write_queue, taskVars, now, outVars, ticked>>

Universes == 1 .. MaxUniverses
PacketSlots == Universes \X (1 .. PacketSize)

(* Every variable holds a value of its type, and the FIFO, which the DMA   *)
(* fills without looking at what is in it, never overflows.                *)
TypeOK ==
  /\ requested \in 0 .. MaxUniverses
  /\ dmx_write_queue \in Seq(Universes) /\ Len(dmx_write_queue) <= QueueLength
  /\ pc \in {"drain", "expired", "deadline", "wait", "sleep"}
  /\ data \in 0 .. MaxUniverses /\ (has_write => data # 0)
  /\ has_write \in BOOLEAN
  /\ next_write \in 0 .. TickRange - 1 /\ now \in 0 .. TickRange - 1
  /\ dma_buffer \in 0 .. MaxUniverses /\ dma \in 0 .. PacketSize
  /\ fifo \in Seq(PacketSlots) /\ Len(fifo) <= FifoDepth
  /\ osr \in Seq(PacketSlots) /\ Len(osr) <= 1
  /\ line \in Seq(PacketSlots)
  /\ ticked \in BOOLEAN
  /\ late \in 0 .. MaxLate
  /\ since \in 0 .. Delay /\ wrapped \in BOOLEAN /\ hurried \in BOOLEAN

Init ==
  /\ requested = 0
  /\ dmx_write_queue = <<>>
  /\ pc = "drain"
  /\ data = 0
  /\ has_write = FALSE
  /\ next_write = 0
  /\ now = 0
  /\ dma_buffer = 0 /\ dma = 0
  /\ fifo = <<>> /\ osr = <<>> /\ line = <<>>
  /\ ticked = TRUE
  /\ late = 0 /\ since = Delay /\ wrapped = FALSE /\ hurried = FALSE

(* handle_m_dmx_write: a universe that finds the queue full is dropped.    *)
QueueUniverse ==
  /\ requested < MaxUniverses
  /\ requested' = requested + 1
  /\ dmx_write_queue' =
       IF Len(dmx_write_queue) < QueueLength
       THEN Append(dmx_write_queue, requested + 1) ELSE dmx_write_queue
  /\ UNCHANGED <<taskVars, now, outVars, ticked>>

(***************************************************************************)
(* task_dmx_tx.                                                            *)
(***************************************************************************)
TakeUniverse ==
  /\ pc = "drain"
  /\ dmx_write_queue # <<>>
  /\ data' = Head(dmx_write_queue)
  /\ has_write' = TRUE
  /\ dmx_write_queue' = Tail(dmx_write_queue)
  /\ UNCHANGED <<requested, pc, next_write, ghostVars, now, outVars, ticked>>

QueueEmpty ==
  /\ pc = "drain"
  /\ dmx_write_queue = <<>>
  /\ pc' = "expired"
  /\ UNCHANGED <<requested, dmx_write_queue, data, has_write, next_write, ghostVars, now,
                 outVars, ticked>>

AlwaysExpired == TRUE  \* mutant: the deadline is not looked at
ExpiredOnTick == now = next_write  \* mutant: "==" in place of ">="
IsExpired == now >= next_write

NotExpired ==
  /\ pc = "expired"
  /\ ~ IsExpired
  /\ pc' = "sleep"
  /\ UNCHANGED <<requested, dmx_write_queue, data, has_write, next_write, ghostVars, now,
                 outVars, ticked>>

Expired ==
  /\ pc = "expired"
  /\ IsExpired
  /\ pc' = "deadline"
  /\ UNCHANGED <<requested, dmx_write_queue, data, has_write, next_write, ghostVars, now,
                 outVars, ticked>>

(* NEXT_TIMEOUT, with the counter's width.                                 *)
NextTimeout ==
  /\ next_write' = (now + Delay) % TickRange
  /\ since' = 0
  /\ wrapped' = (now + Delay >= TickRange)
  /\ hurried' = wrapped

GiveUp ==  \* mutant: the write is given up when a packet is on its way
  /\ pc = "deadline"
  /\ NextTimeout
  /\ pc' = IF has_write /\ osr = <<>> /\ fifo = <<>> THEN "wait" ELSE "sleep"
  /\ has_write' = FALSE
  /\ UNCHANGED <<requested, dmx_write_queue, data, late, now, outVars, ticked>>

(* The next deadline; then dmx_write, if there is something to write.      *)
SetDeadline ==
  /\ pc = "deadline"
  /\ NextTimeout
  /\ pc' = IF has_write THEN "wait" ELSE "sleep"
  /\ has_write' = FALSE
  /\ UNCHANGED <<requested, dmx_write_queue, data, late, now, outVars, ticked>>

WritableDma == dma = 0  \* mutant: the FIFO is not looked at
dmx_is_writable == dma = 0 /\ fifo = <<>>

(* The buffer is filled, the state machine restarted, whatever it was      *)
(* shifting, and the transfer started.                                     *)
StartPacket ==
  /\ pc = "wait"
  /\ dmx_is_writable
  /\ dma_buffer' = data
  /\ osr' = <<>>
  /\ line' = <<>>
  /\ dma' = PacketSize
  /\ ticked' = FALSE
  /\ pc' = "sleep"
  /\ UNCHANGED <<requested, dmx_write_queue, data, has_write, next_write, ghostVars, now,
                 fifo>>

TaskStep ==
  TakeUniverse \/ QueueEmpty \/ NotExpired \/ Expired \/ SetDeadline \/ StartPacket

(***************************************************************************)
(* DMA, state machine and tick.                                            *)
(***************************************************************************)
TransferFree ==  \* mutant: the transfer is not paced by the FIFO
  /\ dma > 0
  /\ fifo' = Append(fifo, <<dma_buffer, PacketSize - dma + 1>>)
  /\ dma' = dma - 1
  /\ UNCHANGED <<requested, dmx_write_queue, taskVars, now, dma_buffer, osr, line, ticked>>

TransferSlot ==
  /\ dma > 0
  /\ Len(fifo) < FifoDepth
  /\ fifo' = Append(fifo, <<dma_buffer, PacketSize - dma + 1>>)
  /\ dma' = dma - 1
  /\ UNCHANGED <<requested, dmx_write_queue, taskVars, now, dma_buffer, osr, line, ticked>>

PullSlot ==
  /\ osr = <<>>
  /\ fifo # <<>>
  /\ osr' = <<Head(fifo)>>
  /\ fifo' = Tail(fifo)
  /\ UNCHANGED <<requested, dmx_write_queue, taskVars, now, dma_buffer, dma, line, ticked>>

ShiftSlot ==
  /\ osr # <<>>
  /\ line' = Append(line, osr[1])
  /\ osr' = <<>>
  /\ UNCHANGED <<requested, dmx_write_queue, taskVars, now, dma_buffer, dma, fifo, ticked>>

OutputStep == TransferSlot \/ PullSlot \/ ShiftSlot

Sending == dma > 0 \/ fifo # <<>> \/ osr # <<>>

(* The next tick: it wakes the task, or comes before its pass is over.  It *)
(* never comes to a task that waits in dmx_write for a packet to end: the  *)
(* tick of that packet has woken the task.                                 *)
Late == late < MaxLate /\ late' = late + 1

Tick ==
  /\ \/ pc = "sleep" /\ pc' = "drain" /\ late' = 0
     \/ pc # "sleep" /\ Late /\ UNCHANGED pc
  /\ ~ (Sending /\ ticked)
  /\ now' = (now + 1) % TickRange
  /\ since' = IF since < Delay THEN since + 1 ELSE since
  /\ ticked' = TRUE
  /\ UNCHANGED <<requested, dmx_write_queue, data, has_write, next_write, wrapped, hurried,
                 outVars>>

Next == QueueUniverse \/ TaskStep \/ OutputStep \/ Tick

(* The hardware runs, time passes, and the task, of low priority, gets the *)
(* processor in the end: the others of its core sleep in each pass.        *)
Fairness == WF_vars(TaskStep) /\ WF_vars(OutputStep) /\ WF_vars(Tick)

Spec == Init /\ [][Next]_vars
FairSpec == Spec /\ Fairness

(***************************************************************************)
(* Properties.                                                             *)
(***************************************************************************)

(* A packet is one universe, slot by slot: the buffer is not written while *)
(* the DMA reads it (dmx.c:96-112).                                        *)
OneUniverse ==
  \A i \in 1 .. Len(line) : line[i] = <<dma_buffer, i>>

(* "12Hz" (config.h:83): from one deadline that is set to the next there   *)
(* are Delay ticks, however late the passes are, unless the deadline was   *)
(* beyond the wrap of the counter (utils.h:16-17, dmx.c:147-149).          *)
Paced == [][pc = "expired" /\ pc' = "deadline" => since = Delay \/ wrapped]_vars

(* A pass finds the deadline expired when Delay ticks are over, unless     *)
(* deadline and pass are on two sides of the wrap: a late pass misses only *)
(* a deadline from which it may be late beyond the wrap, and then for a    *)
(* whole period (utils.h:16-17, dmx.c:147).                                *)
Missed == since = Delay /\ now < next_write
MissedAtWrapOnly == pc = "expired" /\ Missed => next_write + MaxLate >= TickRange

(* dmx_is_writable does not see the slot that is being shifted             *)
(* (dmx.c:125-128): the pace keeps the last slot from being cut, unless    *)
(* the deadline was beyond the wrap.                                       *)
NoSlotCut == pc = "wait" /\ dmx_is_writable /\ osr # <<>> => hurried

(* The last universe that got into the queue, or a later one, is shown in  *)
(* the end, whole, unless its deadline was missed (dmx.c:134-155).         *)
Queued(u) == \E i \in 1 .. Len(dmx_write_queue) : dmx_write_queue[i] = u
Shown(u) == Len(line) = PacketSize /\ line[1][1] >= u
LastIsShown == \A u \in Universes : Queued(u) ~> Shown(u) \/ Missed
=============================================================================
