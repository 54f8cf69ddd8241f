----------------------------- MODULE DmxProofs -----------------------------
(***************************************************************************)
(* Theorems about the DMX output, for every size of the packet and of the  *)
(* FIFO, every delay, and every place where the tick counter wraps.        *)
(***************************************************************************)
EXTENDS Dmx, Integers, TLAPS

(***************************************************************************)
(* The inductive invariant, in two parts.                                  *)
(*                                                                         *)
(* The slots of a packet are in line, OSR, FIFO and buffer, in this order. *)
(***************************************************************************)
SlotsInOrder ==
  /\ \A i \in 1 .. Len(line) : line[i] = <<dma_buffer, i>>
  /\ \A i \in 1 .. Len(osr) : osr[i] = <<dma_buffer, Len(line) + i>>
  /\ \A i \in 1 .. Len(fifo) : fifo[i] = <<dma_buffer, Len(line) + Len(osr) + i>>
  /\ Len(line) + Len(osr) + Len(fifo) + dma \in {0, PacketSize}

(* What is written, and what is read from the buffer, is a universe.       *)
SomeUniverse ==
  /\ pc = "wait" => data \in Universes
  /\ dma > 0 => dma_buffer \in Universes

(***************************************************************************)
(* While since counts, it says how far the deadline is.  When it has       *)
(* stopped, the deadline is over for as long as the pass is late, and this *)
(* pass finds it so, unless the counter may wrap in between.  A pass has   *)
(* come to its writing with less ticks than it may be late, and a packet   *)
(* adds one tick to them.                                                  *)
(***************************************************************************)
DeadlineAhead ==
  since < Delay =>
    \/ now + (Delay - since) = next_write
    \/ wrapped /\ now + (Delay - since) = next_write + TickRange
DeadlineOver ==
  since = Delay /\ next_write + MaxLate < TickRange =>
    /\ pc \in {"drain", "expired", "deadline"}
    /\ pc # "deadline" => next_write <= now /\ now <= next_write + late
FoundExpired == pc = "deadline" => since = Delay \/ wrapped
SoonWritten == pc = "wait" => since <= late
SoonSent == Sending => since <= MaxLate + (IF ticked THEN 1 ELSE 0)
SentBefore == pc = "wait" /\ Sending => hurried

OutputInv == TypeOK /\ SlotsInOrder /\ SomeUniverse
TimeInv ==
  /\ DeadlineAhead /\ DeadlineOver /\ FoundExpired
  /\ SoonWritten /\ SoonSent /\ SentBefore
Inv == OutputInv /\ TimeInv

(* The next tick, and a deadline, of a counter that wraps.                 *)
LEMMA Wrap ==
  ASSUME NEW t \in 0 .. TickRange - 1, NEW d \in 0 .. TickRange - 1
  PROVE  (t + d) % TickRange = IF t + d >= TickRange THEN t + d - TickRange ELSE t + d
<1>1. ASSUME NEW m \in Nat \ {0}, NEW a \in 0 .. m - 1, NEW b \in 0 .. m - 1
      PROVE  (a + b) % m = IF a + b >= m THEN a + b - m ELSE a + b
  OBVIOUS
<1>2. TickRange \in Nat \ {0}
  BY DmxAssumption
<1> QED BY <1>1, <1>2, Zenon

(* What tail and append do to a sequence, index by index.                  *)
LEMMA HeadFacts ==
  ASSUME NEW S, NEW q \in Seq(S), q # <<>>
  PROVE  /\ Head(q) \in S /\ Head(q) = q[1] /\ Len(q) \in Nat \ {0}
         /\ Tail(q) \in Seq(S) /\ Len(Tail(q)) = Len(q) - 1
         /\ \A i \in 1 .. Len(Tail(q)) : i + 1 \in 1 .. Len(q) /\ Tail(q)[i] = q[i + 1]
  OBVIOUS

(* What append does to a sequence, index by index.                         *)
LEMMA AppendFacts ==
  ASSUME NEW S, NEW q \in Seq(S), NEW e \in S
  PROVE  /\ Append(q, e) \in Seq(S) /\ Len(Append(q, e)) = Len(q) + 1
         /\ Append(q, e)[Len(q) + 1] = e
         /\ \A i \in 1 .. Len(q) : Append(q, e)[i] = q[i]
  OBVIOUS

(***************************************************************************)
(* Slots.                                                                  *)
(***************************************************************************)
(* A slot that is transferred is the next one of the packet.               *)
LEMMA TransferNext ==
  ASSUME OutputInv, TransferSlot
  PROVE  /\ fifo' \in Seq(PacketSlots) /\ Len(fifo') <= FifoDepth
         /\ dma' \in 0 .. PacketSize /\ SlotsInOrder'
<1> DEFINE n == PacketSize - dma + 1
           e == <<dma_buffer, n>>
<1>t. /\ fifo \in Seq(PacketSlots) /\ line \in Seq(PacketSlots) /\ osr \in Seq(PacketSlots)
      /\ dma \in Nat /\ dma > 0 /\ PacketSize \in Nat /\ dma <= PacketSize
      /\ FifoDepth \in Nat /\ Len(fifo) < FifoDepth
      /\ dma' = dma - 1 /\ UNCHANGED <<dma_buffer, line, osr>>
  BY DmxAssumption DEF OutputInv, TypeOK, TransferSlot
<1>l. Len(fifo) \in Nat /\ Len(line) \in Nat /\ Len(osr) \in Nat
  BY <1>t
<1>1. n \in 1 .. PacketSize /\ dma' \in 0 .. PacketSize
  BY <1>t
<1>2. e \in PacketSlots
  BY <1>t, <1>1 DEF OutputInv, SomeUniverse, PacketSlots
<1>3. n = Len(line) + Len(osr) + Len(fifo) + 1
  BY <1>t, <1>l DEF OutputInv, SlotsInOrder
<1>4. fifo' = Append(fifo, e)
  BY DEF TransferSlot
<1>5. /\ fifo' \in Seq(PacketSlots) /\ Len(fifo') = Len(fifo) + 1
      /\ fifo'[Len(fifo) + 1] = e /\ \A i \in 1 .. Len(fifo) : fifo'[i] = fifo[i]
  BY <1>t, <1>2, <1>4, AppendFacts
<1>6. ASSUME NEW i \in 1 .. Len(fifo')
      PROVE  fifo'[i] = <<dma_buffer, Len(line) + Len(osr) + i>>
  <2>1. CASE i \in 1 .. Len(fifo)
    BY <1>5, <2>1 DEF OutputInv, SlotsInOrder
  <2>2. CASE i = Len(fifo) + 1
    BY <1>l, <1>3, <1>5, <2>2
  <2> QED BY <1>l, <1>5, <2>1, <2>2
<1>7. Len(line) + Len(osr) + Len(fifo') + dma' \in {0, PacketSize}
  <2>1. Len(line) + Len(osr) + Len(fifo') + dma' = Len(line) + Len(osr) + Len(fifo) + dma
    BY <1>t, <1>l, <1>5
  <2> QED BY <2>1 DEF OutputInv, SlotsInOrder
<1>8. SlotsInOrder'
  BY <1>t, <1>6, <1>7 DEF OutputInv, SlotsInOrder
<1> QED BY <1>t, <1>l, <1>1, <1>5, <1>8

(* The slot that is pulled out of the FIFO is the first one in it ...      *)
LEMMA PullNext ==
  ASSUME OutputInv, PullSlot
  PROVE  /\ fifo' \in Seq(PacketSlots) /\ Len(fifo') <= FifoDepth
         /\ osr' \in Seq(PacketSlots) /\ Len(osr') = 1 /\ SlotsInOrder'
<1>t. /\ fifo \in Seq(PacketSlots) /\ line \in Seq(PacketSlots) /\ dma \in Nat
      /\ FifoDepth \in Nat /\ Len(fifo) <= FifoDepth
      /\ fifo # <<>> /\ osr = <<>> /\ osr' = <<Head(fifo)>> /\ fifo' = Tail(fifo)
      /\ UNCHANGED <<dma_buffer, line, dma>>
  BY DmxAssumption DEF OutputInv, TypeOK, PullSlot
<1>l. Len(fifo) \in Nat /\ Len(line) \in Nat /\ Len(osr) = 0
  BY <1>t
<1>1. /\ Head(fifo) \in PacketSlots /\ Head(fifo) = fifo[1] /\ Len(fifo) \in Nat \ {0}
      /\ fifo' \in Seq(PacketSlots) /\ Len(fifo') = Len(fifo) - 1
      /\ \A i \in 1 .. Len(fifo') : i + 1 \in 1 .. Len(fifo) /\ fifo'[i] = fifo[i + 1]
  BY <1>t, HeadFacts
<1>2. osr' \in Seq(PacketSlots) /\ Len(osr') = 1 /\ osr'[1] = fifo[1]
  BY <1>t, <1>1
<1>3. \A i \in 1 .. Len(fifo) : fifo[i] = <<dma_buffer, Len(line) + Len(osr) + i>>
  BY DEF OutputInv, SlotsInOrder
<1>4. ASSUME NEW i \in 1 .. Len(osr') PROVE osr'[i] = <<dma_buffer, Len(line) + i>>
  <2>1. i = 1
    BY <1>2
  <2> QED BY <1>l, <1>1, <1>2, <1>3, <2>1
<1>5. ASSUME NEW i \in 1 .. Len(fifo')
      PROVE  fifo'[i] = <<dma_buffer, Len(line) + Len(osr') + i>>
  <2>1. i + 1 \in 1 .. Len(fifo) /\ fifo'[i] = fifo[i + 1] /\ i \in Nat
    BY <1>1
  <2>2. Len(line) + Len(osr) + (i + 1) = Len(line) + Len(osr') + i
    BY <1>l, <1>2, <2>1
  <2> QED BY <1>3, <2>1, <2>2
<1>6. Len(line) + Len(osr') + Len(fifo') + dma \in {0, PacketSize}
  BY <1>t, <1>l, <1>1, <1>2 DEF OutputInv, SlotsInOrder
<1>7. SlotsInOrder'
  BY <1>t, <1>4, <1>5, <1>6 DEF OutputInv, SlotsInOrder
<1> QED BY <1>t, <1>l, <1>1, <1>2, <1>7

(* ... and the one that is shifted out is the next one on the line.        *)
LEMMA ShiftNext ==
  ASSUME OutputInv, ShiftSlot
  PROVE  line' \in Seq(PacketSlots) /\ SlotsInOrder'
<1>t. /\ fifo \in Seq(PacketSlots) /\ line \in Seq(PacketSlots) /\ dma \in Nat
      /\ osr \in Seq(PacketSlots) /\ osr # <<>> /\ Len(osr) <= 1
      /\ osr' = <<>> /\ UNCHANGED <<dma_buffer, fifo, dma>>
      /\ line' = Append(line, osr[1])
  BY DEF OutputInv, TypeOK, ShiftSlot
<1>l. Len(fifo) \in Nat /\ Len(line) \in Nat /\ Len(osr) = 1 /\ Len(osr') = 0
      /\ osr[1] \in PacketSlots
  <2>1. Len(osr) \in Nat \ {0} /\ Head(osr) = osr[1] /\ Head(osr) \in PacketSlots
    BY <1>t, HeadFacts
  <2>2. ASSUME NEW n \in Nat \ {0}, n <= 1 PROVE n = 1
    BY <2>2
  <2>3. Len(osr) = 1
    BY <1>t, <2>1, <2>2, Zenon
  <2> QED BY <1>t, <2>1, <2>3
<1>1. osr[1] = <<dma_buffer, Len(line) + 1>>
  BY <1>l DEF OutputInv, SlotsInOrder
<1>2. /\ line' \in Seq(PacketSlots) /\ Len(line') = Len(line) + 1
      /\ line'[Len(line) + 1] = osr[1] /\ \A i \in 1 .. Len(line) : line'[i] = line[i]
  BY <1>t, <1>l, AppendFacts
<1>3. ASSUME NEW i \in 1 .. Len(line') PROVE line'[i] = <<dma_buffer, i>>
  <2>1. CASE i \in 1 .. Len(line)
    BY <1>2, <2>1 DEF OutputInv, SlotsInOrder
  <2>2. CASE i = Len(line) + 1
    BY <1>1, <1>2, <2>2
  <2> QED BY <1>l, <1>2, <2>1, <2>2
<1>4. ASSUME NEW i \in 1 .. Len(fifo)
      PROVE  fifo[i] = <<dma_buffer, Len(line') + Len(osr') + i>>
  <2>1. Len(line) + Len(osr) + i = Len(line') + Len(osr') + i
    BY <1>l, <1>2
  <2> QED BY <2>1 DEF OutputInv, SlotsInOrder
<1>5. Len(line') + Len(osr') + Len(fifo) + dma \in {0, PacketSize}
  BY <1>t, <1>l, <1>2 DEF OutputInv, SlotsInOrder
<1>6. \A i \in 1 .. Len(osr') : osr'[i] = <<dma_buffer, Len(line') + i>>
  BY <1>l
<1>7. SlotsInOrder'
  BY <1>t, <1>3, <1>4, <1>5, <1>6 DEF SlotsInOrder
<1> QED BY <1>2, <1>7

(* The types and the slots keep their invariant.                           *)
LEMMA OutputNext ==
  ASSUME OutputInv, [Next]_vars
  PROVE  OutputInv'
<1> USE DEF Universes
<1>c. /\ MaxUniverses \in Nat /\ QueueLength \in Nat \ {0} /\ PacketSize \in Nat \ {0}
      /\ Delay \in Nat /\ TickRange \in Nat /\ Delay < TickRange /\ MaxLate \in Nat
  BY DmxAssumption
<1>t. TypeOK /\ SlotsInOrder /\ SomeUniverse
  BY DEF OutputInv
<1>s. UNCHANGED outVars => SlotsInOrder'
  BY <1>t DEF outVars, SlotsInOrder
<1>1. CASE UNCHANGED vars
  BY <1>1, <1>t, <1>s DEF vars, taskVars, ghostVars, outVars, TypeOK, SomeUniverse, OutputInv
<1>2. CASE QueueUniverse
  <2>1. /\ dmx_write_queue' \in Seq(Universes) /\ Len(dmx_write_queue') <= QueueLength
        /\ requested' \in 0 .. MaxUniverses
    <3>1. /\ dmx_write_queue \in Seq(Universes) /\ Len(dmx_write_queue) \in Nat
          /\ requested + 1 \in Universes /\ Len(dmx_write_queue) <= QueueLength
          /\ requested' = requested + 1
      BY <1>2, <1>c, <1>t DEF QueueUniverse, TypeOK
    <3>2. CASE Len(dmx_write_queue) < QueueLength
      <4>1. dmx_write_queue' = Append(dmx_write_queue, requested + 1)
        BY <1>2, <3>2 DEF QueueUniverse
      <4>2. /\ dmx_write_queue' \in Seq(Universes)
            /\ Len(dmx_write_queue') = Len(dmx_write_queue) + 1
        BY <3>1, <4>1, AppendFacts
      <4> QED BY <1>c, <3>1, <3>2, <4>2
    <3>3. CASE ~ (Len(dmx_write_queue) < QueueLength)
      BY <1>2, <3>1, <3>3 DEF QueueUniverse
    <3> QED BY <3>2, <3>3
  <2> QED BY <1>2, <1>t, <1>s, <2>1
          DEF QueueUniverse, taskVars, ghostVars, outVars, TypeOK, SomeUniverse, OutputInv
<1>3. CASE TakeUniverse
  <2>1. /\ dmx_write_queue' \in Seq(Universes) /\ Len(dmx_write_queue') <= QueueLength
        /\ data' \in Universes /\ has_write' = TRUE
    <3>1. dmx_write_queue \in Seq(Universes) /\ dmx_write_queue # <<>>
      BY <1>3, <1>t DEF TakeUniverse, TypeOK
    <3>2. /\ Head(dmx_write_queue) \in Universes /\ Len(dmx_write_queue) \in Nat
          /\ Tail(dmx_write_queue) \in Seq(Universes)
          /\ Len(Tail(dmx_write_queue)) = Len(dmx_write_queue) - 1
      BY <3>1, HeadFacts
    <3> QED BY <1>3, <1>c, <1>t, <3>2 DEF TakeUniverse, TypeOK
  <2> QED BY <1>3, <1>c, <1>t, <1>s, <2>1
          DEF TakeUniverse, ghostVars, outVars, TypeOK, SomeUniverse, OutputInv
<1>4. CASE QueueEmpty \/ NotExpired \/ Expired
  BY <1>4, <1>t, <1>s DEF QueueEmpty, NotExpired, Expired, ghostVars, outVars, TypeOK,
     SomeUniverse, OutputInv
<1>5. CASE SetDeadline
  <2>1. /\ next_write' \in 0 .. TickRange - 1 /\ since' = 0
        /\ wrapped' \in BOOLEAN /\ hurried' \in BOOLEAN
    <3>1. now \in 0 .. TickRange - 1 /\ Delay \in 0 .. TickRange - 1
      BY <1>c, <1>t DEF TypeOK
    <3>2. next_write' = IF now + Delay >= TickRange THEN now + Delay - TickRange ELSE now + Delay
      BY <1>5, <3>1, Wrap DEF SetDeadline, NextTimeout
    <3>3. next_write' \in 0 .. TickRange - 1
      BY <1>c, <3>1, <3>2
    <3> QED BY <1>5, <1>t, <3>3 DEF SetDeadline, NextTimeout, TypeOK
  <2>2. pc' \in {"wait", "sleep"} /\ has_write' = FALSE /\ (pc' = "wait" => data \in Universes)
    BY <1>5, <1>c, <1>t DEF SetDeadline, TypeOK
  <2>3. UNCHANGED <<requested, dmx_write_queue, data, late, now, outVars, ticked>>
    BY <1>5 DEF SetDeadline
  <2>4. TypeOK'
    <3>1. has_write' \in BOOLEAN /\ (has_write' => data' # 0)
      BY <2>2
    <3>2. since' \in 0 .. Delay
      BY <1>c, <2>1
    <3> QED BY <1>t, <2>1, <2>2, <2>3, <3>1, <3>2, Zenon DEF outVars, TypeOK
  <2> QED BY <1>s, <1>t, <2>2, <2>3, <2>4 DEF outVars, SomeUniverse, OutputInv
<1>6. CASE StartPacket
  <2>1. /\ osr' = <<>> /\ line' = <<>> /\ fifo' = <<>> /\ dma' = PacketSize
        /\ dma_buffer' \in Universes /\ pc' = "sleep" /\ ticked' = FALSE
    BY <1>6, <1>t DEF StartPacket, dmx_is_writable, SomeUniverse
  <2>2. SlotsInOrder'
    BY <1>c, <2>1 DEF SlotsInOrder
  <2>3. UNCHANGED <<requested, dmx_write_queue, data, has_write, next_write, ghostVars, now,
                    fifo>>
    BY <1>6 DEF StartPacket
  <2>4. TypeOK'
    <3>1. /\ osr' \in Seq(PacketSlots) /\ Len(osr') <= 1 /\ line' \in Seq(PacketSlots)
          /\ fifo' \in Seq(PacketSlots) /\ Len(fifo') <= FifoDepth
      BY <1>t, <2>1, <2>3 DEF TypeOK
    <3>2. dma_buffer' \in 0 .. MaxUniverses /\ dma' \in 0 .. PacketSize
      BY <1>c, <2>1
    <3>3. has_write' \in BOOLEAN /\ (has_write' => data' # 0) /\ ticked' \in BOOLEAN
      BY <1>t, <2>1, <2>3, Zenon DEF TypeOK
    <3> QED BY <1>t, <2>1, <2>3, <3>1, <3>2, <3>3, Zenon DEF ghostVars, TypeOK
  <2>5. SomeUniverse'
    BY <2>1 DEF SomeUniverse
  <2> QED BY <2>2, <2>4, <2>5 DEF OutputInv
<1>7. CASE TransferSlot
  BY <1>7, <1>t, TransferNext
     DEF TransferSlot, taskVars, ghostVars, TypeOK, SomeUniverse, OutputInv
<1>8. CASE PullSlot
  BY <1>8, <1>t, PullNext DEF PullSlot, taskVars, ghostVars, TypeOK, SomeUniverse, OutputInv
<1>9. CASE ShiftSlot
  <2>1. osr' = <<>> /\ osr' \in Seq(PacketSlots) /\ Len(osr') <= 1
    BY <1>9 DEF ShiftSlot
  <2> QED BY <1>9, <1>t, <2>1, ShiftNext
          DEF ShiftSlot, taskVars, ghostVars, TypeOK, SomeUniverse, OutputInv
<1>10. CASE Tick
  <2>1. /\ now' \in 0 .. TickRange - 1 /\ since' \in 0 .. Delay /\ ticked' = TRUE
        /\ late' \in 0 .. MaxLate /\ pc' \in {pc, "drain"}
    <3>1. now \in 0 .. TickRange - 1 /\ 1 \in 0 .. TickRange - 1
      BY <1>c, <1>t, DmxAssumption DEF TypeOK
    <3>2. now' = IF now + 1 >= TickRange THEN now + 1 - TickRange ELSE now + 1
      BY <1>10, <3>1, Wrap DEF Tick
    <3>3. now' \in 0 .. TickRange - 1
      BY <1>c, <3>1, <3>2
    <3> QED BY <1>10, <1>c, <1>t, <3>3 DEF Tick, Late, TypeOK
  <2> QED BY <1>10, <1>t, <1>s, <2>1 DEF Tick, outVars, TypeOK, SomeUniverse, OutputInv
<1> QED BY <1>1, <1>2, <1>3, <1>4, <1>5, <1>6, <1>7, <1>8, <1>9, <1>10
        DEF Next, TaskStep, OutputStep

(***************************************************************************)
(* Time.                                                                   *)
(***************************************************************************)
(* The values of what the proofs about time compute with.                  *)
LEMMA TimeFacts ==
  ASSUME TypeOK
  PROVE  /\ Delay \in Nat /\ TickRange \in Nat /\ Delay < TickRange
         /\ MaxLate \in Nat /\ MaxLate + 2 <= Delay
         /\ now \in Nat /\ now < TickRange /\ next_write \in Nat /\ next_write < TickRange
         /\ late \in Nat /\ late <= MaxLate /\ since \in Nat /\ since <= Delay
         /\ ticked \in BOOLEAN /\ wrapped \in BOOLEAN /\ hurried \in BOOLEAN
<1>1. Delay \in Nat /\ TickRange \in Nat /\ MaxLate \in Nat
  BY DmxAssumption
<1>2. ticked \in BOOLEAN /\ wrapped \in BOOLEAN /\ hurried \in BOOLEAN
  BY Zenon DEF TypeOK
<1>3. now \in Nat /\ now < TickRange /\ next_write \in Nat /\ next_write < TickRange
  BY <1>1 DEF TypeOK
<1> QED BY <1>1, <1>2, <1>3, DmxAssumption DEF TypeOK

(* A step of the output hardware changes no clock and starts no packet.    *)
LEMMA TimeOutput ==
  ASSUME TimeInv, OutputStep
  PROVE  TimeInv'
<1>1. UNCHANGED <<taskVars, now, ticked>> /\ (Sending' => Sending)
  BY DEF OutputStep, TransferSlot, PullSlot, ShiftSlot, Sending
<1> QED BY <1>1 DEF TimeInv, DeadlineAhead, DeadlineOver, FoundExpired, SoonWritten, SoonSent,
           SentBefore, taskVars, ghostVars

(* A deadline is Delay ticks ahead, beyond the wrap or not.                *)
LEMMA TimeSetDeadline ==
  ASSUME TypeOK, TimeInv, SetDeadline
  PROVE  TimeInv'
<1>t. /\ Delay \in Nat /\ TickRange \in Nat /\ Delay < TickRange
      /\ MaxLate \in Nat /\ MaxLate + 2 <= Delay
      /\ now \in Nat /\ now < TickRange /\ late \in Nat
  BY TimeFacts
<1>1. /\ pc = "deadline" /\ pc' \in {"wait", "sleep"}
      /\ UNCHANGED <<late, now, ticked>> /\ since' = 0
      /\ wrapped' = (now + Delay >= TickRange) /\ hurried' = wrapped
      /\ next_write' = (now + Delay) % TickRange
      /\ Sending' = Sending
  BY DEF SetDeadline, NextTimeout, Sending, outVars
<1>2. next_write' = IF now + Delay >= TickRange THEN now + Delay - TickRange ELSE now + Delay
  BY <1>t, <1>1, Wrap
<1>3. DeadlineAhead'
  <2>1. CASE now + Delay >= TickRange
    <3>1. wrapped'
      BY <1>1, <2>1
    <3>2. now' + (Delay - since') = next_write' + TickRange
      BY <1>t, <1>1, <1>2, <2>1
    <3> QED BY <3>1, <3>2, Zenon DEF DeadlineAhead
  <2>2. CASE ~ (now + Delay >= TickRange)
    BY <1>t, <1>1, <1>2, <2>2 DEF DeadlineAhead
  <2> QED BY <2>1, <2>2
<1>4. since' # Delay /\ since' <= late' /\ since' <= MaxLate
  BY <1>t, <1>1
<1>5. SoonSent'
  <2>1. since' <= MaxLate + (IF ticked' THEN 1 ELSE 0)
    BY <1>t, <1>1
  <2> QED BY <2>1 DEF SoonSent
<1>6. SentBefore'
  <2>1. Sending => wrapped
    <3>1. ASSUME Sending PROVE since # Delay
      BY <1>t, <3>1, TimeFacts DEF TimeInv, SoonSent
    <3> QED BY <1>1, <3>1 DEF TimeInv, FoundExpired
  <2> QED BY <1>1, <2>1, Zenon DEF SentBefore
<1>7. DeadlineOver' /\ FoundExpired' /\ SoonWritten'
  BY <1>1, <1>4 DEF DeadlineOver, FoundExpired, SoonWritten
<1> QED BY <1>3, <1>5, <1>6, <1>7 DEF TimeInv

(* A tick.                                                                 *)
LEMMA TimeTick ==
  ASSUME TypeOK, TimeInv, Tick
  PROVE  TimeInv'
<1>t. /\ Delay \in Nat /\ TickRange \in Nat /\ Delay < TickRange
      /\ MaxLate \in Nat /\ MaxLate + 2 <= Delay
      /\ now \in Nat /\ now < TickRange /\ next_write \in Nat /\ next_write < TickRange
      /\ late \in Nat /\ late <= MaxLate /\ since \in Nat /\ since <= Delay
  BY TimeFacts
<1>1. /\ ~ (Sending /\ ticked) /\ ticked' = TRUE /\ Sending' = Sending
      /\ since' = IF since < Delay THEN since + 1 ELSE since
      /\ UNCHANGED <<next_write, wrapped, hurried>>
  BY DEF Tick, Sending, outVars
<1>2. \/ pc = "sleep" /\ pc' = "drain" /\ late' = 0
      \/ pc # "sleep" /\ pc' = pc /\ late < MaxLate /\ late' = late + 1
  BY DEF Tick, Late
<1>3. now' = IF now + 1 >= TickRange THEN 0 ELSE now + 1
  <2>1. now' = (now + 1) % TickRange
    BY DEF Tick
  <2>2. now' = IF now + 1 >= TickRange THEN now + 1 - TickRange ELSE now + 1
    BY <1>t, <2>1, Wrap
  <2> QED BY <1>t, <2>2
<1>a. \/ ~ (since < Delay)
      \/ now + (Delay - since) = next_write
      \/ wrapped /\ now + (Delay - since) = next_write + TickRange
  BY DEF TimeInv, DeadlineAhead
<1>4. DeadlineAhead'
  <2>1. CASE now + 1 >= TickRange
    BY <1>t, <1>1, <1>3, <1>a, <2>1 DEF DeadlineAhead
  <2>2. CASE ~ (now + 1 >= TickRange)
    BY <1>t, <1>1, <1>3, <1>a, <2>2 DEF DeadlineAhead
  <2> QED BY <2>1, <2>2
<1>5. SoonWritten'
  BY <1>t, <1>1, <1>2 DEF TimeInv, SoonWritten
<1>6. DeadlineOver'
  <2> SUFFICES ASSUME since' = Delay, next_write + MaxLate < TickRange
               PROVE  /\ pc' \in {"drain", "expired", "deadline"}
                      /\ pc' # "deadline" => next_write <= now' /\ now' <= next_write + late'
    BY <1>1 DEF DeadlineOver
  <2>1. CASE since = Delay
    <3>1. /\ pc \in {"drain", "expired", "deadline"}
          /\ pc # "deadline" => next_write <= now /\ now <= next_write + late
      BY <2>1 DEF TimeInv, DeadlineOver
    <3>2. pc' = pc /\ late' = late + 1 /\ late < MaxLate
      BY <1>2, <3>1
    <3> QED BY <1>t, <1>3, <3>1, <3>2
  <2>2. CASE since # Delay
    <3>1. since + 1 = Delay
      BY <1>t, <1>1, <2>2
    <3>2. now' = next_write
      BY <1>t, <1>3, <1>a, <3>1
    <3>3. pc' # "wait"
      BY <1>t, <1>1, <1>2, <1>5 DEF SoonWritten
    <3>4. pc' \in {"drain", "expired", "deadline"} /\ late' \in Nat
      BY <1>t, <1>2, <3>3 DEF TypeOK
    <3>5. next_write <= now' /\ now' <= next_write + late'
      <4>1. ASSUME NEW n \in Nat, NEW m \in Nat PROVE n <= n /\ n <= n + m
        BY <4>1
      <4> QED BY <1>t, <3>2, <3>4, <4>1, Zenon
    <3> QED BY <3>4, <3>5
  <2> QED BY <2>1, <2>2
<1>7. FoundExpired'
  BY <1>t, <1>1, <1>2 DEF TimeInv, FoundExpired
<1>8. SoonSent'
  <2>1. ASSUME Sending PROVE since' <= MaxLate + 1
    <3>1. since <= MaxLate
      BY <1>t, <1>1, <2>1 DEF TimeInv, SoonSent
    <3> QED BY <1>t, <1>1, <3>1
  <2> QED BY <1>1, <2>1 DEF SoonSent
<1>9. SentBefore'
  BY <1>1, <1>2, Zenon DEF TimeInv, SentBefore
<1> QED BY <1>4, <1>5, <1>6, <1>7, <1>8, <1>9 DEF TimeInv

(* The other steps of the task.                                            *)
LEMMA TimeTask ==
  ASSUME TypeOK, TimeInv, TakeUniverse \/ QueueEmpty \/ NotExpired \/ Expired \/ StartPacket
  PROVE  TimeInv'
<1>t. /\ Delay \in Nat /\ MaxLate \in Nat /\ MaxLate + 2 <= Delay
      /\ now \in Nat /\ next_write \in Nat /\ TickRange \in Nat
      /\ late \in Nat /\ late <= MaxLate /\ since \in Nat /\ since <= Delay
  BY TimeFacts
<1>1. CASE TakeUniverse
  <2>1. UNCHANGED <<pc, next_write, ghostVars, now, outVars, ticked>>
    BY <1>1 DEF TakeUniverse
  <2> QED BY <2>1 DEF TimeInv, DeadlineAhead, DeadlineOver, FoundExpired, SoonWritten,
             SoonSent, SentBefore, Sending, outVars, ghostVars
<1>2. CASE QueueEmpty
  <2>1. /\ pc = "drain" /\ pc' = "expired"
        /\ UNCHANGED <<next_write, ghostVars, now, outVars, ticked>>
    BY <1>2 DEF QueueEmpty
  <2> QED BY <2>1 DEF TimeInv, DeadlineAhead, DeadlineOver, FoundExpired, SoonWritten,
             SoonSent, SentBefore, Sending, outVars, ghostVars
<1>3. CASE NotExpired
  <2>1. /\ pc = "expired" /\ pc' = "sleep" /\ ~ (now >= next_write)
        /\ UNCHANGED <<next_write, ghostVars, now, outVars, ticked>>
    BY <1>3 DEF NotExpired, IsExpired
  <2>2. ~ (since = Delay /\ next_write + MaxLate < TickRange)
    BY <1>t, <2>1 DEF TimeInv, DeadlineOver
  <2> QED BY <2>1, <2>2 DEF TimeInv, DeadlineAhead, DeadlineOver, FoundExpired, SoonWritten,
             SoonSent, SentBefore, Sending, outVars, ghostVars
<1>4. CASE Expired
  <2>1. /\ pc = "expired" /\ pc' = "deadline" /\ now >= next_write
        /\ UNCHANGED <<next_write, ghostVars, now, outVars, ticked>>
    BY <1>4 DEF Expired, IsExpired
  <2>2. since = Delay \/ wrapped
    BY <1>t, <2>1 DEF TimeInv, DeadlineAhead
  <2> QED BY <2>1, <2>2 DEF TimeInv, DeadlineAhead, DeadlineOver, FoundExpired, SoonWritten,
             SoonSent, SentBefore, Sending, outVars, ghostVars
<1>5. CASE StartPacket
  <2>1. /\ pc = "wait" /\ pc' = "sleep" /\ ticked' = FALSE
        /\ UNCHANGED <<next_write, ghostVars, now>>
    BY <1>5 DEF StartPacket
  <2>2. since <= MaxLate /\ since # Delay
    BY <1>t, <2>1 DEF TimeInv, SoonWritten
  <2>3. SoonSent'
    BY <1>t, <2>1, <2>2 DEF SoonSent, ghostVars
  <2> QED BY <2>1, <2>2, <2>3 DEF TimeInv, DeadlineAhead, DeadlineOver, FoundExpired,
             SoonWritten, SentBefore, ghostVars
<1> QED BY <1>1, <1>2, <1>3, <1>4, <1>5

(* Deadlines keep their invariant.                                         *)
LEMMA TimeNext ==
  ASSUME TypeOK, TimeInv, [Next]_vars
  PROVE  TimeInv'
<1>1. CASE UNCHANGED vars \/ QueueUniverse
  <2>1. UNCHANGED <<taskVars, now, outVars, ticked>>
    BY <1>1 DEF vars, QueueUniverse
  <2> QED BY <2>1 DEF TimeInv, DeadlineAhead, DeadlineOver, FoundExpired, SoonWritten,
             SoonSent, SentBefore, Sending, outVars, taskVars, ghostVars
<1> QED BY <1>1, TimeOutput, TimeSetDeadline, TimeTick, TimeTask DEF Next, TaskStep

(* The first pass finds its deadline expired, and nothing is sent.         *)
LEMMA InvInit ==
  ASSUME Init
  PROVE  Inv
<1>c. /\ MaxUniverses \in Nat /\ QueueLength \in Nat \ {0} /\ PacketSize \in Nat \ {0}
      /\ FifoDepth \in Nat \ {0}
      /\ Delay \in Nat /\ TickRange \in Nat /\ Delay < TickRange /\ MaxLate \in Nat
  BY DmxAssumption
<1>1. TypeOK
  <2>1. /\ requested \in 0 .. MaxUniverses /\ data \in 0 .. MaxUniverses
        /\ dma_buffer \in 0 .. MaxUniverses /\ dma \in 0 .. PacketSize
        /\ next_write \in 0 .. TickRange - 1 /\ now \in 0 .. TickRange - 1
        /\ late \in 0 .. MaxLate /\ since \in 0 .. Delay
    BY <1>c DEF Init
  <2>2. /\ dmx_write_queue \in Seq(Universes) /\ Len(dmx_write_queue) <= QueueLength
        /\ fifo \in Seq(PacketSlots) /\ Len(fifo) <= FifoDepth
        /\ osr \in Seq(PacketSlots) /\ Len(osr) <= 1 /\ line \in Seq(PacketSlots)
    BY <1>c DEF Init
  <2>3. /\ has_write \in BOOLEAN /\ (has_write => data # 0) /\ ticked \in BOOLEAN
        /\ wrapped \in BOOLEAN /\ hurried \in BOOLEAN
        /\ pc \in {"drain", "expired", "deadline", "wait", "sleep"}
    BY DEF Init
  <2> QED BY <2>1, <2>2, <2>3, Zenon DEF TypeOK
<1>2. SlotsInOrder /\ SomeUniverse
  BY <1>c DEF Init, SlotsInOrder, SomeUniverse
<1>3. TimeInv
  BY <1>c DEF Init, TimeInv, DeadlineAhead, DeadlineOver, FoundExpired, SoonWritten, SoonSent,
     SentBefore, Sending
<1> QED BY <1>1, <1>2, <1>3 DEF Inv, OutputInv

(* The invariant holds at every time.                                      *)
LEMMA InvCorrect == Spec => []Inv
<1>1. Inv /\ [Next]_vars => Inv'
  BY OutputNext, TimeNext DEF Inv, OutputInv
<1> QED BY <1>1, InvInit, PTL DEF Spec

(***************************************************************************)
(* The theorems.                                                           *)
(***************************************************************************)
(* Every variable keeps its type, and the DMA overflows no FIFO            *)
(* (dmx.c:60-112).                                                         *)
THEOREM TypeCorrect == Spec => []TypeOK
  BY InvCorrect, PTL DEF Inv, OutputInv

(* A packet is one universe, slot by slot, and every slot is sent in its   *)
(* place: the buffer is not written while the DMA reads it (dmx.c:96-128). *)
THEOREM OneUniverseCorrect == Spec => []OneUniverse
<1>1. Inv => OneUniverse
  BY DEF Inv, OutputInv, SlotsInOrder, OneUniverse
<1> QED BY <1>1, InvCorrect, PTL

(* However late the passes are, a deadline is set Delay ticks after the    *)
(* one before, unless that was beyond the wrap (utils.h:16-17,             *)
(* dmx.c:147-149).                                                         *)
THEOREM PacedCorrect == Spec => Paced
<1>1. Inv /\ [Next]_vars => [pc = "expired" /\ pc' = "deadline" => since = Delay \/ wrapped]_vars
  <2> SUFFICES ASSUME Inv, Inv', [Next]_vars, pc = "expired", pc' = "deadline"
               PROVE  since = Delay \/ wrapped
    BY OutputNext, TimeNext DEF Inv, OutputInv
  <2>1. Expired
    BY DEF Next, TaskStep, OutputStep, vars, taskVars, QueueUniverse, TakeUniverse, QueueEmpty,
       NotExpired, SetDeadline, StartPacket, TransferSlot, PullSlot, ShiftSlot, Tick
  <2>2. since' = since /\ wrapped' = wrapped
    BY <2>1 DEF Expired, ghostVars
  <2> QED BY <2>2 DEF Inv, TimeInv, FoundExpired
<1> QED BY <1>1, InvCorrect, PTL DEF Spec, Paced

(* A pass that is late misses a deadline only where the counter may wrap   *)
(* in the meantime (dmx.c:147).                                            *)
THEOREM MissedAtWrapOnlyCorrect == Spec => []MissedAtWrapOnly
<1>1. ASSUME Inv PROVE MissedAtWrapOnly
  <2>1. /\ TickRange \in Nat /\ MaxLate \in Nat /\ now \in Nat /\ next_write \in Nat
    BY <1>1, TimeFacts DEF Inv, OutputInv
  <2> QED BY <1>1, <2>1 DEF Inv, TimeInv, DeadlineOver, MissedAtWrapOnly, Missed
<1> QED BY <1>1, InvCorrect, PTL

(* The state machine is not restarted while it shifts a slot, unless the   *)
(* deadline was beyond the wrap: a packet ends in the tick after it began, *)
(* and the next one is Delay ticks later (dmx.c:101-128).                  *)
THEOREM NoSlotCutCorrect == Spec => []NoSlotCut
<1>1. Inv => NoSlotCut
  BY DEF Inv, TimeInv, SentBefore, Sending, NoSlotCut
<1> QED BY <1>1, InvCorrect, PTL
=============================================================================
