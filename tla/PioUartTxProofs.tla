-------------------------- MODULE PioUartTxProofs --------------------------
(***************************************************************************)
(* Theorems about the transmit side of the PIO UARTs, for any number of    *)
(* UARTs, buffer size and FIFO depth.                                      *)
(***************************************************************************)
EXTENDS PioUartTx, TLAPS

(***************************************************************************)
(* Bytes on their way: what is shifted out (out), the FIFO (queue) and the *)
(* stream buffer (buffer).                                                 *)
(***************************************************************************)
(* w bytes are written and s are sent; the others are under way, numbered  *)
(* on from s.                                                              *)
InLine(w, s, out, queue, buffer) ==
  /\ w = s + Len(out) + Len(queue) + Len(buffer)
  /\ \A k \in 1 .. Len(out) : out[k] = s + k
  /\ \A k \in 1 .. Len(queue) : queue[k] = s + Len(out) + k
  /\ \A k \in 1 .. Len(buffer) : buffer[k] = s + Len(out) + Len(queue) + k

(* What tail and append do to a sequence, index by index.                  *)
LEMMA TailFacts ==
  ASSUME NEW S, NEW q \in Seq(S), q # <<>>
  PROVE  /\ Head(q) \in S /\ Head(q) = q[1] /\ Len(q) \in Nat \ {0}
         /\ Tail(q) \in Seq(S) /\ Len(Tail(q)) = Len(q) - 1
         /\ \A k \in 1 .. Len(Tail(q)) : k + 1 \in 1 .. Len(q) /\ Tail(q)[k] = q[k + 1]
  OBVIOUS

(* A byte appended to a queue comes last.                                  *)
LEMMA AppendFacts ==
  ASSUME NEW S, NEW q \in Seq(S), NEW e \in S
  PROVE  /\ Append(q, e) \in Seq(S) /\ Len(Append(q, e)) = Len(q) + 1
         /\ Append(q, e)[Len(q) + 1] = e
         /\ \A k \in 1 .. Len(q) : Append(q, e)[k] = q[k]
  OBVIOUS

(* An OSR that is not empty holds one byte.                                *)
LEMMA OneByte ==
  ASSUME NEW o \in Seq(Nat), o # <<>>, Len(o) <= 1
  PROVE  Len(o) = 1
<1>1. Len(o) \in Nat \ {0}
  BY TailFacts
<1>2. ASSUME NEW n \in Nat \ {0}, n <= 1 PROVE n = 1
  BY <1>2
<1> QED BY <1>1, <1>2, Zenon

(* The bytes stay in line when one moves from the buffer to the queue.     *)
LEMMA MoveInLine ==
  ASSUME NEW w \in Nat, NEW s \in Nat, NEW o \in Seq(Nat), NEW f \in Seq(Nat),
         NEW b \in Seq(Nat), b # <<>>, InLine(w, s, o, f, b)
  PROVE  InLine(w, s, o, Append(f, Head(b)), Tail(b))
<1> DEFINE q == Append(f, Head(b))
           r == Tail(b)
<1>1. /\ Head(b) \in Nat /\ Head(b) = b[1] /\ Len(b) \in Nat \ {0}
      /\ r \in Seq(Nat) /\ Len(r) = Len(b) - 1
      /\ \A k \in 1 .. Len(r) : k + 1 \in 1 .. Len(b) /\ r[k] = b[k + 1]
  BY TailFacts
<1>2. /\ q \in Seq(Nat) /\ Len(q) = Len(f) + 1 /\ q[Len(f) + 1] = Head(b)
      /\ \A k \in 1 .. Len(f) : q[k] = f[k]
  BY <1>1, AppendFacts
<1> HIDE DEF q, r
<1>3. b[1] = s + Len(o) + Len(f) + 1
  BY <1>1 DEF InLine
<1>4. ASSUME NEW k \in 1 .. Len(q) PROVE q[k] = s + Len(o) + k
  <2>1. CASE k <= Len(f)
    BY <1>2, <2>1 DEF InLine
  <2>2. CASE k = Len(f) + 1
    BY <1>1, <1>2, <1>3, <2>2
  <2> QED BY <1>2, <2>1, <2>2
<1>5. ASSUME NEW k \in 1 .. Len(r) PROVE r[k] = s + Len(o) + Len(q) + k
  <2>1. k + 1 \in 1 .. Len(b) /\ r[k] = b[k + 1]
    BY <1>1
  <2>2. b[k + 1] = s + Len(o) + Len(f) + (k + 1)
    BY <2>1 DEF InLine
  <2> QED BY <1>2, <2>1, <2>2
<1>6. InLine(w, s, o, q, r)
  BY <1>1, <1>2, <1>4, <1>5 DEF InLine
<1> QED BY <1>6 DEF q, r

(* ... when one is taken out of the queue to be shifted ...                *)
LEMMA PullInLine ==
  ASSUME NEW w \in Nat, NEW s \in Nat, NEW f \in Seq(Nat), f # <<>>,
         NEW b \in Seq(Nat), InLine(w, s, <<>>, f, b)
  PROVE  InLine(w, s, <<Head(f)>>, Tail(f), b)
<1> DEFINE r == Tail(f)
           o == <<Head(f)>>
<1>1. /\ Head(f) \in Nat /\ Head(f) = f[1] /\ Len(f) \in Nat \ {0}
      /\ r \in Seq(Nat) /\ Len(r) = Len(f) - 1
      /\ \A k \in 1 .. Len(r) : k + 1 \in 1 .. Len(f) /\ r[k] = f[k + 1]
  BY TailFacts
<1>2. Len(o) = 1 /\ o[1] = Head(f) /\ o \in Seq(Nat)
  BY <1>1
<1> HIDE DEF r, o
<1>3. \A k \in 1 .. Len(f) : f[k] = s + k
  BY DEF InLine
<1>4. \A k \in 1 .. Len(o) : o[k] = s + k
  BY <1>1, <1>2, <1>3
<1>5. ASSUME NEW k \in 1 .. Len(r) PROVE r[k] = s + Len(o) + k
  <2>1. k + 1 \in 1 .. Len(f) /\ r[k] = f[k + 1]
    BY <1>1
  <2> QED BY <1>2, <1>3, <2>1
<1>6. ASSUME NEW k \in 1 .. Len(b) PROVE b[k] = s + Len(o) + Len(r) + k
  BY <1>1, <1>2 DEF InLine
<1>7. w = s + Len(o) + Len(r) + Len(b)
  BY <1>1, <1>2 DEF InLine
<1>8. InLine(w, s, o, r, b)
  BY <1>4, <1>5, <1>6, <1>7 DEF InLine
<1> QED BY <1>8 DEF o, r

(* ... and when it has shifted it out: it was the next one.                *)
LEMMA ShiftInLine ==
  ASSUME NEW w \in Nat, NEW s \in Nat, NEW o \in Seq(Nat), NEW f \in Seq(Nat),
         NEW b \in Seq(Nat), Len(o) = 1, InLine(w, s, o, f, b)
  PROVE  o[1] = s + 1 /\ InLine(w, o[1], <<>>, f, b) /\ s < w
<1>1. o[1] = s + 1
  BY DEF InLine
<1>2. InLine(w, s + 1, <<>>, f, b)
  BY DEF InLine
<1> QED BY <1>1, <1>2 DEF InLine

(***************************************************************************)
(* The inductive invariant.  A handler is about to disable an interrupt    *)
(* only while the buffer is empty; a task that writes has a frame; and the *)
(* bytes in the OSR, the FIFO and the buffer are numbered on from sent.    *)
(***************************************************************************)
Disabling ==
  \A u \in Uarts : At("fifo", u, "disable") => tx_buffer[u] = <<>>
Writing == \A u \in Uarts : writer[u] = "send" => frame_size[u] \in FrameSizes
Numbered(u) == InLine(written[u], sent[u], osr[u], fifo[u], tx_buffer[u])
AllNumbered == \A u \in Uarts : Numbered(u)
Inv == TypeOK /\ Disabling /\ Writing /\ AllNumbered /\ NotStranded

(* A frame is appended to a buffer.                                        *)
LEMMA FrameFacts ==
  ASSUME NEW q \in Seq(Nat), NEW w \in Nat, NEW n \in Nat
  PROVE  /\ q \o Numbers(w, n) \in Seq(Nat)
         /\ Len(q \o Numbers(w, n)) = Len(q) + n
         /\ \A k \in 1 .. Len(q) : (q \o Numbers(w, n))[k] = q[k]
         /\ \A k \in 1 .. Len(q \o Numbers(w, n)) :
              k > Len(q) => (q \o Numbers(w, n))[k] = w + (k - Len(q))
<1> DEFINE f == Numbers(w, n)
           r == q \o f
<1>1. f \in Seq(Nat) /\ Len(f) = n /\ \A k \in 1 .. n : f[k] = w + k
  BY DEF Numbers
<1> HIDE DEF f
<1>3. r \in Seq(Nat) /\ Len(r) = Len(q) + n
  BY <1>1
<1>4. \A k \in 1 .. Len(r) : r[k] = IF k <= Len(q) THEN q[k] ELSE f[k - Len(q)]
  BY <1>1
<1> HIDE DEF r
<1>5. ASSUME NEW k \in 1 .. Len(r), k > Len(q) PROVE r[k] = w + (k - Len(q))
  <2>1. k - Len(q) \in 1 .. n
    BY <1>3, <1>5
  <2> QED BY <1>1, <1>4, <1>5, <2>1
<1>6. /\ r \in Seq(Nat) /\ Len(r) = Len(q) + n
      /\ \A k \in 1 .. Len(q) : r[k] = q[k]
      /\ \A k \in 1 .. Len(r) : k > Len(q) => r[k] = w + (k - Len(q))
  BY <1>3, <1>4, <1>5
<1> QED BY <1>6 DEF r, f

(* The bytes stay in line when a frame is written.                         *)
LEMMA WriteInLine ==
  ASSUME NEW w \in Nat, NEW s \in Nat, NEW o \in Seq(Nat), NEW f \in Seq(Nat),
         NEW b \in Seq(Nat), NEW n \in Nat, InLine(w, s, o, f, b)
  PROVE  InLine(w + n, s, o, f, b \o Numbers(w, n))
<1> DEFINE r == b \o Numbers(w, n)
<1>1. /\ r \in Seq(Nat) /\ Len(r) = Len(b) + n
      /\ \A k \in 1 .. Len(b) : r[k] = b[k]
      /\ \A k \in 1 .. Len(r) : k > Len(b) => r[k] = w + (k - Len(b))
  BY FrameFacts
<1> HIDE DEF r
<1>2. ASSUME NEW k \in 1 .. Len(r) PROVE r[k] = s + Len(o) + Len(f) + k
  <2>1. CASE k <= Len(b)
    BY <1>1, <2>1 DEF InLine
  <2>2. CASE k > Len(b)
    BY <1>1, <2>2 DEF InLine
  <2> QED BY <1>1, <2>1, <2>2
<1>3. InLine(w + n, s, o, f, r)
  BY <1>1, <1>2 DEF InLine
<1> QED BY <1>3 DEF r

(* Actions that leave every byte where it is.                              *)
bytes == <<written, sent, osr, fifo, tx_buffer>>
Still(u) ==
  \/ CallWrite(u) \/ MarkBusy(u) \/ EnableIrq(u) \/ CheckFifo(u) \/ StopMoving(u)
  \/ DisableIrq(u) \/ CheckDone(u) \/ ClearDone(u)

(* Every step is one of these.                                             *)
LEMMA Steps ==
  ASSUME [Next]_vars
  PROVE  \/ \E u \in Uarts : Still(u)
         \/ \E u \in Uarts : SendFrame(u)
         \/ \E u \in Uarts : MoveByte(u)
         \/ \E u \in Uarts : PullByte(u)
         \/ \E u \in Uarts : ShiftByte(u)
         \/ EnterFifoIsr \/ EnterDoneIsr \/ LeaveIsr
         \/ UNCHANGED vars
  BY DEF Next, IsrStep, WriterStep, SmStep, Still

(* ... and these do.                                                       *)
LEMMA StillBytes ==
  ASSUME \/ \E u \in Uarts : Still(u)
         \/ EnterFifoIsr \/ EnterDoneIsr \/ LeaveIsr
         \/ UNCHANGED vars
  PROVE  UNCHANGED bytes
  BY DEF Still, CallWrite, MarkBusy, EnableIrq, CheckFifo, StopMoving, DisableIrq,
         CheckDone, ClearDone, EnterFifoIsr, EnterDoneIsr, LeaveIsr, vars, bytes,
         taskVars, smVars

(* No step takes the control state out of its type.                        *)
LEMMA ControlNext ==
  ASSUME ControlOK, [Next]_vars
  PROVE  ControlOK'
<1>at. ASSUME NEW u \in Uarts PROVE u \in 1 .. Count + 1 /\ u + 1 \in 1 .. Count + 1
  BY PioUartTxAssumption DEF Uarts
<1>one. 1 \in 1 .. Count + 1
  BY PioUartTxAssumption
<1>1. ASSUME NEW u \in Uarts, Still(u) PROVE ControlOK'
  <2>1. CASE CallWrite(u)
    <3>1. FrameSizes \subseteq Nat
      BY PioUartTxAssumption
    <3> QED BY <2>1, <3>1 DEF CallWrite, ControlOK
  <2>2. CASE MarkBusy(u) \/ EnableIrq(u)
    BY <2>2 DEF MarkBusy, EnableIrq, ControlOK
  <2>goto. ASSUME NEW step \in {"check", "pump", "disable", "clear"},
                  Goto(u, step) \/ Goto(u + 1, step)
           PROVE  isr' \in [handler : {"none", "fifo", "done"}, at : 1 .. Count + 1,
                            step : {"check", "pump", "disable", "clear"}]
    BY <1>at, <2>goto DEF Goto, ControlOK
  <2>3. CASE CheckFifo(u) \/ StopMoving(u)
    BY <2>3, <2>goto DEF CheckFifo, StopMoving, ControlOK, taskVars
  <2>4. CASE DisableIrq(u) \/ ClearDone(u)
    BY <2>4, <2>goto DEF DisableIrq, ClearDone, ControlOK, taskVars
  <2>5. CASE CheckDone(u)
    BY <2>5, <2>goto DEF CheckDone, ControlOK, taskVars
  <2> QED BY <1>1, <2>1, <2>2, <2>3, <2>4, <2>5 DEF Still
<1>2. ASSUME NEW u \in Uarts, SendFrame(u) PROVE ControlOK'
  BY <1>2 DEF SendFrame, ControlOK
<1>3. ASSUME NEW u \in Uarts, MoveByte(u) PROVE ControlOK'
  BY <1>3 DEF MoveByte, ControlOK, taskVars
<1>4. ASSUME NEW u \in Uarts, PullByte(u) \/ ShiftByte(u) PROVE ControlOK'
  BY <1>4 DEF PullByte, ShiftByte, ControlOK, taskVars
<1>5. CASE EnterFifoIsr \/ EnterDoneIsr \/ LeaveIsr
  BY <1>one, <1>5 DEF EnterFifoIsr, EnterDoneIsr, LeaveIsr, NoIsr, ControlOK, taskVars
<1>6. CASE UNCHANGED vars
  BY <1>6 DEF vars, ControlOK, taskVars
<1> QED BY <1>1, <1>2, <1>3, <1>4, <1>5, <1>6, Steps

(* One step changes the bytes of one UART.                                 *)
LEMMA BytesNext ==
  ASSUME TypeOK, [Next]_vars
  PROVE  BytesOK'
<1>size. FrameSizes \subseteq Nat /\ BufferSize \in Nat /\ FifoDepth \in Nat
  BY PioUartTxAssumption
<1>len. ASSUME NEW u \in Uarts
        PROVE  /\ tx_buffer[u] \in Seq(Nat) /\ Len(tx_buffer[u]) \in Nat
               /\ fifo[u] \in Seq(Nat) /\ Len(fifo[u]) \in Nat
               /\ osr[u] \in Seq(Nat) /\ written[u] \in Nat /\ sent[u] \in Nat
               /\ frame_size[u] \in Nat
  <2>1. frame_size[u] \in Nat
    BY DEF TypeOK, ControlOK
  <2> QED BY <2>1 DEF TypeOK, BytesOK
<1>1. CASE UNCHANGED bytes
  BY <1>1 DEF TypeOK, BytesOK, bytes
<1>2. ASSUME NEW u \in Uarts, SendFrame(u) PROVE BytesOK'
  <2> DEFINE r == tx_buffer[u] \o Numbers(written[u], frame_size[u])
  <2>1. r \in Seq(Nat) /\ Len(r) = Len(tx_buffer[u]) + frame_size[u]
    BY <1>len, FrameFacts
  <2>2. tx_buffer' = [tx_buffer EXCEPT ![u] = r]
    BY <1>2 DEF SendFrame
  <2> HIDE DEF r
  <2>3. tx_buffer' \in [Uarts -> Seq(Nat)]
    BY <2>1, <2>2 DEF TypeOK, BytesOK
  <2>4. ASSUME NEW v \in Uarts PROVE Len(tx_buffer'[v]) <= BufferSize
    BY <1>2, <2>1, <2>2 DEF SendFrame, FitsFrame, TypeOK, BytesOK
  <2>5. written[u] + frame_size[u] \in Nat
    BY <1>len
  <2>6. written' \in [Uarts -> Nat]
    BY <1>2, <2>5 DEF SendFrame, TypeOK, BytesOK
  <2> QED BY <1>2, <2>3, <2>4, <2>6 DEF SendFrame, smVars, TypeOK, BytesOK
<1>3. ASSUME NEW u \in Uarts, MoveByte(u) PROVE BytesOK'
  <2> DEFINE byte == Head(tx_buffer[u])
             rest == Tail(tx_buffer[u])
             more == Append(fifo[u], byte)
  <2>1. /\ byte \in Nat /\ rest \in Seq(Nat) /\ Len(rest) = Len(tx_buffer[u]) - 1
    BY <1>3, <1>len, TailFacts DEF MoveByte, Moves
  <2>2. more \in Seq(Nat) /\ Len(more) = Len(fifo[u]) + 1
    BY <2>1, <1>len, AppendFacts
  <2>3. /\ fifo' = [fifo EXCEPT ![u] = more] /\ Len(fifo[u]) < FifoDepth
        /\ tx_buffer' = [tx_buffer EXCEPT ![u] = rest]
    BY <1>3 DEF MoveByte, Moves, Put, Writable
  <2>4. Len(more) <= FifoDepth /\ Len(rest) <= BufferSize
    BY <1>len, <1>size, <2>1, <2>2, <2>3 DEF TypeOK, BytesOK
  <2> HIDE DEF rest, more
  <2>5. fifo' \in [Uarts -> Seq(Nat)] /\ tx_buffer' \in [Uarts -> Seq(Nat)]
    BY <2>1, <2>2, <2>3 DEF TypeOK, BytesOK
  <2>6. ASSUME NEW v \in Uarts
        PROVE  Len(fifo'[v]) <= FifoDepth /\ Len(tx_buffer'[v]) <= BufferSize
    BY <2>3, <2>4 DEF TypeOK, BytesOK
  <2> QED BY <1>3, <2>5, <2>6 DEF MoveByte, smVars, taskVars, TypeOK, BytesOK
<1>4. ASSUME NEW u \in Uarts, PullByte(u) PROVE BytesOK'
  <2> DEFINE byte == Head(fifo[u])
             rest == Tail(fifo[u])
  <2>1. byte \in Nat /\ rest \in Seq(Nat) /\ Len(rest) = Len(fifo[u]) - 1
    BY <1>4, <1>len, TailFacts DEF PullByte
  <2>2. osr' = [osr EXCEPT ![u] = <<byte>>] /\ fifo' = [fifo EXCEPT ![u] = rest]
    BY <1>4 DEF PullByte
  <2>3. Len(rest) <= FifoDepth
    BY <1>len, <1>size, <2>1 DEF TypeOK, BytesOK
  <2> HIDE DEF byte, rest
  <2>4. <<byte>> \in Seq(Nat) /\ Len(<<byte>>) = 1
    BY <2>1
  <2>5. fifo' \in [Uarts -> Seq(Nat)] /\ osr' \in [Uarts -> Seq(Nat)]
    BY <2>1, <2>2, <2>4 DEF TypeOK, BytesOK
  <2>6. ASSUME NEW v \in Uarts PROVE Len(fifo'[v]) <= FifoDepth
    BY <2>2, <2>3 DEF TypeOK, BytesOK
  <2>7. ASSUME NEW v \in Uarts PROVE Len(osr'[v]) <= 1
    BY <2>2, <2>4 DEF TypeOK, BytesOK
  <2> QED BY <1>4, <2>5, <2>6, <2>7 DEF PullByte, taskVars, TypeOK, BytesOK
<1>5. ASSUME NEW u \in Uarts, ShiftByte(u) PROVE BytesOK'
  <2>1. osr[u][1] \in Nat /\ <<>> \in Seq(Nat) /\ Len(<<>>) = 0
    BY <1>5, <1>len, TailFacts DEF ShiftByte
  <2>2. sent' \in [Uarts -> Nat]
    BY <1>5, <2>1 DEF ShiftByte, TypeOK, BytesOK
  <2>3. /\ osr' \in [Uarts -> Seq(Nat)] /\ \A v \in Uarts : Len(osr'[v]) <= 1
    BY <1>5, <2>1 DEF ShiftByte, TypeOK, BytesOK
  <2> QED BY <1>5, <2>2, <2>3 DEF ShiftByte, taskVars, TypeOK, BytesOK
<1> QED BY <1>1, <1>2, <1>3, <1>4, <1>5, Steps, StillBytes

(* The bytes stay numbered, whoever moves them.                            *)
LEMMA NumberedNext ==
  ASSUME TypeOK, AllNumbered, [Next]_vars
  PROVE  AllNumbered'
<1> SUFFICES ASSUME NEW v \in Uarts PROVE Numbered(v)'
  BY DEF AllNumbered
<1>v. Numbered(v)
  BY DEF AllNumbered
<1>t. /\ written[v] \in Nat /\ sent[v] \in Nat /\ frame_size[v] \in Nat
      /\ osr[v] \in Seq(Nat) /\ fifo[v] \in Seq(Nat) /\ tx_buffer[v] \in Seq(Nat)
  BY DEF TypeOK, ControlOK, BytesOK
<1>same. ASSUME /\ written'[v] = written[v] /\ sent'[v] = sent[v]
                /\ osr'[v] = osr[v] /\ fifo'[v] = fifo[v]
                /\ tx_buffer'[v] = tx_buffer[v]
         PROVE  Numbered(v)'
  BY <1>v, <1>same DEF Numbered
<1>1. CASE UNCHANGED bytes
  BY <1>1, <1>same DEF bytes
<1>2. ASSUME NEW u \in Uarts, SendFrame(u) PROVE Numbered(v)'
  <2>1. CASE u # v
    BY <1>2, <1>same, <2>1 DEF SendFrame, TypeOK, BytesOK, smVars
  <2>2. CASE u = v
    <3>1. /\ tx_buffer'[v] = tx_buffer[v] \o Numbers(written[v], frame_size[v])
          /\ written'[v] = written[v] + frame_size[v]
          /\ sent' = sent /\ osr' = osr /\ fifo' = fifo
      BY <1>2, <2>2 DEF SendFrame, TypeOK, BytesOK, smVars
    <3> QED BY <1>v, <1>t, <3>1, WriteInLine DEF Numbered
  <2> QED BY <2>1, <2>2
<1>3. ASSUME NEW u \in Uarts, MoveByte(u) PROVE Numbered(v)'
  <2>1. CASE u # v
    BY <1>3, <1>same, <2>1 DEF MoveByte, Moves, Put, TypeOK, BytesOK, taskVars, smVars
  <2>2. CASE u = v
    <3>1. /\ tx_buffer[v] # <<>> /\ tx_buffer'[v] = Tail(tx_buffer[v])
          /\ fifo'[v] = Append(fifo[v], Head(tx_buffer[v]))
          /\ written' = written /\ sent' = sent /\ osr' = osr
      BY <1>3, <2>2 DEF MoveByte, Moves, Put, TypeOK, BytesOK, taskVars, smVars
    <3> QED BY <1>v, <1>t, <3>1, MoveInLine DEF Numbered
  <2> QED BY <2>1, <2>2
<1>4. ASSUME NEW u \in Uarts, PullByte(u) PROVE Numbered(v)'
  <2>1. CASE u # v
    BY <1>4, <1>same, <2>1 DEF PullByte, TypeOK, BytesOK, taskVars
  <2>2. CASE u = v
    <3>1. /\ fifo[v] # <<>> /\ osr[v] = <<>> /\ fifo'[v] = Tail(fifo[v])
          /\ osr'[v] = <<Head(fifo[v])>>
          /\ written' = written /\ sent' = sent /\ tx_buffer' = tx_buffer
      BY <1>4, <2>2 DEF PullByte, TypeOK, BytesOK, taskVars
    <3> QED BY <1>v, <1>t, <3>1, PullInLine DEF Numbered
  <2> QED BY <2>1, <2>2
<1>5. ASSUME NEW u \in Uarts, ShiftByte(u) PROVE Numbered(v)'
  <2>1. CASE u # v
    BY <1>5, <1>same, <2>1 DEF ShiftByte, TypeOK, BytesOK, taskVars
  <2>2. CASE u = v
    <3>1. osr[v] # <<>> /\ Len(osr[v]) <= 1
      BY <1>5, <2>2 DEF ShiftByte, TypeOK, BytesOK
    <3>2. Len(osr[v]) = 1
      BY <1>t, <3>1, OneByte
    <3>3. /\ sent'[v] = osr[v][1] /\ osr'[v] = <<>>
          /\ written' = written /\ fifo' = fifo /\ tx_buffer' = tx_buffer
      BY <1>5, <2>2 DEF ShiftByte, TypeOK, BytesOK, taskVars
    <3> QED BY <1>v, <1>t, <3>2, <3>3, ShiftInLine DEF Numbered
  <2> QED BY <2>1, <2>2
<1> QED BY <1>1, <1>2, <1>3, <1>4, <1>5, Steps, StillBytes

(* Only an empty buffer gets its interrupt disabled.                       *)
LEMMA DisablingNext ==
  ASSUME TypeOK, Disabling, [Next]_vars
  PROVE  Disabling'
<1> SUFFICES ASSUME NEW v \in Uarts, At("fifo", v, "disable")'
             PROVE  tx_buffer'[v] = <<>>
  BY DEF Disabling
<1>1. ASSUME NEW u \in Uarts, Still(u) PROVE tx_buffer'[v] = <<>>
  <2>0. tx_buffer' = tx_buffer
    BY <1>1, StillBytes DEF bytes
  <2>1. CASE CallWrite(u) \/ MarkBusy(u) \/ EnableIrq(u)
    BY <2>0, <2>1 DEF CallWrite, MarkBusy, EnableIrq, Disabling, At
  <2>2. CASE CheckFifo(u) \/ DisableIrq(u) \/ CheckDone(u) \/ ClearDone(u)
    BY <2>2 DEF CheckFifo, DisableIrq, CheckDone, ClearDone, Goto, At, TypeOK, ControlOK
  <2>3. CASE StopMoving(u)
    <3>1. isr'.at = v /\ isr'.step = "disable"
      BY DEF At
    <3>2. u = v /\ tx_buffer[u] = <<>>
      BY <2>3, <3>1 DEF StopMoving, Goto, TypeOK, ControlOK
    <3> QED BY <2>0, <3>2
  <2> QED BY <1>1, <2>1, <2>2, <2>3 DEF Still
<1>2. ASSUME NEW u \in Uarts, SendFrame(u) PROVE tx_buffer'[v] = <<>>
  BY <1>2 DEF SendFrame, CoreFree, At
<1>3. ASSUME NEW u \in Uarts, MoveByte(u) PROVE tx_buffer'[v] = <<>>
  BY <1>3 DEF MoveByte, At
<1>4. ASSUME NEW u \in Uarts, PullByte(u) \/ ShiftByte(u) PROVE tx_buffer'[v] = <<>>
  BY <1>4 DEF PullByte, ShiftByte, Disabling, At
<1>5. CASE EnterFifoIsr \/ EnterDoneIsr \/ LeaveIsr
  BY <1>5 DEF EnterFifoIsr, EnterDoneIsr, LeaveIsr, NoIsr, At
<1>6. CASE UNCHANGED vars
  BY <1>6 DEF vars, Disabling, At
<1> QED BY <1>1, <1>2, <1>3, <1>4, <1>5, <1>6, Steps

(* A task inside SendFrame has a frame.                                    *)
LEMMA WritingNext ==
  ASSUME TypeOK, Writing, [Next]_vars
  PROVE  Writing'
<1> SUFFICES ASSUME NEW v \in Uarts, writer'[v] = "send"
             PROVE  frame_size'[v] \in FrameSizes
  BY DEF Writing
<1>1. ASSUME NEW u \in Uarts, Still(u) PROVE frame_size'[v] \in FrameSizes
  BY <1>1 DEF Still, CallWrite, MarkBusy, EnableIrq, CheckFifo, StopMoving, DisableIrq,
              CheckDone, ClearDone, Writing, TypeOK, ControlOK, taskVars
<1>2. ASSUME NEW u \in Uarts, SendFrame(u) PROVE frame_size'[v] \in FrameSizes
  BY <1>2 DEF SendFrame, Writing, TypeOK, ControlOK
<1>3. ASSUME NEW u \in Uarts, MoveByte(u) \/ PullByte(u) \/ ShiftByte(u)
      PROVE  frame_size'[v] \in FrameSizes
  BY <1>3 DEF MoveByte, PullByte, ShiftByte, Writing, taskVars
<1>4. CASE EnterFifoIsr \/ EnterDoneIsr \/ LeaveIsr \/ UNCHANGED vars
  BY <1>4 DEF EnterFifoIsr, EnterDoneIsr, LeaveIsr, vars, Writing, taskVars
<1> QED BY <1>1, <1>2, <1>3, <1>4, Steps

(* No step leaves bytes without an interrupt to come.                      *)
LEMMA NotStrandedNext ==
  ASSUME TypeOK, Disabling, NotStranded, [Next]_vars
  PROVE  NotStranded'
<1> SUFFICES ASSUME NEW v \in Uarts, tx_buffer'[v] # <<>>
             PROVE  irq_enabled'[v] \/ writer'[v] \in {"mark", "enable"}
  BY DEF NotStranded
<1>v. tx_buffer[v] # <<>> => irq_enabled[v] \/ writer[v] \in {"mark", "enable"}
  BY DEF NotStranded
<1> DEFINE goal == irq_enabled'[v] \/ writer'[v] \in {"mark", "enable"}
<1>1. ASSUME NEW u \in Uarts, Still(u) PROVE goal
  <2>0. tx_buffer' = tx_buffer
    BY <1>1, StillBytes DEF bytes
  <2>1. CASE CallWrite(u) \/ MarkBusy(u) \/ EnableIrq(u)
    BY <1>v, <2>0, <2>1 DEF CallWrite, MarkBusy, EnableIrq, TypeOK, ControlOK
  <2>2. CASE CheckFifo(u) \/ StopMoving(u) \/ CheckDone(u) \/ ClearDone(u)
    BY <1>v, <2>0, <2>2 DEF CheckFifo, StopMoving, CheckDone, ClearDone, taskVars
  <2>3. CASE DisableIrq(u)
    <3>1. u # v
      BY <2>0, <2>3 DEF DisableIrq, Disabling
    <3> QED BY <1>v, <2>0, <2>3, <3>1 DEF DisableIrq, TypeOK, ControlOK, taskVars
  <2> QED BY <1>1, <2>1, <2>2, <2>3 DEF Still
<1>2. ASSUME NEW u \in Uarts, SendFrame(u) PROVE goal
  <2>1. CASE u = v
    BY <1>2, <2>1 DEF SendFrame, TypeOK, ControlOK
  <2>2. CASE u # v
    BY <1>v, <1>2, <2>2 DEF SendFrame, TypeOK, ControlOK, BytesOK
  <2> QED BY <2>1, <2>2
<1>3. ASSUME NEW u \in Uarts, MoveByte(u) PROVE goal
  <2>1. tx_buffer[v] # <<>>
    BY <1>3 DEF MoveByte, Moves, TypeOK, BytesOK
  <2> QED BY <1>v, <1>3, <2>1 DEF MoveByte, taskVars
<1>4. ASSUME NEW u \in Uarts, PullByte(u) \/ ShiftByte(u) PROVE goal
  BY <1>v, <1>4 DEF PullByte, ShiftByte, taskVars
<1>5. CASE EnterFifoIsr \/ EnterDoneIsr \/ LeaveIsr \/ UNCHANGED vars
  BY <1>v, <1>5 DEF EnterFifoIsr, EnterDoneIsr, LeaveIsr, vars, taskVars
<1> QED BY <1>1, <1>2, <1>3, <1>4, <1>5, Steps

(* The initial state satisfies the invariant.                              *)
LEMMA InvInit ==
  ASSUME Init
  PROVE  Inv
<1>1. ControlOK
  BY PioUartTxAssumption DEF Init, ControlOK, NoIsr
<1>2. <<>> \in Seq(Nat) /\ Len(<<>>) = 0 /\ 0 <= BufferSize /\ 0 <= FifoDepth
  BY PioUartTxAssumption
<1>3. BytesOK
  BY <1>2 DEF Init, BytesOK
<1>4. InLine(0, 0, <<>>, <<>>, <<>>)
  BY DEF InLine
<1>5. AllNumbered
  BY <1>4 DEF Init, AllNumbered, Numbered
<1>6. Disabling /\ Writing /\ NotStranded
  BY DEF Init, Disabling, Writing, NotStranded, NoIsr, At
<1> QED BY <1>1, <1>3, <1>5, <1>6 DEF Inv, TypeOK

(* The invariant holds at every time.                                      *)
LEMMA InvCorrect == Spec => []Inv
<1>1. Inv /\ [Next]_vars => Inv'
  BY ControlNext, BytesNext, NumberedNext, DisablingNext, WritingNext, NotStrandedNext
     DEF Inv, TypeOK
<1> QED BY <1>1, InvInit, PTL DEF Spec

(* Every variable keeps its type; neither a stream buffer nor a FIFO       *)
(* overflows (uart.c:248, 286).                                            *)
THEOREM TypeCorrect == Spec => []TypeOK
  BY InvCorrect, PTL DEF Inv

(* Bytes in a stream buffer are never left without an interrupt that will  *)
(* move them (uart.c:256-259 against 299-304).                             *)
THEOREM NotStrandedCorrect == Spec => []NotStranded
  BY InvCorrect, PTL DEF Inv

(* The bytes written to a UART leave in order and once each: the UARTs     *)
(* implement the lines of ByteLine (uart.c:240-262, 284-304).              *)
THEOREM LineCorrect == Spec => ImplementsLine
<1>1. Init => Line!Init
  BY DEF Init, Line!Init
<1>2. ASSUME Inv, [Next]_vars PROVE [Line!Next]_Line!lineVars
  <2>1. ASSUME NEW u \in Uarts, SendFrame(u) PROVE Line!Next
    <3>1. frame_size[u] \in FrameSizes
      BY <1>2, <2>1 DEF SendFrame, Inv, Writing
    <3>2. Line!Accept(u)
      BY <2>1, <3>1 DEF SendFrame, smVars, Line!Accept
    <3> QED BY <3>2 DEF Line!Next
  <2>2. ASSUME NEW u \in Uarts, ShiftByte(u) PROVE Line!Next
    <3>1. /\ written[u] \in Nat /\ sent[u] \in Nat /\ osr[u] \in Seq(Nat)
          /\ fifo[u] \in Seq(Nat) /\ tx_buffer[u] \in Seq(Nat)
          /\ osr[u] # <<>> /\ Len(osr[u]) <= 1
      BY <1>2, <2>2 DEF ShiftByte, Inv, TypeOK, BytesOK
    <3>2. Len(osr[u]) = 1
      BY <3>1, OneByte
    <3>3. osr[u][1] = sent[u] + 1 /\ sent[u] < written[u]
      BY <1>2, <3>1, <3>2, ShiftInLine DEF Inv, AllNumbered, Numbered
    <3>4. Line!Carry(u)
      BY <2>2, <3>3 DEF ShiftByte, taskVars, Line!Carry
    <3> QED BY <3>4 DEF Line!Next
  <2>3. ASSUME NEW u \in Uarts, MoveByte(u) \/ PullByte(u) PROVE UNCHANGED Line!lineVars
    BY <2>3 DEF MoveByte, PullByte, taskVars, smVars, Line!lineVars
  <2>4. CASE UNCHANGED bytes
    BY <2>4 DEF bytes, Line!lineVars
  <2> QED BY <1>2, <2>1, <2>2, <2>3, <2>4, Steps, StillBytes
<1> QED BY <1>1, <1>2, InvCorrect, PTL DEF Spec, ImplementsLine, Line!Spec
=============================================================================
