---------------------------- MODULE HostTxProofs ----------------------------
(***************************************************************************)
(* Theorems about the transmit side of the host UART, for any frames,      *)
(* buffer size and FIFO depth.                                             *)
(***************************************************************************)
EXTENDS HostTx, TLAPS

(***************************************************************************)
(* Bytes on their way: the FIFO (queue) and the stream buffer (buffer).    *)
(***************************************************************************)
(* w bytes are written and s are sent; the others are under way, numbered  *)
(* on from s.                                                              *)
InLine(w, s, queue, buffer) ==
  /\ w = s + Len(queue) + Len(buffer)
  /\ \A k \in 1 .. Len(queue) : queue[k] = s + k
  /\ \A k \in 1 .. Len(buffer) : buffer[k] = s + Len(queue) + k

(* What tail and append do to a sequence, index by index.                  *)
LEMMA TailFacts ==
  ASSUME NEW S, NEW q \in Seq(S), q # <<>>
  PROVE  /\ Head(q) \in S /\ Head(q) = q[1] /\ Len(q) \in Nat \ {0}
         /\ Tail(q) \in Seq(S) /\ Len(Tail(q)) = Len(q) - 1
         /\ \A k \in 1 .. Len(Tail(q)) : k + 1 \in 1 .. Len(q) /\ Tail(q)[k] = q[k + 1]
  OBVIOUS

(* A byte appended to a queue comes last.                                  *)
LEMMA AppendFacts ==
  ASSUME NEW S, NEW q \in Seq(S), NEW e \in S
  PROVE  /\ Append(q, e) \in Seq(S) /\ Len(Append(q, e)) = Len(q) + 1
         /\ Append(q, e)[Len(q) + 1] = e
         /\ \A k \in 1 .. Len(q) : Append(q, e)[k] = q[k]
  OBVIOUS

(* The bytes stay in line when one is written ...                          *)
LEMMA AppendInLine ==
  ASSUME NEW w \in Nat, NEW s \in Nat, NEW f \in Seq(Nat), NEW b \in Seq(Nat),
         InLine(w, s, f, b)
  PROVE  InLine(w + 1, s, f, Append(b, w + 1))
<1> DEFINE r == Append(b, w + 1)
<1>1. /\ r \in Seq(Nat) /\ Len(r) = Len(b) + 1 /\ r[Len(b) + 1] = w + 1
      /\ \A k \in 1 .. Len(b) : r[k] = b[k]
  BY AppendFacts
<1> HIDE DEF r
<1>2. ASSUME NEW k \in 1 .. Len(r) PROVE r[k] = s + Len(f) + k
  <2>1. CASE k <= Len(b)
    BY <1>1, <2>1 DEF InLine
  <2>2. CASE k = Len(b) + 1
    BY <1>1, <2>2 DEF InLine
  <2> QED BY <1>1, <2>1, <2>2
<1>3. InLine(w + 1, s, f, r)
  BY <1>1, <1>2 DEF InLine
<1> QED BY <1>3 DEF r

(* ... when one moves from the buffer to the queue ...                     *)
LEMMA MoveInLine ==
  ASSUME NEW w \in Nat, NEW s \in Nat, NEW f \in Seq(Nat),
         NEW b \in Seq(Nat), b # <<>>, InLine(w, s, f, b)
  PROVE  InLine(w, s, Append(f, Head(b)), Tail(b))
<1> DEFINE q == Append(f, Head(b))
           r == Tail(b)
<1>1. /\ Head(b) \in Nat /\ Head(b) = b[1] /\ Len(b) \in Nat \ {0}
      /\ r \in Seq(Nat) /\ Len(r) = Len(b) - 1
      /\ \A k \in 1 .. Len(r) : k + 1 \in 1 .. Len(b) /\ r[k] = b[k + 1]
  BY TailFacts
<1>2. /\ q \in Seq(Nat) /\ Len(q) = Len(f) + 1 /\ q[Len(f) + 1] = Head(b)
      /\ \A k \in 1 .. Len(f) : q[k] = f[k]
  BY <1>1, AppendFacts
<1> HIDE DEF q, r
<1>3. b[1] = s + Len(f) + 1
  BY <1>1 DEF InLine
<1>4. ASSUME NEW k \in 1 .. Len(q) PROVE q[k] = s + k
  <2>1. CASE k <= Len(f)
    BY <1>2, <2>1 DEF InLine
  <2>2. CASE k = Len(f) + 1
    BY <1>1, <1>2, <1>3, <2>2
  <2> QED BY <1>2, <2>1, <2>2
<1>5. ASSUME NEW k \in 1 .. Len(r) PROVE r[k] = s + Len(q) + k
  <2>1. k + 1 \in 1 .. Len(b) /\ r[k] = b[k + 1]
    BY <1>1
  <2>2. b[k + 1] = s + Len(f) + (k + 1)
    BY <2>1 DEF InLine
  <2> QED BY <1>2, <2>1, <2>2
<1>6. InLine(w, s, q, r)
  BY <1>1, <1>2, <1>4, <1>5 DEF InLine
<1> QED BY <1>6 DEF q, r

(* ... and when one leaves the queue: it is the next one to be sent, and   *)
(* was written before the last n, if these are in the buffer.              *)
LEMMA HeadInLine ==
  ASSUME NEW w \in Nat, NEW s \in Nat, NEW f \in Seq(Nat), f # <<>>,
         NEW b \in Seq(Nat), NEW n \in Nat, n <= Len(b), InLine(w, s, f, b)
  PROVE  Head(f) = s + 1 /\ InLine(w, Head(f), Tail(f), b) /\ s < w - n
<1> DEFINE r == Tail(f)
<1>1. /\ Head(f) \in Nat /\ Head(f) = f[1] /\ Len(f) \in Nat \ {0}
      /\ r \in Seq(Nat) /\ Len(r) = Len(f) - 1
      /\ \A k \in 1 .. Len(r) : k + 1 \in 1 .. Len(f) /\ r[k] = f[k + 1]
  BY TailFacts
<1> HIDE DEF r
<1>2. Head(f) = s + 1
  BY <1>1 DEF InLine
<1>3. ASSUME NEW k \in 1 .. Len(r) PROVE r[k] = s + 1 + k
  <2>1. k + 1 \in 1 .. Len(f) /\ r[k] = f[k + 1]
    BY <1>1
  <2>2. f[k + 1] = s + (k + 1)
    BY <2>1 DEF InLine
  <2> QED BY <2>1, <2>2
<1>4. ASSUME NEW k \in 1 .. Len(b) PROVE b[k] = s + 1 + Len(r) + k
  BY <1>1 DEF InLine
<1>5. w = s + Len(f) + Len(b) /\ Len(b) \in Nat
  BY DEF InLine
<1>6. w = s + 1 + Len(r) + Len(b)
  BY <1>1, <1>5
<1>7. InLine(w, s + 1, r, b)
  BY <1>3, <1>4, <1>6 DEF InLine
<1>8. ASSUME NEW q \in Nat \ {0}, NEW m \in Nat, n <= m, w = s + q + m
      PROVE  s < w - n
  BY <1>8
<1>9. s < w - n
  BY <1>1, <1>5, <1>8, Zenon
<1> QED BY <1>2, <1>7, <1>9 DEF r

(***************************************************************************)
(* The inductive invariant.  The space the frame in hand asked for was     *)
(* there when it began, and its bytes are all the buffer has got since;    *)
(* they are still there, for the other task waits for the mutex; the bytes *)
(* in the FIFO and the buffer are numbered on from sent; and tx_done tells *)
(* whether the buffer is empty but between the two halves of a write and   *)
(* of a pass.                                                              *)
(***************************************************************************)
Room == left > 0 => Len(tx_buffer) + frame.room <= BufferSize + (frame.size - left)
Held == left > 0 => frame.size - left <= Len(tx_buffer)
Numbered == InLine(written, sent, fifo, tx_buffer)
DoneOK ==
  /\ host # "mark" /\ tx # "drain" => (tx_done <=> tx_buffer = <<>>)
  /\ host = "mark" => tx_buffer # <<>>
Inv == TypeOK /\ Room /\ Held /\ Numbered /\ DoneOK

(* What the assumption and the type invariant say of the numbers.          *)
LEMMA Numbers ==
  ASSUME TypeOK
  PROVE  /\ BufferSize \in Nat /\ FifoDepth \in Nat \ {0}
         /\ frame.size \in Nat /\ frame.room \in Nat /\ left \in Nat /\ left <= frame.size
         /\ tx_buffer \in Seq(Nat) /\ Len(tx_buffer) \in Nat /\ Len(tx_buffer) <= BufferSize
         /\ fifo \in Seq(Nat) /\ Len(fifo) \in Nat /\ Len(fifo) <= FifoDepth
         /\ written \in Nat /\ sent \in Nat
<1>1. frame \in [room : Nat, size : Nat]
  BY HostTxAssumption DEF TypeOK, FrameOK
<1> QED BY <1>1, HostTxAssumption DEF TypeOK, FrameOK, BytesOK

(* The critical sections exclude each other.                               *)
LEMMA Exclusion ==
  ASSUME TypeOK
  PROVE  /\ ~ (HostHolds /\ TxHolds)
         /\ left > 0 => HostHolds
  BY DEF TypeOK, ControlOK, FrameOK, HostHolds, TxHolds

(* A byte enters the buffer.                                               *)
LEMMA WriteByteStep ==
  ASSUME Inv, WriteByte
  PROVE  Inv'
<1>t. TypeOK /\ Room /\ Held /\ Numbered /\ DoneOK
  BY DEF Inv
<1>n. /\ BufferSize \in Nat /\ FifoDepth \in Nat \ {0}
      /\ frame.size \in Nat /\ frame.room \in Nat /\ left \in Nat /\ left <= frame.size
      /\ tx_buffer \in Seq(Nat) /\ Len(tx_buffer) \in Nat /\ Len(tx_buffer) <= BufferSize
      /\ fifo \in Seq(Nat) /\ written \in Nat /\ sent \in Nat
  BY <1>t, Numbers
<1>w. /\ host = "write" /\ left > 0 /\ Len(tx_buffer) < BufferSize
      /\ tx_buffer' = Append(tx_buffer, written + 1) /\ written' = written + 1
      /\ left' = left - 1 /\ host' = "mark"
      /\ UNCHANGED <<frame, mutex, tx, tx_done, fifo, sent>>
  BY <1>t DEF WriteByte, TypeOK, FrameOK
<1> DEFINE r == Append(tx_buffer, written + 1)
<1>r. r \in Seq(Nat) /\ Len(r) = Len(tx_buffer) + 1
  BY <1>n, AppendFacts
<1>1. ControlOK'
  BY <1>t, <1>w DEF TypeOK, ControlOK, HostHolds, TxHolds
<1>2. ASSUME NEW n \in Nat, NEW s \in Nat, n > 0, n <= s PROVE n - 1 \in 0 .. s
  BY <1>2
<1>3. left - 1 \in 0 .. frame.size
  BY <1>2, <1>n, <1>w, Zenon
<1>4. FrameOK'
  BY <1>3, <1>t, <1>w DEF TypeOK, FrameOK
<1>5. ASSUME NEW n \in Nat, n < BufferSize PROVE n + 1 <= BufferSize
  BY <1>n, <1>5
<1>6. Len(r) <= BufferSize
  BY <1>5, <1>n, <1>r, <1>w, Zenon
<1>7. BytesOK'
  BY <1>6, <1>n, <1>r, <1>t, <1>w DEF TypeOK, BytesOK
<1>8. ASSUME NEW n \in Nat, NEW m \in Nat, NEW s \in Nat, NEW f \in Nat, m > 0, m <= s,
             m > 0 => n + f <= BufferSize + (s - m), m > 0 => s - m <= n
      PROVE  n + 1 + f <= BufferSize + (s - (m - 1)) /\ s - (m - 1) <= n + 1
  BY <1>n, <1>8
<1>9. /\ Len(r) + frame.room <= BufferSize + (frame.size - (left - 1))
      /\ frame.size - (left - 1) <= Len(r)
  BY <1>8, <1>n, <1>r, <1>t, <1>w, Zenon DEF Room, Held
<1>10. Room' /\ Held'
  BY <1>9, <1>w DEF Room, Held
<1>11. Numbered'
  <2>1. InLine(written, sent, fifo, tx_buffer)
    BY <1>t DEF Numbered
  <2>2. InLine(written + 1, sent, fifo, r)
    BY <2>1, <1>n, AppendInLine
  <2> QED BY <2>2, <1>w DEF Numbered
<1>12. r # <<>>
  <2>1. ASSUME NEW n \in Nat PROVE n + 1 # 0
    BY <2>1
  <2>2. Len(r) # 0 /\ Len(<<>>) = 0
    BY <2>1, <1>n, <1>r
  <2> QED BY <2>2
<1>13. DoneOK'
  BY <1>12, <1>w DEF DoneOK
<1> QED BY <1>1, <1>4, <1>7, <1>10, <1>11, <1>13 DEF Inv, TypeOK

(* A byte moves to the FIFO.                                               *)
LEMMA TxMoveStep ==
  ASSUME Inv, TxMove
  PROVE  Inv'
<1>t. TypeOK /\ Room /\ Held /\ Numbered /\ DoneOK
  BY DEF Inv
<1>n. /\ BufferSize \in Nat /\ FifoDepth \in Nat \ {0} /\ left \in Nat
      /\ tx_buffer \in Seq(Nat) /\ Len(tx_buffer) \in Nat /\ Len(tx_buffer) <= BufferSize
      /\ fifo \in Seq(Nat) /\ Len(fifo) \in Nat /\ written \in Nat /\ sent \in Nat
  BY <1>t, Numbers
<1>w. /\ tx = "drain" /\ Len(fifo) < FifoDepth /\ tx_buffer # <<>>
      /\ fifo' = Append(fifo, Head(tx_buffer)) /\ tx_buffer' = Tail(tx_buffer)
      /\ UNCHANGED <<host, frame, left, written, mutex, tx, tx_done, sent>>
  BY DEF TxMove, Moves, hostVars
<1> DEFINE q == Append(fifo, Head(tx_buffer))
           r == Tail(tx_buffer)
<1>r. Head(tx_buffer) \in Nat /\ r \in Seq(Nat) /\ Len(r) = Len(tx_buffer) - 1
  BY <1>n, <1>w, TailFacts
<1>q. q \in Seq(Nat) /\ Len(q) = Len(fifo) + 1
  BY <1>n, <1>r, AppendFacts
<1>1. ControlOK' /\ FrameOK'
  BY <1>t, <1>w DEF TypeOK, ControlOK, FrameOK, HostHolds, TxHolds
<1>2. ASSUME NEW n \in Nat, NEW m \in Nat, n < FifoDepth, m <= BufferSize
      PROVE  n + 1 <= FifoDepth /\ m - 1 <= BufferSize
  BY <1>n, <1>2
<1>3. Len(q) <= FifoDepth /\ Len(r) <= BufferSize
  BY <1>2, <1>n, <1>q, <1>r, <1>w, Zenon
<1>4. BytesOK'
  BY <1>3, <1>n, <1>q, <1>r, <1>t, <1>w DEF TypeOK, BytesOK
<1>5. ~ HostHolds /\ ~ (left > 0)
  BY <1>t, <1>w, Exclusion DEF TxHolds
<1>6. Room' /\ Held'
  BY <1>5, <1>w DEF Room, Held
<1>7. Numbered'
  <2>1. InLine(written, sent, fifo, tx_buffer)
    BY <1>t DEF Numbered
  <2>2. InLine(written, sent, q, r)
    BY <2>1, <1>n, <1>w, MoveInLine
  <2> QED BY <2>2, <1>w DEF Numbered
<1>8. DoneOK'
  BY <1>5, <1>w DEF DoneOK, HostHolds
<1> QED BY <1>1, <1>4, <1>6, <1>7, <1>8 DEF Inv, TypeOK

(* A byte leaves the FIFO: one of a frame that is written to its last byte.*)
LEMMA ShiftByteStep ==
  ASSUME Inv, ShiftByte
  PROVE  Inv' /\ sent' = sent + 1 /\ sent < Complete
<1>t. TypeOK /\ Room /\ Held /\ Numbered /\ DoneOK
  BY DEF Inv
<1>n. /\ frame.size \in Nat /\ left \in Nat /\ left <= frame.size
      /\ tx_buffer \in Seq(Nat) /\ Len(tx_buffer) \in Nat
      /\ fifo \in Seq(Nat) /\ Len(fifo) \in Nat /\ written \in Nat /\ sent \in Nat
      /\ Len(fifo) <= FifoDepth /\ FifoDepth \in Nat
  BY <1>t, Numbers
<1>w. /\ fifo # <<>> /\ sent' = Head(fifo) /\ fifo' = Tail(fifo)
      /\ UNCHANGED <<host, frame, left, written, mutex, tx, tx_buffer, tx_done>>
  BY DEF ShiftByte, hostVars
<1> DEFINE r == Tail(fifo)
<1>r. Head(fifo) \in Nat /\ r \in Seq(Nat) /\ Len(r) = Len(fifo) - 1
  BY <1>n, <1>w, TailFacts
<1>1. ControlOK' /\ FrameOK' /\ Room' /\ Held' /\ DoneOK'
  BY <1>t, <1>w DEF TypeOK, ControlOK, FrameOK, HostHolds, TxHolds, Room, Held, DoneOK
<1>2. ASSUME NEW n \in Nat, n <= FifoDepth PROVE n - 1 <= FifoDepth
  BY <1>n, <1>2
<1>3. Len(r) <= FifoDepth
  BY <1>2, <1>n, <1>r, Zenon
<1>4. BytesOK'
  BY <1>3, <1>r, <1>t, <1>w DEF TypeOK, BytesOK
<1>5. ASSUME NEW n \in Nat, n <= Len(tx_buffer)
      PROVE  Head(fifo) = sent + 1 /\ InLine(written, Head(fifo), r, tx_buffer)
             /\ sent < written - n
  BY <1>5, <1>n, <1>t, <1>w, HeadInLine DEF Numbered
<1>6. 0 \in Nat /\ 0 <= Len(tx_buffer)
  BY <1>n
<1>7. Numbered' /\ sent' = sent + 1 /\ sent < written
  BY <1>5, <1>6, <1>n, <1>w DEF Numbered
<1>8. sent < Complete
  <2>1. CASE left > 0
    <3>1. frame.size - left \in Nat
      BY <1>n
    <3> QED BY <1>5, <1>t, <2>1, <3>1 DEF Complete, Held
  <2>2. CASE ~ (left > 0)
    BY <1>7, <2>2 DEF Complete
  <2> QED BY <2>1, <2>2
<1> QED BY <1>1, <1>4, <1>7, <1>8 DEF Inv, TypeOK

(* The steps that leave every byte where it is.                            *)
bytes == <<tx_buffer, fifo, written, sent>>
Control ==
  \/ SendMessage \/ TakeMutex \/ BeginFrame \/ DropFrame \/ MarkBusy \/ GiveMutex
  \/ TxTake \/ TxMark \/ TxGive

(* They keep the invariant: a frame is begun only if the space it asks for *)
(* is there.                                                               *)
LEMMA ControlStep ==
  ASSUME Inv, Control
  PROVE  Inv' /\ UNCHANGED bytes
<1>t. TypeOK /\ Room /\ Held /\ Numbered /\ DoneOK
  BY DEF Inv
<1>n. /\ BufferSize \in Nat /\ frame.size \in Nat /\ left \in Nat /\ left <= frame.size
      /\ tx_buffer \in Seq(Nat) /\ Len(tx_buffer) \in Nat /\ Len(tx_buffer) <= BufferSize
  BY <1>t, Numbers
<1>b. UNCHANGED bytes
  BY DEF Control, SendMessage, TakeMutex, BeginFrame, DropFrame, MarkBusy, GiveMutex,
         TxTake, TxMark, TxGive, hostVars, bytes
<1>1. BytesOK' /\ Numbered'
  BY <1>b, <1>t DEF bytes, TypeOK, BytesOK, Numbered
<1>2. ControlOK'
  BY <1>t DEF Control, SendMessage, TakeMutex, BeginFrame, DropFrame, MarkBusy, GiveMutex,
              TxTake, TxMark, TxGive, hostVars, TypeOK, ControlOK, HostHolds, TxHolds
<1>3. CASE SendMessage
  <2>1. frame' \in Frames /\ left' = 0 /\ host' = "take" /\ UNCHANGED <<tx, tx_done>>
    BY <1>3, <1>t DEF SendMessage, TypeOK, FrameOK
  <2>2. frame' \in [room : Nat, size : Nat]
    BY <2>1, HostTxAssumption
  <2>3. FrameOK'
    BY <2>1, <2>2 DEF FrameOK
  <2>4. Room' /\ Held' /\ DoneOK'
    BY <1>3, <1>b, <1>t, <2>1 DEF SendMessage, bytes, Room, Held, DoneOK
  <2> QED BY <1>1, <1>2, <1>b, <2>3, <2>4 DEF Inv, TypeOK
<1>4. CASE BeginFrame
  <2>1. /\ frame \in Frames /\ left' = frame.size /\ host' = "write"
        /\ frame.room <= BufferSize - Len(tx_buffer)
        /\ UNCHANGED <<frame, tx, tx_done, tx_buffer>>
    BY <1>4, <1>t DEF BeginFrame, min_tx_space, TypeOK, FrameOK
  <2>2. frame.room \in Nat /\ frame.size \in Nat \ {0}
    BY <2>1, HostTxAssumption
  <2>3. FrameOK'
    BY <2>1, <2>2 DEF FrameOK
  <2>4. ASSUME NEW n \in Nat, NEW m \in Nat, NEW s \in Nat, m <= BufferSize - n
        PROVE  n + m <= BufferSize + (s - s) /\ s - s <= n
    BY <1>n, <2>4
  <2>5. /\ Len(tx_buffer) + frame.room <= BufferSize + (frame.size - frame.size)
        /\ frame.size - frame.size <= Len(tx_buffer)
    BY <1>n, <2>1, <2>2, <2>4, Zenon
  <2>6. Room' /\ Held'
    BY <2>1, <2>5 DEF Room, Held
  <2>7. DoneOK'
    BY <1>4, <1>t, <2>1 DEF BeginFrame, DoneOK
  <2> QED BY <1>1, <1>2, <1>b, <2>3, <2>6, <2>7 DEF Inv, TypeOK
<1>5. CASE MarkBusy
  <2>1. UNCHANGED <<frame, left, tx, tx_buffer>> /\ tx_buffer # <<>> /\ ~ tx_done'
    BY <1>5, <1>t DEF MarkBusy, DoneOK
  <2>2. FrameOK'
    BY <1>5, <1>n, <1>t DEF MarkBusy, TypeOK, FrameOK
  <2>3. Room' /\ Held' /\ DoneOK'
    BY <1>5, <1>t, <2>1 DEF MarkBusy, Room, Held, DoneOK
  <2> QED BY <1>1, <1>2, <1>b, <2>2, <2>3 DEF Inv, TypeOK
<1>6. CASE TakeMutex \/ DropFrame \/ GiveMutex
  <2>1. FrameOK'
    BY <1>6, <1>t DEF TakeMutex, DropFrame, GiveMutex, TypeOK, FrameOK
  <2>2. Room' /\ Held' /\ DoneOK'
    BY <1>6, <1>t DEF TakeMutex, DropFrame, GiveMutex, Room, Held, DoneOK
  <2> QED BY <1>1, <1>2, <1>b, <2>1, <2>2 DEF Inv, TypeOK
<1>7. CASE TxTake \/ TxMark \/ TxGive
  <2>1. FrameOK' /\ Room' /\ Held'
    BY <1>7, <1>t DEF TxTake, TxMark, TxGive, hostVars, TypeOK, FrameOK, Room, Held
  <2>2. DoneOK'
    <3>1. CASE TxTake \/ TxGive
      BY <3>1, <1>t DEF TxTake, TxGive, hostVars, DoneOK
    <3>2. CASE TxMark
      <4>1. UNCHANGED <<host, tx_buffer>> /\ tx_done' = (tx_buffer = <<>>)
        BY <3>2 DEF TxMark, hostVars
      <4>2. tx_done' <=> tx_buffer' = <<>>
        BY <4>1, Zenon
      <4> QED BY <1>t, <4>1, <4>2 DEF DoneOK
    <3> QED BY <1>7, <3>1, <3>2
  <2> QED BY <1>1, <1>2, <1>b, <2>1, <2>2 DEF Inv, TypeOK
<1> QED BY <1>3, <1>4, <1>5, <1>6, <1>7 DEF Control

(* Every step is one of these.                                             *)
LEMMA Steps ==
  ASSUME [Next]_vars
  PROVE  Control \/ WriteByte \/ TxMove \/ ShiftByte \/ UNCHANGED vars
  BY DEF Next, HostStep, TxStep, Control

(* The initial state satisfies the invariant.                              *)
LEMMA InvInit ==
  ASSUME Init
  PROVE  Inv
<1>1. <<>> \in Seq(Nat) /\ Len(<<>>) = 0 /\ 0 <= BufferSize /\ 0 <= FifoDepth
  BY HostTxAssumption
<1>2. TypeOK
  BY <1>1 DEF Init, TypeOK, ControlOK, FrameOK, BytesOK, HostHolds, TxHolds
<1>3. InLine(0, 0, <<>>, <<>>)
  BY DEF InLine
<1>4. Numbered
  BY <1>3 DEF Init, Numbered
<1>5. Room /\ Held /\ DoneOK
  BY DEF Init, Room, Held, DoneOK
<1> QED BY <1>2, <1>4, <1>5 DEF Inv

(* Every step keeps it.                                                    *)
LEMMA InvNext ==
  ASSUME Inv, [Next]_vars
  PROVE  Inv'
<1>1. CASE UNCHANGED vars
  BY <1>1 DEF vars, hostVars, Inv, TypeOK, ControlOK, FrameOK, BytesOK, HostHolds, TxHolds,
              Room, Held, Numbered, DoneOK
<1> QED BY <1>1, Steps, ControlStep, WriteByteStep, TxMoveStep, ShiftByteStep

(* The invariant holds at every time.                                      *)
LEMMA InvCorrect == Spec => []Inv
  BY InvInit, InvNext, PTL DEF Spec

(* Every variable keeps its type, neither the buffer nor the FIFO          *)
(* overflows, and the mutex keeps the two tasks apart (host.c:109-113,     *)
(* uart.c:438-452).                                                        *)
THEOREM TypeCorrect == Spec => []TypeOK
  BY InvCorrect, PTL DEF Inv

(* Whatever MIN asks for and writes, the host task gets that much into the *)
(* buffer without waiting (host.c:109-112, min_port.c:24-34): it can wait  *)
(* with the mutex in its hands for bytes beyond the space asked for only.  *)
THEOREM WaitsCorrect == Spec => []WaitsForExcessOnly
<1>1. ASSUME Inv PROVE WaitsForExcessOnly
  <2>1. SUFFICES ASSUME Blocked PROVE frame.room <= frame.size - left
    BY DEF WaitsForExcessOnly
  <2>2. /\ BufferSize \in Nat /\ left \in Nat /\ left <= frame.size
        /\ frame.room \in Nat /\ frame.size \in Nat
    BY <1>1, Numbers DEF Inv
  <2>3. Len(tx_buffer) = BufferSize /\ BufferSize + frame.room <= BufferSize + (frame.size - left)
    BY <1>1, <2>1 DEF Inv, TypeOK, FrameOK, Room, Blocked
  <2>4. ASSUME NEW n \in Nat, NEW m \in Nat, NEW s \in Nat, m <= s,
               BufferSize + n <= BufferSize + (s - m)
        PROVE  n <= s - m
    BY <2>2, <2>4
  <2> QED BY <2>2, <2>3, <2>4, Zenon
<1> QED BY <1>1, InvCorrect, PTL

(* And if it does wait there, it waits for ever (uart.c:438-445): the task *)
(* that makes space does not get the mutex again, and every byte in the    *)
(* buffer stays in it.                                                     *)
THEOREM BlockedForEver == Spec => [][Blocked => Blocked' /\ tx_buffer' = tx_buffer]_vars
<1>1. ASSUME TypeOK, [Next]_vars, Blocked PROVE Blocked' /\ tx_buffer' = tx_buffer
  <2>1. host = "write" /\ mutex = "host" /\ ~ TxHolds /\ ~ (Len(tx_buffer) < BufferSize)
    BY <1>1, HostTxAssumption DEF Blocked, TypeOK, ControlOK, BytesOK, HostHolds, TxHolds
  <2>2. UNCHANGED <<host, tx_buffer>>
    BY <1>1, <2>1 DEF Next, HostStep, TxStep, SendMessage, TakeMutex, BeginFrame, DropFrame,
                      WriteByte, MarkBusy, GiveMutex, TxTake, TxMove, TxMark, TxGive,
                      ShiftByte, hostVars, vars, TxHolds
  <2> QED BY <1>1, <2>2 DEF Blocked
<1>2. ASSUME Inv, [Next]_vars PROVE [Blocked => Blocked' /\ tx_buffer' = tx_buffer]_vars
  BY <1>1, <1>2 DEF Inv
<1> QED BY <1>2, InvCorrect, PTL DEF Spec

(* Outside the critical sections tx_done tells whether the buffer is       *)
(* empty (uart.c:289 against 450).                                         *)
THEOREM TxDoneCorrect == Spec => []TxDoneTellsBuffer
<1>1. ASSUME Inv PROVE TxDoneTellsBuffer
  <2>1. mutex = "free" => host # "mark" /\ tx # "drain"
    BY <1>1 DEF Inv, TypeOK, ControlOK, HostHolds, TxHolds
  <2> QED BY <1>1, <2>1 DEF Inv, DoneOK, TxDoneTellsBuffer
<1> QED BY <1>1, InvCorrect, PTL

(* What counts as written changes by whole frames: with the last byte of   *)
(* one.                                                                    *)
LEMMA CompleteSteps ==
  ASSUME Inv, Control \/ WriteByte \/ TxMove \/ ShiftByte
  PROVE  \/ Complete' = Complete
         \/ /\ WriteByte /\ frame \in Frames
            /\ Complete \in Nat /\ Complete' = Complete + frame.size
<1>t. TypeOK /\ Held
  BY DEF Inv
<1>n. /\ frame.size \in Nat /\ left \in Nat /\ left <= frame.size /\ written \in Nat
      /\ Len(tx_buffer) \in Nat
  BY <1>t, Numbers
<1>1. CASE WriteByte
  <2>1. /\ left > 0 /\ left' = left - 1 /\ written' = written + 1 /\ frame' = frame
        /\ frame \in Frames
    BY <1>1, <1>t DEF WriteByte, TypeOK, FrameOK
  <2>2. ASSUME NEW w \in Nat, NEW s \in Nat, NEW m \in Nat, NEW n \in Nat,
               m > 0, m <= s, s - m <= n, n <= w
        PROVE  /\ w - (s - m) \in Nat
               /\ m = 1 => w + 1 = w - (s - m) + s
               /\ m # 1 => m - 1 > 0 /\ (w + 1) - (s - (m - 1)) = w - (s - m)
               /\ m = 1 => ~ (m - 1 > 0)
    BY <2>2
  <2>3. Len(tx_buffer) <= written
    <3>1. /\ written = sent + Len(<<>>) + Len(fifo) + Len(tx_buffer) /\ Len(<<>>) = 0
          /\ sent \in Nat /\ Len(fifo) \in Nat
      BY <1>t, Numbers DEF Inv, Numbered, InLine
    <3>2. ASSUME NEW s \in Nat, NEW q \in Nat, NEW b \in Nat, NEW w, w = s + 0 + q + b
          PROVE  b <= w
      BY <3>2
    <3> QED BY <1>n, <3>1, <3>2, Zenon
  <2>4. frame.size - left <= Len(tx_buffer)
    BY <1>t, <2>1 DEF Held
  <2>5. /\ written - (frame.size - left) \in Nat
        /\ left = 1 => written + 1 = written - (frame.size - left) + frame.size
        /\ left # 1 => /\ left - 1 > 0
                       /\ (written + 1) - (frame.size - (left - 1))
                            = written - (frame.size - left)
        /\ left = 1 => ~ (left - 1 > 0)
    BY <1>n, <2>1, <2>2, <2>3, <2>4, Zenon
  <2> QED BY <1>1, <2>1, <2>5 DEF Complete
<1>2. CASE Control
  <2>1. written' = written
    BY <1>2 DEF Control, SendMessage, TakeMutex, BeginFrame, DropFrame, MarkBusy, GiveMutex,
                TxTake, TxMark, TxGive, hostVars
  <2>2. CASE SendMessage
    <3>1. left = 0 /\ left' = 0
      BY <1>t, <2>2 DEF SendMessage, TypeOK, FrameOK
    <3> QED BY <2>1, <3>1 DEF Complete
  <2>3. CASE BeginFrame
    <3>1. left = 0 /\ left' = frame.size /\ frame' = frame
      BY <1>t, <2>3 DEF BeginFrame, TypeOK, FrameOK
    <3>2. written - (frame.size - frame.size) = written
      BY <1>n
    <3> QED BY <2>1, <3>1, <3>2 DEF Complete
  <2>4. CASE ~ SendMessage /\ ~ BeginFrame
    <3>1. UNCHANGED <<left, frame>>
      BY <1>2, <2>4 DEF Control, TakeMutex, DropFrame, MarkBusy, GiveMutex,
                        TxTake, TxMark, TxGive, hostVars
    <3> QED BY <2>1, <3>1 DEF Complete
  <2> QED BY <2>2, <2>3, <2>4
<1>3. CASE TxMove \/ ShiftByte
  BY <1>3 DEF TxMove, ShiftByte, hostVars, Complete
<1> QED BY <1>1, <1>2, <1>3

(* "Lock the mutex to send the frame in one piece" (host.c:104-112,        *)
(* uart.c:438-452): the line gets the bytes of whole frames, in order and  *)
(* once each: the host UART implements a line of ByteLine.                 *)
THEOREM LineCorrect == Spec => ImplementsLine
<1>1. Init => Line!Init
  BY DEF Init, Line!Init, Complete
<1>2. ASSUME Inv, [Next]_vars PROVE [Line!Next]_Line!lineVars
  <2>1. CASE ShiftByte
    <3>1. sent' = sent + 1 /\ sent < Complete /\ Complete' = Complete
      <4>1. ~ WriteByte
        BY <2>1 DEF ShiftByte, WriteByte, hostVars
      <4> QED BY <1>2, <2>1, <4>1, ShiftByteStep, CompleteSteps
    <3>2. Line!Carry("host")
      BY <3>1 DEF Line!Carry, HostLine
    <3> QED BY <3>2 DEF Line!Next, HostLine
  <2>2. CASE WriteByte \/ TxMove \/ Control
    <3>1. sent' = sent
      BY <1>2, <2>2, ControlStep DEF WriteByte, TxMove, bytes
    <3>2. CASE Complete' = Complete
      BY <3>1, <3>2 DEF Line!lineVars
    <3>3. CASE frame \in Frames /\ Complete' = Complete + frame.size
      <4>1. frame.size \in {f.size : f \in Frames}
        BY <3>3
      <4>2. Line!Accept("host")
        BY <3>1, <3>3, <4>1 DEF Line!Accept, HostLine
      <4> QED BY <4>2 DEF Line!Next, HostLine
    <3> QED BY <1>2, <2>2, <3>2, <3>3, CompleteSteps
  <2>3. CASE UNCHANGED vars
    BY <2>3 DEF vars, hostVars, Line!lineVars, Complete
  <2> QED BY <1>2, <2>1, <2>2, <2>3, Steps
<1> QED BY <1>1, <1>2, InvCorrect, PTL DEF Spec, ImplementsLine, Line!Spec
=============================================================================
