------------------------------- MODULE HostTx -------------------------------
(***************************************************************************)
(* The transmit side of the host UART (src/host.c, src/min_port.c,         *)
(* src/uart.c).  The host task writes MIN frames byte by byte into the     *)
(* stream buffer; the task task_hw_uart_tx moves them from there to the    *)
(* FIFO of the UART.  tx_buffer_mutex keeps the two apart, so that a frame *)
(* is sent in one piece.  The host task waits for space while it holds the *)
(* mutex that the other task needs to make space: a task that has to wait  *)
(* there waits for ever.                                                   *)
(*                                                                         *)
(* EXTERNAL: MIN.  A frame is the space it asks for (room) and the bytes   *)
(* it writes (size).  Neither bounds the other: the bytes of a header that *)
(* turn up in the payload are stuffed (support/min.py:40-61), and what is  *)
(* in the repository does not say that room counts the stuff bytes.        *)
(***************************************************************************)
EXTENDS Naturals, Sequences

CONSTANTS
  Frames,      \* the MIN frames the host task sends
  BufferSize,  \* UART_BUFFER_SIZE
  FifoDepth,   \* of the hardware UART
  MaxBytes     \* bound: bytes written

ASSUME HostTxAssumption ==
  /\ Frames \subseteq [room : Nat, size : Nat \ {0}]
  /\ BufferSize \in Nat /\ FifoDepth \in Nat \ {0}
  /\ MaxBytes \in Nat

VARIABLES
  host,       \* where the host task is inside safe_min_send_frame
  frame,      \* the frame it sends
  left,       \* the bytes of it still to be written
  mutex,      \* who holds tx_buffer_mutex
  tx,         \* where task_hw_uart_tx is
  tx_buffer,  \* the stream buffer; a byte is its number since the start
  tx_done,
  fifo,       \* TX FIFO of the UART
  written,    \* bytes written so far
  sent        \* the last byte on the line

hostVars == <<host, frame, left, written>>
vars == <<hostVars, mutex, tx, tx_buffer, tx_done, fifo, sent>>

HostHolds == host \in {"check", "write", "mark", "give"}
TxHolds == tx \in {"drain", "give"}

(* Every variable holds a value of its type, nothing overflows, and a task *)
(* is inside its critical section when it holds the mutex, and only then.  *)
ControlOK ==
  /\ host \in {"idle", "take", "check", "write", "mark", "give"}
  /\ tx \in {"sleep", "drain", "give"}
  /\ mutex \in {"free", "host", "tx"}
  /\ mutex = "host" <=> HostHolds
  /\ mutex = "tx" <=> TxHolds
  /\ tx_done \in BOOLEAN
FrameOK ==
  /\ frame \in Frames \cup {[room |-> 0, size |-> 0]}
  /\ left \in 0 .. frame.size
  /\ host = "write" => left > 0
  /\ host \in {"idle", "take", "check", "give"} => left = 0
  /\ host \in {"take", "check"} => frame \in Frames
BytesOK ==
  /\ tx_buffer \in Seq(Nat) /\ Len(tx_buffer) <= BufferSize
  /\ fifo \in Seq(Nat) /\ Len(fifo) <= FifoDepth
  /\ written \in Nat /\ sent \in Nat
TypeOK == ControlOK /\ FrameOK /\ BytesOK

Init ==
  /\ host = "idle"
  /\ frame = [room |-> 0, size |-> 0]
  /\ left = 0
  /\ mutex = "free"
  /\ tx = "sleep"
  /\ tx_buffer = <<>>
  /\ tx_done = TRUE
  /\ fifo = <<>>
  /\ written = 0
  /\ sent = 0

(***************************************************************************)
(* The host task: safe_min_send_frame.                                     *)
(***************************************************************************)
SendMessage ==
  /\ host = "idle"
  /\ \E f \in Frames :
       /\ written + f.size <= MaxBytes
       /\ frame' = f
  /\ host' = "take"
  /\ UNCHANGED <<left, written, mutex, tx, tx_buffer, tx_done, fifo, sent>>

TakeMutex ==
  /\ host = "take"
  /\ mutex = "free"
  /\ mutex' = "host"
  /\ host' = "check"
  /\ UNCHANGED <<frame, left, written, tx, tx_buffer, tx_done, fifo, sent>>

SpaceOfEmpty == BufferSize  \* mutant: the size of the buffer, not its space
min_tx_space == BufferSize - Len(tx_buffer)

(* min_send_frame sends the frame if there is space for it ...             *)
BeginFrame ==
  /\ host = "check"
  /\ frame.room <= min_tx_space
  /\ left' = frame.size
  /\ host' = "write"
  /\ UNCHANGED <<frame, written, mutex, tx, tx_buffer, tx_done, fifo, sent>>

DropFrameHolding ==  \* mutant: returns early, without giving the mutex back
  /\ host = "check"
  /\ frame.room > min_tx_space
  /\ host' = "idle"
  /\ UNCHANGED <<frame, left, written, mutex, tx, tx_buffer, tx_done, fifo, sent>>

(* ... and does nothing if there is not.                                   *)
DropFrame ==
  /\ host = "check"
  /\ frame.room > min_tx_space
  /\ host' = "give"
  /\ UNCHANGED <<frame, left, written, mutex, tx, tx_buffer, tx_done, fifo, sent>>

(* min_tx_byte: xStreamBufferSend waits for space ...                      *)
WriteByte ==
  /\ host = "write"
  /\ Len(tx_buffer) < BufferSize
  /\ tx_buffer' = Append(tx_buffer, written + 1)
  /\ written' = written + 1
  /\ left' = left - 1
  /\ host' = "mark"
  /\ UNCHANGED <<frame, mutex, tx, tx_done, fifo, sent>>

(* ... and _uart_write_bytes goes on.                                      *)
MarkBusy ==
  /\ host = "mark"
  /\ tx_done' = FALSE
  /\ host' = IF left = 0 THEN "give" ELSE "write"
  /\ UNCHANGED <<frame, left, written, mutex, tx, tx_buffer, fifo, sent>>

GiveMutex ==
  /\ host = "give"
  /\ mutex' = "free"
  /\ host' = "idle"
  /\ UNCHANGED <<frame, left, written, tx, tx_buffer, tx_done, fifo, sent>>

HostStep ==
  TakeMutex \/ BeginFrame \/ DropFrame \/ WriteByte \/ MarkBusy \/ GiveMutex

(***************************************************************************)
(* task_hw_uart_tx, a pass a millisecond.                                  *)
(***************************************************************************)
TakeAnyway ==  \* mutant: the mutex is not taken
  /\ tx = "sleep"
  /\ tx' = "drain"
  /\ UNCHANGED <<hostVars, mutex, tx_buffer, tx_done, fifo, sent>>

TxTake ==
  /\ tx = "sleep"
  /\ mutex = "free"
  /\ mutex' = "tx"
  /\ tx' = "drain"
  /\ UNCHANGED <<hostVars, tx_buffer, tx_done, fifo, sent>>

Moves == Len(fifo) < FifoDepth /\ tx_buffer # <<>>

TxMove ==
  /\ tx = "drain"
  /\ Moves
  /\ fifo' = Append(fifo, Head(tx_buffer))
  /\ tx_buffer' = Tail(tx_buffer)
  /\ UNCHANGED <<hostVars, mutex, tx, tx_done, sent>>

MarkDone ==  \* mutant: done when the FIFO is full, too
  /\ tx = "drain"
  /\ ~ Moves
  /\ tx_done' = TRUE
  /\ tx' = "give"
  /\ UNCHANGED <<hostVars, mutex, tx_buffer, fifo, sent>>

TxMark ==
  /\ tx = "drain"
  /\ ~ Moves
  /\ tx_done' = (tx_buffer = <<>>)
  /\ tx' = "give"
  /\ UNCHANGED <<hostVars, mutex, tx_buffer, fifo, sent>>

TxGive ==
  /\ tx = "give"
  /\ mutex' = "free"
  /\ tx' = "sleep"
  /\ UNCHANGED <<hostVars, tx_buffer, tx_done, fifo, sent>>

TxStep == TxTake \/ TxMove \/ TxMark \/ TxGive

(* The UART shifts a byte out.                                             *)
ShiftByte ==
  /\ fifo # <<>>
  /\ sent' = Head(fifo)
  /\ fifo' = Tail(fifo)
  /\ UNCHANGED <<hostVars, mutex, tx, tx_buffer, tx_done>>

Next == SendMessage \/ HostStep \/ TxStep \/ ShiftByte

(* The UART runs; both tasks run, and each gets the mutex in the end: one  *)
(* that waits for it is woken when the other one gives it, and the host    *)
(* task sleeps in each pass without it.                                    *)
Fairness == WF_vars(ShiftByte) /\ SF_vars(HostStep) /\ SF_vars(TxStep)

Spec == Init /\ [][Next]_vars
FairSpec == Spec /\ Fairness

(***************************************************************************)
(* Properties.                                                             *)
(***************************************************************************)

(* The host task waits for space, with the mutex in its hands.             *)
Blocked == host = "write" /\ Len(tx_buffer) = BufferSize

(* It does so with a frame that writes more than it asked for only.        *)
Overfull == Blocked /\ frame.room < frame.size

(* Of every frame the bytes it asked space for are written without waiting *)
(* (host.c:109-112, min_port.c:24-34, uart.c:438): the host task waits for *)
(* those beyond them only.                                                 *)
WaitsForExcessOnly == Blocked => frame.room <= frame.size - left

(* While no task is at work, tx_done tells whether the buffer is empty     *)
(* (uart.c:289 against 450).                                               *)
TxDoneTellsBuffer == mutex = "free" => (tx_done <=> tx_buffer = <<>>)

(* "Lock the mutex to send the frame in one piece" (host.c:104-106): the   *)
(* line gets bytes of frames that are written to the last byte only, whole *)
(* frames in order and nothing in between.  The bytes of the frame in hand *)
(* do not count before its last one is in the buffer.                      *)
Complete == IF left > 0 THEN written - (frame.size - left) ELSE written
HostLine == {"host"}
Line == INSTANCE ByteLine
          WITH Lines <- HostLine, Bursts <- {f.size : f \in Frames},
               written <- [l \in HostLine |-> Complete],
               sent <- [l \in HostLine |-> sent]
ImplementsLine == Line!Spec

(* ... and each such byte leaves in the end (uart.c:430-456), unless a     *)
(* frame that writes more than it asked for holds up everything.           *)
EveryByteLeaves ==
  \A k \in 1 .. MaxBytes : Complete >= k ~> (sent >= k \/ Overfull)

(* The host task comes back from every message it sends, and is not        *)
(* starved of the mutex (host.c:107-114): the one way in which it does not *)
(* is a frame that writes more than it asked for and meets a full buffer.  *)
HostReturns == host # "idle" ~> (host = "idle" \/ Overfull)
=============================================================================
