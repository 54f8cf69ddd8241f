-------------------------- MODULE PioUartRxProofs --------------------------
(***************************************************************************)
(* Theorems about the receive side of the PIO UARTs, for any number of     *)
(* UARTs, buffer size, FIFO depth and number of bytes.                     *)
(***************************************************************************)
EXTENDS PioUartRx, TLAPS

(* What tail and append do to a sequence, index by index.                  *)
LEMMA TailFacts ==
  ASSUME NEW S, NEW q \in Seq(S), q # <<>>
  PROVE  /\ Head(q) \in S /\ Head(q) = q[1] /\ Len(q) \in Nat \ {0}
         /\ Tail(q) \in Seq(S) /\ Len(Tail(q)) = Len(q) - 1
         /\ \A k \in 1 .. Len(Tail(q)) : k + 1 \in 1 .. Len(q) /\ Tail(q)[k] = q[k + 1]
  OBVIOUS

(* A byte appended to a queue comes last.                                  *)
LEMMA AppendFacts ==
  ASSUME NEW S, NEW q \in Seq(S), NEW e \in S
  PROVE  /\ Append(q, e) \in Seq(S) /\ Len(Append(q, e)) = Len(q) + 1
         /\ Append(q, e)[Len(q) + 1] = e
         /\ \A k \in 1 .. Len(q) : Append(q, e)[k] = q[k]
  OBVIOUS

(***************************************************************************)
(* The inductive invariant.  What waits in buffer, FIFO and state machine  *)
(* came in this order, after what was read last (InOrder).  In the course  *)
(* of a flush the three are freed one after the other of what came before  *)
(* it: the state machine at once, the FIFO when it was seen empty, the     *)
(* buffer when it was reset (Fresh); all but the byte the state machine    *)
(* was stalled with.                                                       *)
(***************************************************************************)
Rising(q) == \A j, k \in 1 .. Len(q) : j < k => q[j] < q[k]
Above(m, q) == \A k \in 1 .. Len(q) : m < q[k]
Recent(m, h, q) == \A k \in 1 .. Len(q) : m < q[k] \/ q[k] = h
Before(p, q) == \A j \in 1 .. Len(p), k \in 1 .. Len(q) : p[j] < q[k]
UpTo(q, n) == \A k \in 1 .. Len(q) : q[k] <= n

InOrder(l, b, f, i, n) ==
  /\ l <= n
  /\ Rising(b) /\ Rising(f)
  /\ Above(l, b) /\ Above(l, f) /\ Above(l, i)
  /\ Before(b, f) /\ Before(b, i) /\ Before(f, i)
  /\ UpTo(b, n) /\ UpTo(f, n) /\ UpTo(i, n)

Fresh(stage, m, h, b, f, i) ==
  /\ stage \in {"drain", "reset", "read"} => Recent(m, h, i)
  /\ stage \in {"reset", "read"} => Recent(m, h, f)
  /\ stage = "read" => Recent(m, h, b)

Ordered(u) == InOrder(last[u], rx_buffer[u], fifo[u], input[u], arrived[u])
Freshened(u) == Fresh(reader[u], mark[u], held[u], rx_buffer[u], fifo[u], input[u])
Marked(u) == mark[u] <= arrived[u]
Inv == TypeOK /\ \A u \in Uarts : Ordered(u) /\ Freshened(u) /\ Marked(u)

(***************************************************************************)
(* What the steps do to one line.                                          *)
(***************************************************************************)

(* A byte that is dropped or read from a queue leaves the others in order. *)
LEMMA TailOrder ==
  ASSUME NEW q \in Seq(Nat), q # <<>>, Rising(q)
  PROVE  /\ Tail(q) \in Seq(Nat) /\ Rising(Tail(q)) /\ Above(Head(q), Tail(q))
         /\ \A m \in Nat : Above(m, q) => Above(m, Tail(q)) /\ m < Head(q)
         /\ \A n \in Nat : UpTo(q, n) => UpTo(Tail(q), n) /\ Head(q) <= n
         /\ \A p \in Seq(Nat) : Before(p, q) => Before(p, Tail(q))
         /\ \A p \in Seq(Nat) : Before(q, p) => Before(Tail(q), p) /\ Above(Head(q), p)
<1> DEFINE r == Tail(q)
<1>1. /\ Head(q) \in Nat /\ Head(q) = q[1] /\ Len(q) \in Nat \ {0}
      /\ r \in Seq(Nat) /\ Len(r) = Len(q) - 1
      /\ \A k \in 1 .. Len(r) : k + 1 \in 1 .. Len(q) /\ r[k] = q[k + 1]
  BY TailFacts
<1>2. 1 \in 1 .. Len(q)
  BY <1>1
<1> HIDE DEF r
<1>3. ASSUME NEW j \in 1 .. Len(r), NEW k \in 1 .. Len(r), j < k PROVE r[j] < r[k]
  <2>1. j + 1 \in 1 .. Len(q) /\ k + 1 \in 1 .. Len(q) /\ j + 1 < k + 1
    BY <1>1, <1>3
  <2>2. q[j + 1] < q[k + 1]
    BY <2>1 DEF Rising
  <2> QED BY <1>1, <2>2
<1>4. ASSUME NEW k \in 1 .. Len(r) PROVE Head(q) < r[k]
  <2>1. k + 1 \in 1 .. Len(q) /\ 1 < k + 1
    BY <1>1
  <2>2. q[1] < q[k + 1]
    BY <1>2, <2>1 DEF Rising
  <2> QED BY <1>1, <2>2
<1>5. ASSUME NEW m \in Nat, Above(m, q) PROVE Above(m, r) /\ m < Head(q)
  BY <1>1, <1>2, <1>5 DEF Above
<1>6. ASSUME NEW n \in Nat, UpTo(q, n) PROVE UpTo(r, n) /\ Head(q) <= n
  BY <1>1, <1>2, <1>6 DEF UpTo
<1>7. ASSUME NEW p \in Seq(Nat), Before(p, q) PROVE Before(p, r)
  BY <1>1, <1>7 DEF Before
<1>8. ASSUME NEW p \in Seq(Nat), Before(q, p) PROVE Before(r, p) /\ Above(Head(q), p)
  BY <1>1, <1>2, <1>8 DEF Before, Above
<1>9. /\ r \in Seq(Nat) /\ Rising(r) /\ Above(Head(q), r)
      /\ \A m \in Nat : Above(m, q) => Above(m, r) /\ m < Head(q)
      /\ \A n \in Nat : UpTo(q, n) => UpTo(r, n) /\ Head(q) <= n
      /\ \A p \in Seq(Nat) : Before(p, q) => Before(p, r)
      /\ \A p \in Seq(Nat) : Before(q, p) => Before(r, p) /\ Above(Head(q), p)
  BY <1>1, <1>3, <1>4, <1>5, <1>6, <1>7, <1>8 DEF Rising, Above
<1> QED BY <1>9 DEF r

(* A byte that is appended comes after what comes before it.               *)
LEMMA AppendOrder ==
  ASSUME NEW q \in Seq(Nat), NEW e \in Nat, Rising(q), \A k \in 1 .. Len(q) : q[k] < e
  PROVE  /\ Append(q, e) \in Seq(Nat) /\ Rising(Append(q, e))
         /\ \A m \in Nat : Above(m, q) /\ m < e => Above(m, Append(q, e))
         /\ \A n \in Nat : UpTo(q, n) /\ e <= n => UpTo(Append(q, e), n)
         /\ \A p \in Seq(Nat) : Before(p, q) /\ (\A k \in 1 .. Len(p) : p[k] < e)
                                  => Before(p, Append(q, e))
         /\ \A p \in Seq(Nat) : Before(q, p) /\ Above(e, p) => Before(Append(q, e), p)
<1> DEFINE r == Append(q, e)
<1>1. /\ r \in Seq(Nat) /\ Len(r) = Len(q) + 1 /\ Len(q) \in Nat
      /\ r[Len(q) + 1] = e /\ \A k \in 1 .. Len(q) : r[k] = q[k]
  BY AppendFacts
<1> HIDE DEF r
<1>2. \A k \in 1 .. Len(r) : k \in 1 .. Len(q) \/ k = Len(q) + 1
  BY <1>1
<1>3. ASSUME NEW j \in 1 .. Len(r), NEW k \in 1 .. Len(r), j < k PROVE r[j] < r[k]
  <2>1. j \in 1 .. Len(q)
    BY <1>1, <1>3
  <2>2. CASE k = Len(q) + 1
    BY <1>1, <2>1, <2>2
  <2>3. CASE k \in 1 .. Len(q)
    <3>1. q[j] < q[k]
      BY <1>3, <2>1, <2>3 DEF Rising
    <3> QED BY <1>1, <2>1, <2>3, <3>1
  <2> QED BY <1>2, <2>2, <2>3
<1>4. ASSUME NEW m \in Nat, Above(m, q), m < e PROVE Above(m, r)
  BY <1>1, <1>2, <1>4 DEF Above
<1>5. ASSUME NEW n \in Nat, UpTo(q, n), e <= n PROVE UpTo(r, n)
  BY <1>1, <1>2, <1>5 DEF UpTo
<1>6. ASSUME NEW p \in Seq(Nat), Before(p, q), \A k \in 1 .. Len(p) : p[k] < e
      PROVE  Before(p, r)
  BY <1>1, <1>2, <1>6 DEF Before
<1>7. ASSUME NEW p \in Seq(Nat), Before(q, p), Above(e, p) PROVE Before(r, p)
  BY <1>1, <1>2, <1>7 DEF Before, Above
<1>8. /\ r \in Seq(Nat) /\ Rising(r)
      /\ \A m \in Nat : Above(m, q) /\ m < e => Above(m, r)
      /\ \A n \in Nat : UpTo(q, n) /\ e <= n => UpTo(r, n)
      /\ \A p \in Seq(Nat) : Before(p, q) /\ (\A k \in 1 .. Len(p) : p[k] < e)
                               => Before(p, r)
      /\ \A p \in Seq(Nat) : Before(q, p) /\ Above(e, p) => Before(r, p)
  BY <1>1, <1>3, <1>4, <1>5, <1>6, <1>7 DEF Rising
<1> QED BY <1>8 DEF r

(* Nothing is in order with anything, and one byte with itself.            *)
LEMMA SmallOrder ==
  ASSUME NEW e \in Nat
  PROVE  /\ Rising(<<>>)
         /\ \A m \in Nat : Above(m, <<>>) /\ UpTo(<<>>, m)
         /\ \A p \in Seq(Nat) : Before(p, <<>>) /\ Before(<<>>, p)
         /\ \A m \in Nat : (m < e => Above(m, <<e>>)) /\ (e <= m => UpTo(<<e>>, m))
         /\ \A p \in Seq(Nat) : (\A k \in 1 .. Len(p) : p[k] < e) => Before(p, <<e>>)
  BY DEF Rising, Above, UpTo, Before

(* A byte comes: into the FIFO, to wait for it, or to be missed.           *)
LEMMA ComeInOrder ==
  ASSUME NEW l \in Nat, NEW n \in Nat, NEW b \in Seq(Nat), NEW f \in Seq(Nat),
         NEW i \in Seq(Nat), InOrder(l, b, f, i, n)
  PROVE  /\ i = <<>> => /\ InOrder(l, b, Append(f, n + 1), <<>>, n + 1)
                        /\ InOrder(l, b, f, <<n + 1>>, n + 1)
         /\ InOrder(l, b, f, i, n + 1)
<1>1. \A q \in Seq(Nat) : UpTo(q, n) => UpTo(q, n + 1) /\ \A k \in 1 .. Len(q) : q[k] < n + 1
  BY DEF UpTo
<1>2. l < n + 1 /\ l <= n + 1 /\ n + 1 \in Nat
  BY DEF InOrder
<1>3. InOrder(l, b, f, i, n + 1)
  BY <1>1, <1>2 DEF InOrder
<1>4. ASSUME i = <<>> PROVE InOrder(l, b, Append(f, n + 1), <<>>, n + 1)
  <2> DEFINE e == n + 1
  <2>1. /\ e \in Nat /\ l <= e /\ l < e /\ e <= e
        /\ Rising(f) /\ Above(l, f) /\ UpTo(f, e) /\ Before(b, f)
        /\ \A k \in 1 .. Len(f) : f[k] < e
        /\ \A k \in 1 .. Len(b) : b[k] < e
        /\ Rising(b) /\ Above(l, b) /\ UpTo(b, e)
    BY <1>1, <1>2 DEF InOrder
  <2> HIDE DEF e
  <2>2. /\ Append(f, e) \in Seq(Nat) /\ Rising(Append(f, e))
        /\ Above(l, Append(f, e)) /\ UpTo(Append(f, e), e) /\ Before(b, Append(f, e))
    BY <2>1, AppendOrder
  <2>3. InOrder(l, b, Append(f, e), <<>>, e)
    BY <2>1, <2>2, SmallOrder DEF InOrder
  <2> QED BY <2>3 DEF e
<1>5. ASSUME i = <<>> PROVE InOrder(l, b, f, <<n + 1>>, n + 1)
  BY <1>1, <1>2, SmallOrder DEF InOrder
<1> QED BY <1>3, <1>4, <1>5

(* The byte that waits goes into the FIFO.                                 *)
LEMMA PushInOrder ==
  ASSUME NEW l \in Nat, NEW n \in Nat, NEW b \in Seq(Nat), NEW f \in Seq(Nat),
         NEW i \in Seq(Nat), i # <<>>, InOrder(l, b, f, i, n)
  PROVE  InOrder(l, b, Append(f, i[1]), <<>>, n)
<1>1. 1 \in 1 .. Len(i) /\ i[1] \in Nat
  BY TailFacts
<1>2. /\ \A k \in 1 .. Len(f) : f[k] < i[1]
      /\ \A k \in 1 .. Len(b) : b[k] < i[1]
      /\ l < i[1] /\ i[1] <= n
  BY <1>1 DEF InOrder, Before, Above, UpTo
<1>3. /\ Append(f, i[1]) \in Seq(Nat) /\ Rising(Append(f, i[1]))
      /\ Above(l, Append(f, i[1])) /\ UpTo(Append(f, i[1]), n)
      /\ Before(b, Append(f, i[1]))
  BY <1>1, <1>2, AppendOrder DEF InOrder
<1> QED BY <1>3, SmallOrder DEF InOrder

(* The first byte of the FIFO goes into the buffer, or away.               *)
LEMMA TakeInOrder ==
  ASSUME NEW l \in Nat, NEW n \in Nat, NEW b \in Seq(Nat), NEW f \in Seq(Nat),
         NEW i \in Seq(Nat), f # <<>>, InOrder(l, b, f, i, n)
  PROVE  /\ InOrder(l, Append(b, Head(f)), Tail(f), i, n)
         /\ InOrder(l, b, Tail(f), i, n)
<1>1. Head(f) \in Nat /\ 1 \in 1 .. Len(f) /\ Head(f) = f[1]
  BY TailFacts
<1>2. /\ Tail(f) \in Seq(Nat) /\ Rising(Tail(f)) /\ Above(Head(f), Tail(f))
      /\ Above(l, Tail(f)) /\ l < Head(f) /\ UpTo(Tail(f), n) /\ Head(f) <= n
      /\ Before(b, Tail(f)) /\ Before(Tail(f), i) /\ Above(Head(f), i)
  BY TailOrder DEF InOrder
<1>3. \A k \in 1 .. Len(b) : b[k] < Head(f)
  BY <1>1 DEF InOrder, Before
<1>4. /\ Append(b, Head(f)) \in Seq(Nat) /\ Rising(Append(b, Head(f)))
      /\ Above(l, Append(b, Head(f))) /\ UpTo(Append(b, Head(f)), n)
      /\ Before(Append(b, Head(f)), Tail(f)) /\ Before(Append(b, Head(f)), i)
  BY <1>1, <1>2, <1>3, AppendOrder DEF InOrder
<1> QED BY <1>2, <1>4 DEF InOrder

(* The buffer is reset, or its first byte read.                            *)
LEMMA ReadInOrder ==
  ASSUME NEW l \in Nat, NEW n \in Nat, NEW b \in Seq(Nat), NEW f \in Seq(Nat),
         NEW i \in Seq(Nat), InOrder(l, b, f, i, n)
  PROVE  /\ InOrder(l, <<>>, f, i, n)
         /\ b # <<>> => l < Head(b) /\ InOrder(Head(b), Tail(b), f, i, n)
<1>1. InOrder(l, <<>>, f, i, n)
  BY SmallOrder DEF InOrder
<1>2. ASSUME b # <<>> PROVE l < Head(b) /\ InOrder(Head(b), Tail(b), f, i, n)
  <2>1. /\ Rising(Tail(b)) /\ Above(Head(b), Tail(b)) /\ l < Head(b)
        /\ UpTo(Tail(b), n) /\ Head(b) <= n
        /\ Before(Tail(b), f) /\ Above(Head(b), f)
        /\ Before(Tail(b), i) /\ Above(Head(b), i)
    BY <1>2, TailOrder DEF InOrder
  <2> QED BY <2>1 DEF InOrder
<1> QED BY <1>1, <1>2

(* Nothing that was freed is filled with older bytes.                      *)
LEMMA FreshSteps ==
  ASSUME NEW stage \in {"away", "drain", "reset", "read"}, NEW m \in Nat, NEW h \in Nat,
         NEW n \in Nat,
         NEW b \in Seq(Nat), NEW f \in Seq(Nat), NEW i \in Seq(Nat),
         Fresh(stage, m, h, b, f, i), m <= n
  PROVE  /\ i = <<>> => /\ Fresh(stage, m, h, b, Append(f, n + 1), <<>>)
                        /\ Fresh(stage, m, h, b, f, <<n + 1>>)
         /\ i # <<>> => Fresh(stage, m, h, b, Append(f, i[1]), <<>>)
         /\ f # <<>> => /\ Fresh(stage, m, h, Append(b, Head(f)), Tail(f), i)
                        /\ Fresh(stage, m, h, b, Tail(f), i)
         /\ b # <<>> => Fresh(stage, m, h, Tail(b), f, i)
<1>1. \A q \in Seq(Nat), e \in Nat : Recent(m, h, q) /\ (m < e \/ e = h) => Recent(m, h, Append(q, e))
  <2> SUFFICES ASSUME NEW q \in Seq(Nat), NEW e \in Nat, Recent(m, h, q), m < e \/ e = h,
                      NEW k \in 1 .. Len(Append(q, e))
               PROVE  m < Append(q, e)[k] \/ Append(q, e)[k] = h
    BY DEF Recent
  <2>1. k \in 1 .. Len(q) \/ k = Len(q) + 1
    BY AppendFacts
  <2> QED BY <2>1, AppendFacts DEF Recent
<1>2. \A q \in Seq(Nat) : q # <<>> /\ Recent(m, h, q) => Recent(m, h, Tail(q)) /\ (m < Head(q) \/ Head(q) = h)
  <2> SUFFICES ASSUME NEW q \in Seq(Nat), q # <<>>, Recent(m, h, q)
               PROVE  Recent(m, h, Tail(q)) /\ (m < Head(q) \/ Head(q) = h)
    OBVIOUS
  <2>1. 1 \in 1 .. Len(q)
    BY TailFacts
  <2> QED BY <2>1, TailFacts DEF Recent
<1>3. m < n + 1 /\ n + 1 \in Nat
  OBVIOUS
<1>e. Recent(m, h, <<>>) /\ Recent(m, h, <<n + 1>>)
  BY <1>3 DEF Recent
<1>4. ASSUME i = <<>>
      PROVE  Fresh(stage, m, h, b, Append(f, n + 1), <<>>) /\ Fresh(stage, m, h, b, f, <<n + 1>>)
  BY <1>1, <1>3, <1>e DEF Fresh
<1>5. ASSUME i # <<>> PROVE Fresh(stage, m, h, b, Append(f, i[1]), <<>>)
  <2>1. i[1] \in Nat /\ (Recent(m, h, i) => m < i[1] \/ i[1] = h)
    BY <1>2, <1>5, TailFacts
  <2> QED BY <1>1, <1>e, <2>1 DEF Fresh
<1>6. ASSUME f # <<>>
      PROVE  Fresh(stage, m, h, Append(b, Head(f)), Tail(f), i) /\ Fresh(stage, m, h, b, Tail(f), i)
  <2>1. Head(f) \in Nat
    BY <1>6, TailFacts
  <2> QED BY <1>1, <1>2, <1>6, <2>1 DEF Fresh
<1>7. ASSUME b # <<>> PROVE Fresh(stage, m, h, Tail(b), f, i)
  BY <1>2, <1>7 DEF Fresh
<1> QED BY <1>4, <1>5, <1>6, <1>7

(***************************************************************************)
(* Every step keeps the types.                                             *)
(***************************************************************************)
LEMMA UartFacts ==
  /\ Count \in Nat /\ BufferSize \in Nat /\ FifoDepth \in Nat \ {0}
  /\ \A u \in Uarts : u \in 1 .. Count + 1 /\ u + 1 \in 1 .. Count + 1 /\ u \in Nat
  BY PioUartRxAssumption DEF Uarts

(* The queues of the other UARTs are as they were.                         *)
LEMMA QueueKept ==
  ASSUME NEW Q \in [Uarts -> Seq(Nat)], NEW u \in Uarts, NEW q \in Seq(Nat), NEW n,
         \A v \in Uarts : Len(Q[v]) <= n, Len(q) <= n
  PROVE  /\ [Q EXCEPT ![u] = q] \in [Uarts -> Seq(Nat)]
         /\ \A v \in Uarts : Len([Q EXCEPT ![u] = q][v]) <= n
  OBVIOUS

LEMMA LineNext ==
  ASSUME TypeOK, [Next]_vars
  PROVE  LineOK'
<1>t. /\ fifo \in [Uarts -> Seq(Nat)] /\ input \in [Uarts -> Seq(Nat)]
      /\ rx_buffer \in [Uarts -> Seq(Nat)] /\ arrived \in [Uarts -> Nat]
      /\ \A v \in Uarts : Len(fifo[v]) <= FifoDepth
      /\ \A v \in Uarts : Len(input[v]) <= 1
      /\ \A v \in Uarts : Len(rx_buffer[v]) <= BufferSize
  BY DEF TypeOK, LineOK
<1>e. <<>> \in Seq(Nat) /\ Len(<<>>) <= 1 /\ Len(<<>>) <= BufferSize
  BY UartFacts
<1>1. CASE UNCHANGED <<fifo, input, rx_buffer, arrived>>
  BY <1>1, <1>t DEF LineOK
<1>2. ASSUME NEW u \in Uarts, ReceiveByte(u) PROVE LineOK'
  <2>1. arrived[u] + 1 \in Nat /\ arrived' \in [Uarts -> Nat] /\ rx_buffer' = rx_buffer
    BY <1>2, <1>t DEF ReceiveByte, Comes
  <2>2. CASE FifoRoom(u)
    <3>1. /\ Append(fifo[u], arrived[u] + 1) \in Seq(Nat)
          /\ Len(Append(fifo[u], arrived[u] + 1)) <= FifoDepth
      BY <1>t, <2>1, <2>2, AppendFacts, UartFacts DEF FifoRoom
    <3>2. /\ fifo' = [fifo EXCEPT ![u] = Append(fifo[u], arrived[u] + 1)]
          /\ input' = input
      BY <1>2, <2>2 DEF ReceiveByte
    <3> QED BY <1>t, <2>1, <3>1, <3>2, QueueKept DEF LineOK
  <2>3. CASE ~ FifoRoom(u)
    <3>1. <<arrived[u] + 1>> \in Seq(Nat) /\ Len(<<arrived[u] + 1>>) <= 1
      BY <2>1
    <3>2. input' = [input EXCEPT ![u] = <<arrived[u] + 1>>] /\ fifo' = fifo
      BY <1>2, <2>3 DEF ReceiveByte
    <3> QED BY <1>t, <2>1, <3>1, <3>2, QueueKept DEF LineOK
  <2> QED BY <2>2, <2>3
<1>3. ASSUME NEW u \in Uarts, MissByte(u) PROVE LineOK'
  BY <1>3, <1>t DEF MissByte, Comes, LineOK
<1>4. ASSUME NEW u \in Uarts, PushByte(u) PROVE LineOK'
  <2>1. input[u][1] \in Nat
    BY <1>4, <1>t, TailFacts DEF PushByte, Stalled
  <2>2. Append(fifo[u], input[u][1]) \in Seq(Nat) /\ Len(Append(fifo[u], input[u][1])) <= FifoDepth
    BY <1>4, <1>t, <2>1, AppendFacts, UartFacts DEF PushByte, FifoRoom
  <2>3. /\ fifo' = [fifo EXCEPT ![u] = Append(fifo[u], input[u][1])]
        /\ input' = [input EXCEPT ![u] = <<>>]
        /\ rx_buffer' = rx_buffer /\ arrived' = arrived
    BY <1>4 DEF PushByte
  <2> QED BY <1>t, <1>e, <2>2, <2>3, QueueKept DEF LineOK
<1>5. ASSUME NEW u \in Uarts, TakeByte(u) PROVE LineOK'
  <2>1. /\ Tail(fifo[u]) \in Seq(Nat) /\ Len(Tail(fifo[u])) <= FifoDepth
        /\ Head(fifo[u]) \in Nat
    BY <1>5, <1>t, TailFacts, UartFacts DEF TakeByte
  <2>2. fifo' = [fifo EXCEPT ![u] = Tail(fifo[u])] /\ input' = input /\ arrived' = arrived
    BY <1>5 DEF TakeByte, lineVars
  <2>3. CASE BufferRoom(u)
    <3>1. /\ Append(rx_buffer[u], Head(fifo[u])) \in Seq(Nat)
          /\ Len(Append(rx_buffer[u], Head(fifo[u]))) <= BufferSize
      BY <1>t, <2>1, <2>3, AppendFacts, UartFacts DEF BufferRoom
    <3>2. rx_buffer' = [rx_buffer EXCEPT ![u] = Append(rx_buffer[u], Head(fifo[u]))]
      BY <1>5, <2>3 DEF TakeByte
    <3> QED BY <1>t, <2>1, <2>2, <3>1, <3>2, QueueKept DEF LineOK
  <2>4. CASE ~ BufferRoom(u)
    <3>1. rx_buffer' = rx_buffer
      BY <1>5, <2>4 DEF TakeByte
    <3> QED BY <1>t, <2>1, <2>2, <3>1, QueueKept DEF LineOK
  <2> QED BY <2>3, <2>4
<1>6. ASSUME NEW u \in Uarts, DrainByte(u) PROVE LineOK'
  <2>1. Tail(fifo[u]) \in Seq(Nat) /\ Len(Tail(fifo[u])) <= FifoDepth
    BY <1>6, <1>t, TailFacts, UartFacts DEF DrainByte
  <2>2. /\ fifo' = [fifo EXCEPT ![u] = Tail(fifo[u])]
        /\ UNCHANGED <<input, rx_buffer, arrived>>
    BY <1>6 DEF DrainByte, lineVars
  <2> QED BY <1>t, <2>1, <2>2, QueueKept DEF LineOK
<1>7. ASSUME NEW u \in Uarts, ResetBuffer(u) PROVE LineOK'
  <2>1. /\ rx_buffer' = [rx_buffer EXCEPT ![u] = <<>>]
        /\ UNCHANGED <<input, fifo, arrived>>
    BY <1>7 DEF ResetBuffer, lineVars
  <2> QED BY <1>t, <1>e, <2>1, QueueKept DEF LineOK
<1>8. ASSUME NEW u \in Uarts, ReadByte(u) PROVE LineOK'
  <2>1. Tail(rx_buffer[u]) \in Seq(Nat) /\ Len(Tail(rx_buffer[u])) <= BufferSize
    BY <1>8, <1>t, TailFacts, UartFacts DEF ReadByte
  <2>2. /\ rx_buffer' = [rx_buffer EXCEPT ![u] = Tail(rx_buffer[u])]
        /\ UNCHANGED <<input, fifo, arrived>>
    BY <1>8 DEF ReadByte, lineVars
  <2> QED BY <1>t, <2>1, <2>2, QueueKept DEF LineOK
<1>9. CASE \/ EnterIsr \/ LeaveIsr \/ MaintenanceStep
          \/ \E u \in Uarts : PassOn(u) \/ CallFlush(u) \/ StopDraining(u) \/ StopReading(u)
  BY <1>9, <1>1 DEF EnterIsr, LeaveIsr, MaintenanceStep, Rest, CheckOverrun, ClearOverrun,
     WarnOverrun, PassOn, CallFlush, StopDraining, StopReading, lineVars
<1>10. CASE UNCHANGED vars
  BY <1>1, <1>10 DEF vars, lineVars
<1> QED
  BY <1>2, <1>3, <1>4, <1>5, <1>6, <1>7, <1>8, <1>9, <1>10
  DEF Next, IsrStep, SmStep, ReaderStep

LEMMA ControlNext ==
  ASSUME TypeOK, [Next]_vars
  PROVE  ControlOK'
<1>t. ControlOK /\ LineOK
  BY DEF TypeOK
<1>1. CASE UNCHANGED <<readVars, rx_buffer_overrun, isr, maintenance, lost>>
  BY <1>1, <1>t DEF ControlOK, readVars
<1>2. CASE \E u \in Uarts : SmStep(u) \/ DrainByte(u)
  BY <1>1, <1>2 DEF SmStep, ReceiveByte, MissByte, PushByte, DrainByte
<1>3. CASE EnterIsr \/ LeaveIsr
  BY <1>3, <1>t, UartFacts DEF EnterIsr, LeaveIsr, ControlOK, readVars
<1>4. ASSUME NEW u \in Uarts, TakeByte(u) PROVE ControlOK'
  BY <1>4, <1>t DEF TakeByte, Flag, BufferRoom, ControlOK, readVars
<1>5. ASSUME NEW u \in Uarts, PassOn(u) PROVE ControlOK'
  BY <1>5, <1>t, UartFacts DEF PassOn, ControlOK, readVars
<1>6. ASSUME NEW u \in Uarts, CallFlush(u) PROVE ControlOK'
  BY <1>6, <1>t DEF CallFlush, Stalled, ControlOK, LineOK
<1>7. ASSUME NEW u \in Uarts, StopDraining(u) \/ ResetBuffer(u) \/ StopReading(u)
      PROVE  ControlOK'
  BY <1>7, <1>t DEF StopDraining, ResetBuffer, StopReading, ControlOK
<1>8. ASSUME NEW u \in Uarts, ReadByte(u) PROVE ControlOK'
  <2>1. Head(rx_buffer[u]) \in Nat
    BY <1>8, <1>t, TailFacts DEF ReadByte, LineOK
  <2> QED BY <1>8, <1>t, <2>1 DEF ReadByte, ControlOK
<1>9. CASE Rest
  BY <1>9, <1>t, UartFacts DEF Rest, NewPass, ControlOK, readVars
<1>10. ASSUME NEW u \in Uarts, CheckOverrun(u) \/ ClearOverrun(u) \/ WarnOverrun(u)
       PROVE  ControlOK'
  <2>1. \/ \E step \in {"check", "clear", "warn"} : Proceed(u, step)
        \/ Proceed(u + 1, "check")
    BY <1>10 DEF CheckOverrun, ClearOverrun, WarnOverrun
  <2>2. maintenance' \in [at : 1 .. Count + 1, step : {"check", "clear", "warn"}]
    BY <2>1, UartFacts DEF Proceed
  <2>3. /\ UNCHANGED <<readVars, isr>>
        /\ rx_buffer_overrun' \in [Uarts -> BOOLEAN] /\ lost' \in [Uarts -> BOOLEAN]
    BY <1>10, <1>t DEF CheckOverrun, ClearOverrun, WarnOverrun, ControlOK
  <2> QED BY <1>t, <2>2, <2>3 DEF ControlOK, readVars
<1>11. CASE UNCHANGED vars
  BY <1>1, <1>11 DEF vars
<1> QED
  BY <1>2, <1>3, <1>4, <1>5, <1>6, <1>7, <1>8, <1>9, <1>10, <1>11
  DEF Next, IsrStep, ReaderStep, MaintenanceStep

(***************************************************************************)
(* Every step keeps the order of the bytes and what a flush has freed.     *)
(***************************************************************************)
Good(u) == Ordered(u) /\ Freshened(u) /\ Marked(u)

(* A line no step touches.                                                 *)
LEMMA GoodKept ==
  ASSUME NEW u \in Uarts, Good(u),
         UNCHANGED <<last[u], rx_buffer[u], fifo[u], input[u], arrived[u], held[u],
                     reader[u], mark[u]>>
  PROVE  Good(u)'
  BY DEF Good, Ordered, Freshened, Marked

(* The state machine of a line.                                            *)
LEMMA SmGood ==
  ASSUME TypeOK, NEW u \in Uarts, SmStep(u), Good(u)
  PROVE  Good(u)'
<1>t. /\ fifo[u] \in Seq(Nat) /\ input[u] \in Seq(Nat) /\ rx_buffer[u] \in Seq(Nat)
      /\ arrived[u] \in Nat /\ last[u] \in Nat /\ mark[u] \in Nat /\ held[u] \in Nat
      /\ reader[u] \in {"away", "drain", "reset", "read"}
      /\ fifo \in [Uarts -> Seq(Nat)] /\ input \in [Uarts -> Seq(Nat)]
      /\ arrived \in [Uarts -> Nat]
  BY DEF TypeOK, LineOK, ControlOK
<1>g. /\ InOrder(last[u], rx_buffer[u], fifo[u], input[u], arrived[u])
      /\ Fresh(reader[u], mark[u], held[u], rx_buffer[u], fifo[u], input[u])
      /\ mark[u] <= arrived[u]
  BY DEF Good, Ordered, Freshened, Marked
<1>k. UNCHANGED <<last, mark, held, reader, rx_buffer>>
  BY DEF SmStep, ReceiveByte, MissByte, PushByte, readVars
<1>1. CASE ReceiveByte(u)
  <2>1. input[u] = <<>> /\ arrived'[u] = arrived[u] + 1
    BY <1>1, <1>t DEF ReceiveByte, Stalled, Comes
  <2>2. \/ fifo'[u] = Append(fifo[u], arrived[u] + 1) /\ input'[u] = <<>>
        \/ fifo'[u] = fifo[u] /\ input'[u] = <<arrived[u] + 1>>
    BY <1>1, <1>t, <2>1 DEF ReceiveByte
  <2>3. InOrder(last[u], rx_buffer[u], fifo'[u], input'[u], arrived[u] + 1)
    BY <1>t, <1>g, <2>1, <2>2, ComeInOrder
  <2>4. Fresh(reader[u], mark[u], held[u], rx_buffer[u], fifo'[u], input'[u])
    <3>1. Fresh(reader[u], mark[u], held[u], rx_buffer[u], fifo[u], input[u])
      BY <1>g
    <3>2. /\ Fresh(reader[u], mark[u], held[u], rx_buffer[u], Append(fifo[u], arrived[u] + 1), <<>>)
          /\ Fresh(reader[u], mark[u], held[u], rx_buffer[u], fifo[u], <<arrived[u] + 1>>)
      BY <1>t, <1>g, <2>1, <3>1, FreshSteps
    <3> QED BY <2>2, <3>2
  <2>5. mark[u] <= arrived[u] + 1
    BY <1>t, <1>g
  <2> QED BY <1>k, <2>1, <2>3, <2>4, <2>5 DEF Good, Ordered, Freshened, Marked
<1>2. CASE MissByte(u)
  <2>1. arrived'[u] = arrived[u] + 1 /\ UNCHANGED <<fifo, input>>
    BY <1>2, <1>t DEF MissByte, Comes
  <2>2. InOrder(last[u], rx_buffer[u], fifo[u], input[u], arrived[u] + 1)
    BY <1>t, <1>g, ComeInOrder
  <2>3. mark[u] <= arrived[u] + 1
    BY <1>t, <1>g
  <2> QED BY <1>g, <1>k, <2>1, <2>2, <2>3 DEF Good, Ordered, Freshened, Marked
<1>3. CASE PushByte(u)
  <2>1. /\ input[u] # <<>> /\ UNCHANGED arrived
        /\ fifo'[u] = Append(fifo[u], input[u][1]) /\ input'[u] = <<>>
    BY <1>3, <1>t DEF PushByte, Stalled
  <2>2. InOrder(last[u], rx_buffer[u], fifo'[u], input'[u], arrived[u])
    BY <1>t, <1>g, <2>1, PushInOrder
  <2>3. Fresh(reader[u], mark[u], held[u], rx_buffer[u], fifo'[u], input'[u])
    <3>1. Fresh(reader[u], mark[u], held[u], rx_buffer[u], Append(fifo[u], input[u][1]), <<>>)
      BY <1>t, <1>g, <2>1, FreshSteps
    <3> QED BY <2>1, <3>1
  <2> QED BY <1>g, <1>k, <2>1, <2>2, <2>3 DEF Good, Ordered, Freshened, Marked
<1> QED BY <1>1, <1>2, <1>3 DEF SmStep

(* The handler at a line, and a flush that drains its FIFO.                *)
LEMMA TakeGood ==
  ASSUME TypeOK, NEW u \in Uarts, TakeByte(u) \/ DrainByte(u), Good(u)
  PROVE  Good(u)'
<1>t. /\ fifo[u] \in Seq(Nat) /\ input[u] \in Seq(Nat) /\ rx_buffer[u] \in Seq(Nat)
      /\ arrived[u] \in Nat /\ last[u] \in Nat /\ mark[u] \in Nat /\ held[u] \in Nat
      /\ reader[u] \in {"away", "drain", "reset", "read"}
      /\ fifo \in [Uarts -> Seq(Nat)] /\ rx_buffer \in [Uarts -> Seq(Nat)]
  BY DEF TypeOK, LineOK, ControlOK
<1>g. /\ InOrder(last[u], rx_buffer[u], fifo[u], input[u], arrived[u])
      /\ Fresh(reader[u], mark[u], held[u], rx_buffer[u], fifo[u], input[u])
      /\ mark[u] <= arrived[u]
  BY DEF Good, Ordered, Freshened, Marked
<1>k. UNCHANGED <<last, mark, held, reader, input, arrived>>
  BY DEF TakeByte, DrainByte, readVars, lineVars
<1>1. /\ fifo[u] # <<>> /\ fifo'[u] = Tail(fifo[u])
      /\ rx_buffer'[u] \in {rx_buffer[u], Append(rx_buffer[u], Head(fifo[u]))}
  BY <1>t DEF TakeByte, DrainByte
<1>2. InOrder(last[u], rx_buffer'[u], fifo'[u], input[u], arrived[u])
  BY <1>t, <1>g, <1>1, TakeInOrder
<1>3. Fresh(reader[u], mark[u], held[u], rx_buffer'[u], fifo'[u], input[u])
  <2>1. Fresh(reader[u], mark[u], held[u], rx_buffer[u], fifo[u], input[u])
    BY <1>g
  <2>2. /\ Fresh(reader[u], mark[u], held[u], Append(rx_buffer[u], Head(fifo[u])), Tail(fifo[u]), input[u])
        /\ Fresh(reader[u], mark[u], held[u], rx_buffer[u], Tail(fifo[u]), input[u])
    BY <1>t, <1>g, <1>1, <2>1, FreshSteps
  <2> QED BY <1>1, <2>2
<1> QED BY <1>g, <1>k, <1>2, <1>3 DEF Good, Ordered, Freshened, Marked

(* The other steps of the bus task.                                        *)
LEMMA ReaderGood ==
  ASSUME TypeOK, NEW u \in Uarts, Good(u),
         CallFlush(u) \/ StopDraining(u) \/ ResetBuffer(u) \/ ReadByte(u) \/ StopReading(u)
  PROVE  Good(u)'
<1>t. /\ fifo[u] \in Seq(Nat) /\ input[u] \in Seq(Nat) /\ rx_buffer[u] \in Seq(Nat)
      /\ arrived[u] \in Nat /\ last[u] \in Nat /\ mark[u] \in Nat /\ held[u] \in Nat
      /\ reader[u] \in {"away", "drain", "reset", "read"}
      /\ reader \in [Uarts -> {"away", "drain", "reset", "read"}]
      /\ mark \in [Uarts -> Nat] /\ held \in [Uarts -> Nat] /\ last \in [Uarts -> Nat]
      /\ rx_buffer \in [Uarts -> Seq(Nat)]
  BY DEF TypeOK, LineOK, ControlOK
<1>g. /\ InOrder(last[u], rx_buffer[u], fifo[u], input[u], arrived[u])
      /\ Fresh(reader[u], mark[u], held[u], rx_buffer[u], fifo[u], input[u])
      /\ mark[u] <= arrived[u]
  BY DEF Good, Ordered, Freshened, Marked
<1>k. UNCHANGED <<fifo, input, arrived>>
  BY DEF CallFlush, StopDraining, ResetBuffer, ReadByte, StopReading, lineVars
<1>1. CASE CallFlush(u)
  <2>1. /\ reader'[u] = "drain" /\ mark'[u] = arrived[u]
        /\ held'[u] = IF input[u] # <<>> THEN input[u][1] ELSE 0
        /\ UNCHANGED <<last, rx_buffer>>
    BY <1>1, <1>t DEF CallFlush, Stalled
  <2>2. Recent(arrived[u], held'[u], input[u]) /\ arrived[u] <= arrived[u]
    <3>1. ASSUME NEW k \in 1 .. Len(input[u]) PROVE k = 1 /\ input[u] # <<>>
      BY <1>t, <3>1 DEF TypeOK, LineOK
    <3> QED BY <1>t, <2>1, <3>1 DEF Recent
  <2>3. Fresh("drain", arrived[u], held'[u], rx_buffer[u], fifo[u], input[u])
    BY <2>2 DEF Fresh
  <2> QED BY <1>g, <1>k, <2>1, <2>2, <2>3 DEF Good, Ordered, Freshened, Marked
<1>2. CASE StopDraining(u)
  <2>1. /\ reader[u] = "drain" /\ reader'[u] = "reset" /\ fifo[u] = <<>>
        /\ UNCHANGED <<last, mark, held, rx_buffer>>
    BY <1>2, <1>t DEF StopDraining
  <2>2. Fresh("reset", mark[u], held[u], rx_buffer[u], fifo[u], input[u])
    BY <1>t, <1>g, <2>1, SmallOrder DEF Fresh, Recent
  <2> QED BY <1>g, <1>k, <2>1, <2>2 DEF Good, Ordered, Freshened, Marked
<1>3. CASE ResetBuffer(u)
  <2>1. /\ reader[u] = "reset" /\ reader'[u] = "read" /\ rx_buffer'[u] = <<>>
        /\ UNCHANGED <<last, mark, held>>
    BY <1>3, <1>t DEF ResetBuffer
  <2>2. Fresh("read", mark[u], held[u], <<>>, fifo[u], input[u])
    BY <1>t, <1>g, <2>1, SmallOrder DEF Fresh, Recent
  <2>3. InOrder(last[u], <<>>, fifo[u], input[u], arrived[u])
    BY <1>t, <1>g, ReadInOrder
  <2> QED BY <1>g, <1>k, <2>1, <2>2, <2>3 DEF Good, Ordered, Freshened, Marked
<1>4. CASE ReadByte(u)
  <2>1. /\ rx_buffer[u] # <<>> /\ rx_buffer'[u] = Tail(rx_buffer[u])
        /\ last'[u] = Head(rx_buffer[u]) /\ UNCHANGED <<reader, mark, held>>
    BY <1>4, <1>t DEF ReadByte
  <2>2. InOrder(last'[u], rx_buffer'[u], fifo[u], input[u], arrived[u])
    BY <1>t, <1>g, <2>1, ReadInOrder
  <2>3. Fresh(reader[u], mark[u], held[u], rx_buffer'[u], fifo[u], input[u])
    <3>1. Fresh(reader[u], mark[u], held[u], Tail(rx_buffer[u]), fifo[u], input[u])
      BY <1>t, <1>g, <2>1, FreshSteps
    <3> QED BY <2>1, <3>1
  <2> QED BY <1>g, <1>k, <2>1, <2>2, <2>3 DEF Good, Ordered, Freshened, Marked
<1>5. CASE StopReading(u)
  <2>1. reader'[u] = "away" /\ UNCHANGED <<last, mark, held, rx_buffer>>
    BY <1>5, <1>t DEF StopReading
  <2>2. Fresh("away", mark[u], held[u], rx_buffer[u], fifo[u], input[u])
    BY DEF Fresh
  <2> QED BY <1>g, <1>k, <2>1, <2>2 DEF Good, Ordered, Freshened, Marked
<1> QED BY <1>1, <1>2, <1>3, <1>4, <1>5

LEMMA GoodNext ==
  ASSUME TypeOK, \A u \in Uarts : Good(u), [Next]_vars
  PROVE  \A u \in Uarts : Good(u)'
<1> SUFFICES ASSUME NEW v \in Uarts PROVE Good(v)'
  OBVIOUS
<1>g. Good(v)
  OBVIOUS
<1>1. ASSUME NEW u \in Uarts, u # v, SmStep(u) \/ TakeByte(u) \/ ReaderStep(u) PROVE Good(v)'
  <2> DEFINE Kept == UNCHANGED <<last[v], rx_buffer[v], fifo[v], input[v], arrived[v],
                                 held[v], reader[v], mark[v]>>
  <2>1. CASE SmStep(u)
    <3>1. Kept
      BY <1>1, <2>1 DEF TypeOK, LineOK, SmStep, ReceiveByte, MissByte, PushByte, Comes,
         readVars
    <3> QED BY <1>g, <3>1, GoodKept
  <2>2. CASE TakeByte(u) \/ DrainByte(u)
    <3>1. Kept
      BY <1>1, <2>2 DEF TypeOK, LineOK, TakeByte, DrainByte, lineVars, readVars
    <3> QED BY <1>g, <3>1, GoodKept
  <2>3. CASE CallFlush(u) \/ StopDraining(u) \/ ResetBuffer(u) \/ StopReading(u)
    <3>1. Kept
      BY <1>1, <2>3 DEF TypeOK, LineOK, ControlOK, CallFlush, StopDraining, ResetBuffer,
         StopReading, lineVars
    <3> QED BY <1>g, <3>1, GoodKept
  <2>4. CASE ReadByte(u)
    <3>1. Kept
      BY <1>1, <2>4 DEF TypeOK, LineOK, ControlOK, ReadByte, lineVars
    <3> QED BY <1>g, <3>1, GoodKept
  <2> QED BY <1>1, <2>1, <2>2, <2>3, <2>4 DEF ReaderStep
<1>2. CASE SmStep(v) \/ TakeByte(v) \/ ReaderStep(v)
  BY <1>g, <1>2, SmGood, TakeGood, ReaderGood DEF ReaderStep
<1>3. CASE EnterIsr \/ LeaveIsr \/ MaintenanceStep \/ \E u \in Uarts : PassOn(u)
  <2>1. UNCHANGED <<lineVars, readVars, fifo, rx_buffer>>
    BY <1>3 DEF EnterIsr, LeaveIsr, MaintenanceStep, Rest, CheckOverrun, ClearOverrun,
       WarnOverrun, PassOn
  <2> QED BY <1>g, <2>1, GoodKept DEF lineVars, readVars
<1>4. CASE UNCHANGED vars
  BY <1>g, <1>4, GoodKept DEF vars, lineVars, readVars
<1> QED BY <1>1, <1>2, <1>3, <1>4 DEF Next, IsrStep

(***************************************************************************)
(* The theorems.                                                           *)
(***************************************************************************)
LEMMA InvInit ==
  ASSUME Init
  PROVE  TypeOK /\ \A u \in Uarts : Good(u)
<1>1. TypeOK
  BY UartFacts DEF Init, TypeOK, LineOK, ControlOK, NewPass
<1>2. ASSUME NEW u \in Uarts PROVE Good(u)
  <2>1. /\ last[u] = 0 /\ rx_buffer[u] = <<>> /\ fifo[u] = <<>> /\ input[u] = <<>>
        /\ arrived[u] = 0 /\ mark[u] = 0 /\ held[u] = 0 /\ reader[u] = "away"
    BY DEF Init
  <2>2. InOrder(0, <<>>, <<>>, <<>>, 0) /\ Fresh("away", 0, 0, <<>>, <<>>, <<>>)
    BY DEF InOrder, Fresh, Rising, Above, Before, UpTo
  <2> QED BY <2>1, <2>2 DEF Good, Ordered, Freshened, Marked
<1> QED BY <1>1, <1>2

LEMMA InvCorrect == Spec => []Inv
<1>1. Init => Inv
  BY InvInit DEF Inv, Good
<1>2. Inv /\ [Next]_vars => Inv'
  <2> SUFFICES ASSUME Inv, [Next]_vars PROVE Inv'
    OBVIOUS
  <2>1. TypeOK /\ \A u \in Uarts : Good(u)
    BY DEF Inv, Good
  <2>2. TypeOK'
    BY <2>1, LineNext, ControlNext DEF TypeOK
  <2>3. \A u \in Uarts : Good(u)'
    BY <2>1, GoodNext
  <2> QED BY <2>2, <2>3 DEF Inv, Good, Uarts
<1> QED BY <1>1, <1>2, PTL DEF Spec

(* Types: neither FIFO nor stream buffer overflows, and a state machine    *)
(* holds one byte (uart.c:264-277).                                        *)
THEOREM TypeCorrect == Spec => []TypeOK
<1>1. Inv => TypeOK
  BY DEF Inv
<1> QED BY <1>1, InvCorrect, PTL

(* A step that reads takes the first byte of the buffer.                   *)
LEMMA ReadsHead ==
  ASSUME Inv, [Next]_vars, NEW u \in Uarts, last'[u] # last[u]
  PROVE  ReadByte(u) /\ last'[u] = Head(rx_buffer[u])
<1>t. last \in [Uarts -> Nat]
  BY DEF Inv, TypeOK, ControlOK
<1>1. \/ UNCHANGED last
      \/ \E v \in Uarts : ReadByte(v)
  BY DEF Next, IsrStep, EnterIsr, LeaveIsr, TakeByte, PassOn, MaintenanceStep, Rest,
     CheckOverrun, ClearOverrun, WarnOverrun, SmStep, ReceiveByte, MissByte, PushByte,
     ReaderStep, CallFlush, DrainByte, StopDraining, ResetBuffer, StopReading, vars, readVars
<1>2. PICK v \in Uarts : ReadByte(v)
  BY <1>1
<1>3. last' = [last EXCEPT ![v] = Head(rx_buffer[v])]
  BY <1>2 DEF ReadByte
<1>4. v = u
  BY <1>t, <1>3
<1> QED BY <1>t, <1>2, <1>3, <1>4

(* What is read after a flush came after the flush was called, but for the *)
(* one byte the state machine was stalled with (bus.c:32, uart.c:351-362). *)
THEOREM FreshCorrect == Spec => FreshAfterFlush
<1>1. ASSUME Inv, [Next]_vars, NEW u \in Uarts, last'[u] \notin {last[u], held[u]}
      PROVE  last'[u] > mark[u]
  <2>1. reader[u] = "read" /\ rx_buffer[u] # <<>> /\ last'[u] = Head(rx_buffer[u])
    BY <1>1, ReadsHead DEF ReadByte
  <2>2. Recent(mark[u], held[u], rx_buffer[u])
    BY <1>1, <2>1 DEF Inv, Freshened, Fresh
  <2>3. rx_buffer[u] \in Seq(Nat) /\ mark[u] \in Nat
    BY <1>1 DEF Inv, TypeOK, LineOK, ControlOK
  <2>4. 1 \in 1 .. Len(rx_buffer[u]) /\ Head(rx_buffer[u]) = rx_buffer[u][1]
        /\ Head(rx_buffer[u]) \in Nat
    BY <2>1, <2>3, TailFacts
  <2>5. mark[u] < rx_buffer[u][1]
    BY <1>1, <2>1, <2>2, <2>4 DEF Recent
  <2> QED BY <2>1, <2>3, <2>4, <2>5
<1>2. Inv /\ [Next]_vars =>
        [\A u \in Uarts : last'[u] \notin {last[u], held[u]} => last'[u] > mark[u]]_vars
  BY <1>1
<1> QED BY <1>2, InvCorrect, PTL DEF Spec, FreshAfterFlush

(* Bytes are read in the order they came, each once (uart.c:264-277,       *)
(* 308-326).                                                               *)
THEOREM OrderCorrect == Spec => ReadsInOrder
<1>1. ASSUME Inv, [Next]_vars, NEW u \in Uarts, last'[u] # last[u]
      PROVE  last'[u] > last[u]
  <2>1. rx_buffer[u] # <<>> /\ last'[u] = Head(rx_buffer[u])
    BY <1>1, ReadsHead DEF ReadByte
  <2>2. /\ last[u] \in Nat /\ arrived[u] \in Nat /\ rx_buffer[u] \in Seq(Nat)
        /\ fifo[u] \in Seq(Nat) /\ input[u] \in Seq(Nat)
        /\ InOrder(last[u], rx_buffer[u], fifo[u], input[u], arrived[u])
    BY <1>1 DEF Inv, TypeOK, LineOK, ControlOK, Ordered
  <2>3. last[u] < Head(rx_buffer[u]) /\ Head(rx_buffer[u]) \in Nat
    BY <2>1, <2>2, ReadInOrder, TailFacts
  <2> QED BY <2>1, <2>2, <2>3
<1>2. Inv /\ [Next]_vars => [\A u \in Uarts : last'[u] # last[u] => last'[u] > last[u]]_vars
  BY <1>1
<1> QED BY <1>2, InvCorrect, PTL DEF Spec, ReadsInOrder
=============================================================================
