------------------------- MODULE ModbusCodecProofs -------------------------
(***************************************************************************)
(* Proofs about a transaction byte by byte.                                *)
(***************************************************************************)
EXTENDS ModbusCodec, WellFoundedInduction, TLAPS

(***************************************************************************)
(* The CRC.                                                                *)
(***************************************************************************)
(* Induction over the numbers: the least one that is not in S is not 0,    *)
(* and comes after one that is.                                            *)
LEMMA Induction ==
  ASSUME NEW S \in SUBSET Nat, 0 \in S, \A n \in S : n + 1 \in S
  PROVE  S = Nat
<1>1. SUFFICES ASSUME NEW T, T = Nat \ S, T # {} PROVE FALSE
  OBVIOUS
<1>2. PICK n \in T : \A m \in T : ~ (m < n)
  <2>1. OpToRel(<, Nat) = {ss \in Nat \X Nat : ss[1] < ss[2]}
    BY Zenon DEF OpToRel
  <2>2. PICK R : IsWellFoundedOn(R, Nat) /\ R = {ss \in Nat \X Nat : ss[1] < ss[2]}
    BY <2>1, NatLessThanWellFounded, Zenon
  <2>3. \E n \in T : \A m \in T : ~ (<<m, n>> \in R)
    BY <1>1, <2>2, WFMin
  <2> QED BY <1>1, <2>2, <2>3
<1>3. n # 0 /\ n - 1 \in Nat /\ n - 1 < n /\ n - 1 + 1 = n
  BY <1>1, <1>2
<1>4. n - 1 \in S
  BY <1>1, <1>2, <1>3
<1> QED BY <1>1, <1>3, <1>4

(* A uint16_t.                                                             *)
LEMMA Uint16Facts ==
  ASSUME NEW w
  PROVE  w \in Uint16 <=> w \in Int /\ 0 <= w /\ w <= 65535
<1>1. UINT16_MAX \in Int /\ \A n \in Int : n <= UINT16_MAX <=> n <= 65535
  BY DEF UINT16_MAX
<1> QED BY <1>1 DEF Uint16

(* A word is its two bytes.                                                *)
LEMMA WordFacts ==
  /\ \A w \in Uint16 : Hi(w) \in Byte /\ Lo(w) \in Byte /\ Word(Hi(w), Lo(w)) = w
  /\ \A h, l \in Byte : Word(h, l) \in Uint16 /\ Hi(Word(h, l)) = h /\ Lo(Word(h, l)) = l
  /\ \A b \in Byte : b \in Uint16 /\ Hi(b) = 0 /\ Lo(b) = b
  /\ 0 \in Byte
<1>1. ASSUME NEW w \in Uint16
      PROVE  Hi(w) \in Byte /\ Lo(w) \in Byte /\ Word(Hi(w), Lo(w)) = w
  <2>1. w \in Int /\ 0 <= w /\ w <= 65535
    BY Uint16Facts
  <2>2. Word(Hi(w), Lo(w)) = w
    BY <2>1 DEF Hi, Lo, Word
  <2>3. Hi(w) \in Byte
    BY <2>1 DEF Hi, Byte
  <2>4. Lo(w) \in Byte
    BY <2>1 DEF Lo, Byte
  <2> QED BY <2>2, <2>3, <2>4
<1>2. ASSUME NEW h \in Byte, NEW l \in Byte
      PROVE  Word(h, l) \in Uint16 /\ Hi(Word(h, l)) = h /\ Lo(Word(h, l)) = l
  BY Uint16Facts DEF Byte, Hi, Lo, Word
<1>3. ASSUME NEW b \in Byte
      PROVE  b \in Uint16 /\ Hi(b) = 0 /\ Lo(b) = b
  BY Uint16Facts DEF Byte, Hi, Lo
<1>4. 0 \in Byte
  BY DEF Byte
<1> QED BY <1>1, <1>2, <1>3, <1>4

(* Exclusive or of words goes by bytes.                                    *)
LEMMA XorWordFacts ==
  ASSUME NEW v \in Uint16, NEW w \in Uint16
  PROVE  /\ XorWord(v, w) \in Uint16
         /\ Hi(XorWord(v, w)) = XorByte[Hi(v)][Hi(w)]
         /\ Lo(XorWord(v, w)) = XorByte[Lo(v)][Lo(w)]
<1>1. XorByte[Hi(v)][Hi(w)] \in Byte /\ XorByte[Lo(v)][Lo(w)] \in Byte
  BY WordFacts, XorFacts
<1> QED BY <1>1, WordFacts DEF XorWord

(* The entry of the table that update_crc takes.                           *)
LEMMA EntryFacts ==
  ASSUME NEW crc \in Uint16, NEW byte \in Byte
  PROVE  /\ XorByte[Lo(crc)][byte] \in Byte
         /\ crc_table[1 + XorByte[Lo(crc)][byte]] \in Uint16
<1>1. XorByte[Lo(crc)][byte] \in Byte
  BY WordFacts, XorFacts
<1> QED BY <1>1, TableFacts

(* What update_crc makes, byte by byte (modbus.h:117).                     *)
LEMMA UpdateFacts ==
  ASSUME NEW crc \in Uint16, NEW byte \in Byte
  PROVE  LET entry == crc_table[1 + XorByte[Lo(crc)][byte]]
         IN  /\ update_crc(crc, byte) \in Uint16
             /\ Hi(update_crc(crc, byte)) = Hi(entry)
             /\ Lo(update_crc(crc, byte)) = XorByte[Hi(crc)][Lo(entry)]
<1> DEFINE entry == crc_table[1 + XorByte[Lo(crc)][byte]]
<1>1. entry \in Uint16 /\ Hi(crc) \in Byte /\ Hi(crc) \in Uint16
  BY EntryFacts, WordFacts
<1>2. update_crc(crc, byte) = XorWord(Hi(crc), entry)
  BY DEF update_crc
<1> HIDE DEF entry
<1>3. /\ Hi(XorWord(Hi(crc), entry)) = XorByte[0][Hi(entry)]
      /\ Lo(XorWord(Hi(crc), entry)) = XorByte[Hi(crc)][Lo(entry)]
      /\ XorWord(Hi(crc), entry) \in Uint16
  BY <1>1, XorWordFacts, WordFacts
<1>4. XorByte[0][Hi(entry)] = Hi(entry)
  BY <1>1, WordFacts, XorFacts
<1> QED BY <1>2, <1>3, <1>4 DEF entry

(* Two CRCs that were equal, or two bytes that are, tell the others apart. *)
LEMMA UpdateDiffers ==
  ASSUME NEW c \in Uint16, NEW d \in Uint16, NEW x \in Byte, NEW y \in Byte,
         update_crc(c, x) = update_crc(d, y), c = d \/ x = y
  PROVE  c = d /\ x = y
<1> DEFINE i == XorByte[Lo(c)][x]
           j == XorByte[Lo(d)][y]
<1>1. /\ i \in Byte /\ crc_table[1 + i] \in Uint16
      /\ j \in Byte /\ crc_table[1 + j] \in Uint16
  BY EntryFacts
<1>2. /\ Hi(crc_table[1 + i]) = Hi(crc_table[1 + j])
      /\ XorByte[Hi(c)][Lo(crc_table[1 + i])] = XorByte[Hi(d)][Lo(crc_table[1 + j])]
  BY UpdateFacts
<1>3. i = j
  BY <1>1, <1>2, TableFacts
<1>4. /\ Lo(c) \in Byte /\ Hi(c) \in Byte /\ Lo(d) \in Byte /\ Hi(d) \in Byte
      /\ c = Word(Hi(c), Lo(c)) /\ d = Word(Hi(d), Lo(d))
  BY WordFacts
<1>5. Hi(c) = Hi(d)
  <2> DEFINE e == Lo(crc_table[1 + i])
  <2>1. e \in Byte /\ XorByte[Hi(c)][e] = XorByte[Hi(d)][e]
    BY <1>1, <1>2, <1>3, WordFacts
  <2> HIDE DEF e
  <2>2. XorByte[XorByte[Hi(c)][e]][e] = Hi(c) /\ XorByte[XorByte[Hi(d)][e]][e] = Hi(d)
    BY <1>4, <2>1, XorFacts
  <2> QED BY <2>1, <2>2
<1>6. /\ XorByte[i][x] = Lo(c) /\ XorByte[j][y] = Lo(d)
      /\ XorByte[i][Lo(c)] = x /\ XorByte[j][Lo(d)] = y
  BY <1>4, XorFacts
<1> HIDE DEF i, j
<1> QED BY <1>3, <1>4, <1>5, <1>6

(* crc_after: the CRC of the bytes so far, from 0xFFFF on (modbus.h:121).  *)
CrcRuns(data, n, g) ==
  g = [i \in 0 .. n |-> IF i = 0 THEN \hFFFF ELSE update_crc(g[i - 1], data[i])]

(* There is such a function, for as many bytes of the data as you like.    *)
LEMMA CrcExists ==
  ASSUME NEW data \in Seq(Byte)
  PROVE  \E g \in [0 .. Len(data) -> Uint16] : CrcRuns(data, Len(data), g)
<1> DEFINE Good(m) == \E g \in [0 .. m -> Uint16] : CrcRuns(data, m, g)
           Done == {m \in Nat : m <= Len(data) => Good(m)}
<1>l. Len(data) \in Nat
  OBVIOUS
<1>1. Good(0)
  <2> DEFINE g == [i \in 0 .. 0 |-> \hFFFF]
  <2>1. \hFFFF \in Uint16
    BY Uint16Facts
  <2>2. g \in [0 .. 0 -> Uint16]
    BY <2>1
  <2>3. CrcRuns(data, 0, g)
    BY DEF CrcRuns
  <2> HIDE DEF g
  <2> QED BY <2>2, <2>3
<1>2. ASSUME NEW k \in Nat, k + 1 <= Len(data), Good(k) PROVE Good(k + 1)
  <2>1. PICK g \in [0 .. k -> Uint16] : CrcRuns(data, k, g)
    BY <1>2
  <2> DEFINE next == update_crc(g[k], data[k + 1])
             h == [i \in 0 .. k + 1 |-> IF i = k + 1 THEN next ELSE g[i]]
  <2>2. next \in Uint16
    <3>1. g[k] \in Uint16 /\ data[k + 1] \in Byte
      BY <2>1, <1>2, <1>l
    <3> QED BY <3>1, UpdateFacts
  <2>3. h \in [0 .. k + 1 -> Uint16]
    <3> HIDE DEF next
    <3> QED BY <2>1, <2>2
  <2>4. ASSUME NEW i \in 0 .. k + 1
        PROVE  h[i] = IF i = 0 THEN \hFFFF ELSE update_crc(h[i - 1], data[i])
    BY <2>1, <1>2, <1>l DEF CrcRuns
  <2>5. CrcRuns(data, k + 1, h)
    BY <2>4 DEF CrcRuns
  <2> HIDE DEF h
  <2> QED BY <2>3, <2>5
<1> HIDE DEF Good
<1>3. Done \in SUBSET Nat /\ 0 \in Done
  BY <1>1
<1>4. ASSUME NEW k \in Done PROVE k + 1 \in Done
  BY <1>2, <1>4, <1>l
<1> HIDE DEF Done
<1>5. Done = Nat
  BY <1>3, <1>4, Induction
<1> QED BY <1>5, <1>l DEF Good, Done

(* ... and no other one, so crc_after is it.                               *)
LEMMA CrcUnique ==
  ASSUME NEW data \in Seq(Byte), NEW n \in Nat, NEW g, CrcRuns(data, n, g),
         NEW h, CrcRuns(data, n, h)
  PROVE  g = h
<1> DEFINE S == {i \in Nat : i <= n => g[i] = h[i]}
<1>1. S \in SUBSET Nat /\ 0 \in S
  BY DEF CrcRuns
<1>2. ASSUME NEW k \in S PROVE k + 1 \in S
  BY <1>2 DEF CrcRuns
<1> HIDE DEF S
<1>3. S = Nat
  BY <1>1, <1>2, Induction
<1>4. \A i \in 0 .. n : g[i] = h[i]
  BY <1>3 DEF S
<1> QED BY <1>4 DEF CrcRuns

(* Its steps.                                                              *)
LEMMA CrcAfter ==
  ASSUME NEW data \in Seq(Byte)
  PROVE  /\ CrcRuns(data, Len(data), crc_after(data))
         /\ crc_after(data)[0] = \hFFFF
         /\ \A i \in 0 .. Len(data) : crc_after(data)[i] \in Uint16
         /\ \A i \in 1 .. Len(data) :
              crc_after(data)[i] = update_crc(crc_after(data)[i - 1], data[i])
<1>l. Len(data) \in Nat
  OBVIOUS
<1>1. PICK g \in [0 .. Len(data) -> Uint16] : CrcRuns(data, Len(data), g)
  BY CrcExists
<1>2. crc_after(data) = CHOOSE crc : CrcRuns(data, Len(data), crc)
  BY DEF crc_after, CrcRuns
<1>3. CrcRuns(data, Len(data), crc_after(data))
  BY <1>1, <1>2, Zenon
<1>4. crc_after(data) = g
  BY <1>1, <1>3, <1>l, CrcUnique
<1>5. g[0] = \hFFFF /\ \A i \in 1 .. Len(data) : g[i] = update_crc(g[i - 1], data[i])
  BY <1>1, <1>l DEF CrcRuns
<1>6. \A i \in 0 .. Len(data) : g[i] \in Uint16
  BY <1>1
<1>7. crc_after(data)[0] = \hFFFF
  BY <1>4, <1>5
<1>8. \A i \in 0 .. Len(data) : crc_after(data)[i] \in Uint16
  BY <1>4, <1>6
<1>9. \A i \in 1 .. Len(data) :
        crc_after(data)[i] = update_crc(crc_after(data)[i - 1], data[i])
  BY <1>4, <1>5
<1> QED BY <1>3, <1>7, <1>8, <1>9

(* The CRC a slave computes bit by bit is the one the firmware looks up.   *)
LEMMA ShiftIsUpdate ==
  ASSUME NEW crc \in Uint16, NEW byte \in Byte
  PROVE  ShiftByte(XorWord(crc, byte)) = update_crc(crc, byte)
<1> DEFINE x == XorWord(crc, byte)
<1>1. Hi(crc) \in Byte /\ byte \in Uint16 /\ Hi(byte) = 0 /\ Lo(byte) = byte
  BY WordFacts
<1>2. x \in Uint16 /\ Hi(x) = XorByte[Hi(crc)][0] /\ Lo(x) = XorByte[Lo(crc)][byte]
  BY <1>1, XorWordFacts
<1> HIDE DEF x
<1>3. Hi(x) = Hi(crc)
  BY <1>1, <1>2, XorFacts
<1>4. ShiftByte(x) = XorWord(Hi(x), crc_table[1 + Lo(x)])
  BY <1>2, TableFacts
<1>5. ShiftByte(x) = update_crc(crc, byte)
  BY <1>2, <1>3, <1>4 DEF update_crc
<1> QED BY <1>5 DEF x

PolynomialRuns(data, n, g) ==
  g = [i \in 0 .. n |->
         IF i = 0 THEN \hFFFF ELSE ShiftByte(XorWord(g[i - 1], data[i]))]

(* A slave that divides by the polynomial bit by bit and the firmware that *)
(* looks bytes up in crc_table compute the same CRC, of data of any length *)
(* (modbus.h:80-129).                                                      *)
THEOREM SlaveAgrees ==
  ASSUME NEW data \in Seq(Byte)
  PROVE  PolynomialAfter(data) = crc_after(data) /\ PolynomialCrc(data) = compute_crc(data)
<1> DEFINE c == crc_after(data)
           n == Len(data)
<1>1. /\ n \in Nat /\ CrcRuns(data, n, c) /\ c[0] = \hFFFF
      /\ \A i \in 0 .. n : c[i] \in Uint16
      /\ \A i \in 1 .. n : c[i] = update_crc(c[i - 1], data[i])
  BY CrcAfter
<1>2. \A i \in 1 .. n : data[i] \in Byte
  OBVIOUS
<1>3. PolynomialAfter(data) = CHOOSE crc : PolynomialRuns(data, n, crc)
  BY DEF PolynomialAfter, PolynomialRuns
<1> HIDE DEF c, n
<1>4. \A i \in 1 .. n : c[i] = ShiftByte(XorWord(c[i - 1], data[i]))
  <2> SUFFICES ASSUME NEW i \in 1 .. n PROVE c[i] = ShiftByte(XorWord(c[i - 1], data[i]))
    OBVIOUS
  <2>1. c[i - 1] \in Uint16 /\ data[i] \in Byte /\ c[i] = update_crc(c[i - 1], data[i])
    BY <1>1, <1>2
  <2> QED BY <2>1, ShiftIsUpdate
<1>5. PolynomialRuns(data, n, c)
  <2>1. DOMAIN c = 0 .. n /\ c = [i \in DOMAIN c |-> c[i]]
    BY <1>1 DEF CrcRuns
  <2>2. \A i \in 0 .. n :
          c[i] = IF i = 0 THEN \hFFFF ELSE ShiftByte(XorWord(c[i - 1], data[i]))
    BY <1>1, <1>4
  <2> DEFINE p == [i \in 0 .. n |->
                    IF i = 0 THEN \hFFFF ELSE ShiftByte(XorWord(c[i - 1], data[i]))]
  <2>3. DOMAIN p = 0 .. n /\ p = [i \in DOMAIN p |-> p[i]] /\ \A i \in 0 .. n : p[i] = c[i]
    BY <2>2
  <2>4. p = c
    <3> HIDE DEF p
    <3> QED BY <2>1, <2>3
  <2> QED BY <2>4 DEF PolynomialRuns
<1>6. PolynomialRuns(data, n, PolynomialAfter(data))
  BY <1>3, <1>5, Zenon
<1>7. ASSUME NEW g, PolynomialRuns(data, n, g) PROVE g = c
  <2> DEFINE S == {i \in Nat : i <= n => g[i] = c[i]}
  <2>1. S \in SUBSET Nat /\ 0 \in S
    BY <1>1, <1>7 DEF PolynomialRuns
  <2>2. ASSUME NEW k \in S PROVE k + 1 \in S
    BY <1>1, <1>4, <1>7, <2>2 DEF PolynomialRuns
  <2> HIDE DEF S
  <2>3. S = Nat
    BY <2>1, <2>2, Induction
  <2>4. \A i \in 0 .. n : g[i] = c[i]
    BY <2>3, <1>1 DEF S
  <2> QED BY <1>1, <1>7, <2>4 DEF PolynomialRuns, CrcRuns
<1>8. PolynomialAfter(data) = c
  BY <1>6, <1>7
<1> QED BY <1>8 DEF c, PolynomialCrc, compute_crc

(* The CRC of a prefix is that of the bytes in it.                         *)
LEMMA SamePrefix ==
  ASSUME NEW data \in Seq(Byte), NEW other \in Seq(Byte),
         NEW n \in Nat, n <= Len(data), n <= Len(other),
         \A k \in 1 .. n : data[k] = other[k]
  PROVE  \A i \in 0 .. n : crc_after(data)[i] = crc_after(other)[i]
<1> DEFINE c == crc_after(data)
           d == crc_after(other)
           S == {i \in Nat : i <= n => c[i] = d[i]}
<1>1. /\ Len(data) \in Nat /\ Len(other) \in Nat /\ c[0] = d[0]
      /\ \A i \in 1 .. n : c[i] = update_crc(c[i - 1], data[i])
      /\ \A i \in 1 .. n : d[i] = update_crc(d[i - 1], other[i])
  BY CrcAfter
<1> HIDE DEF c, d
<1>2. S \in SUBSET Nat /\ 0 \in S
  BY <1>1
<1>3. ASSUME NEW k \in S PROVE k + 1 \in S
  BY <1>1, <1>3
<1> HIDE DEF S
<1>4. S = Nat
  BY <1>2, <1>3, Induction
<1>5. \A i \in 0 .. n : c[i] = d[i]
  BY <1>4 DEF S
<1> QED BY <1>5 DEF c, d

(* Where one byte differs, the CRC differs from there on, however long the *)
(* data are (modbus.h:115-129).                                            *)
THEOREM DamageShows ==
  ASSUME NEW data \in Seq(Byte), NEW other \in Seq(Byte), Len(other) = Len(data),
         NEW h \in 1 .. Len(data), data[h] # other[h],
         \A k \in 1 .. Len(data) : k # h => data[k] = other[k]
  PROVE  \A i \in h .. Len(data) : crc_after(data)[i] # crc_after(other)[i]
<1> DEFINE c == crc_after(data)
           d == crc_after(other)
           n == Len(data)
           S == {i \in Nat : h <= i /\ i <= n => c[i] # d[i]}
<1>1. /\ n \in Nat /\ h \in 1 .. n
      /\ \A i \in 0 .. n : c[i] \in Uint16 /\ d[i] \in Uint16
      /\ \A i \in 1 .. n : c[i] = update_crc(c[i - 1], data[i])
      /\ \A i \in 1 .. n : d[i] = update_crc(d[i - 1], other[i])
      /\ \A i \in 1 .. n : data[i] \in Byte /\ other[i] \in Byte
  BY CrcAfter
<1>2. c[h - 1] = d[h - 1]
  <2>1. h - 1 \in Nat /\ h - 1 <= Len(data) /\ h - 1 <= Len(other)
        /\ \A k \in 1 .. h - 1 : data[k] = other[k]
    BY <1>1
  <2>2. \A i \in 0 .. h - 1 : crc_after(data)[i] = crc_after(other)[i]
    BY <2>1, SamePrefix
  <2> QED BY <2>1, <2>2
<1> HIDE DEF c, d
<1>3. S \in SUBSET Nat /\ 0 \in S
  BY <1>1
<1>4. ASSUME NEW k \in S PROVE k + 1 \in S
  <2>1. CASE k + 1 = h
    <3>1. c[h] = update_crc(c[h - 1], data[h]) /\ d[h] = update_crc(c[h - 1], other[h])
      BY <1>1, <1>2
    <3>2. c[h - 1] \in Uint16
      BY <1>1
    <3>3. c[h] # d[h]
      BY <1>1, <3>1, <3>2, UpdateDiffers
    <3> QED BY <2>1, <3>3
  <2>2. CASE h <= k /\ k + 1 <= n
    <3>1. /\ c[k + 1] = update_crc(c[k], data[k + 1])
          /\ d[k + 1] = update_crc(d[k], data[k + 1])
          /\ c[k] # d[k] /\ c[k] \in Uint16 /\ d[k] \in Uint16 /\ data[k + 1] \in Byte
      BY <1>1, <2>2, <1>4
    <3>2. c[k + 1] # d[k + 1]
      BY <3>1, UpdateDiffers
    <3> QED BY <3>2
  <2>3. CASE k + 1 < h \/ n < k + 1
    BY <2>3, <1>1
  <2> QED BY <2>1, <2>2, <2>3, <1>1
<1> HIDE DEF S
<1>5. S = Nat
  BY <1>3, <1>4, Induction
<1> QED BY <1>1, <1>5 DEF S, c, d

(* Over a frame with its CRC, the low byte first, the CRC is 0.            *)
LEMMA SealedSound ==
  ASSUME NEW data \in Seq(Byte), NEW frame \in Seq(Byte), Len(frame) = Len(data) + 2,
         \A k \in 1 .. Len(data) : frame[k] = data[k],
         frame[Len(data) + 1] = Lo(compute_crc(data)),
         frame[Len(data) + 2] = Hi(compute_crc(data))
  PROVE  /\ crc_after(frame)[Len(data)] = Word(frame[Len(data) + 2], frame[Len(data) + 1])
         /\ PolynomialCrc(frame) = 0
<1> DEFINE n == Len(data)
           c == compute_crc(data)
<1>1. n \in Nat /\ c \in Uint16
  BY CrcAfter DEF compute_crc
<1>2. Lo(c) \in Byte /\ Hi(c) \in Byte /\ c = Word(Hi(c), Lo(c))
  BY <1>1, WordFacts
<1> HIDE DEF c
<1>3. /\ Len(frame) = n + 2
      /\ \A k \in 1 .. n : frame[k] = data[k]
      /\ frame[n + 1] = Lo(c) /\ frame[n + 2] = Hi(c)
  BY DEF c
<1>4. crc_after(frame)[n] = c
  <2>1. \A i \in 0 .. n : crc_after(frame)[i] = crc_after(data)[i]
    <3>1. n <= Len(frame) /\ n <= Len(data)
      BY <1>1, <1>3
    <3> QED BY <1>1, <1>3, <3>1, SamePrefix
  <2>2. compute_crc(data) = crc_after(data)[n]
    BY DEF compute_crc
  <2> HIDE DEF n
  <2> QED BY <1>1, <2>1, <2>2 DEF c
<1>5. ASSUME NEW crc \in Uint16, NEW byte \in Byte, byte = Lo(crc)
      PROVE  update_crc(crc, byte) = Hi(crc)
  <2> DEFINE u == update_crc(crc, byte)
             e == crc_table[1 + XorByte[Lo(crc)][byte]]
  <2>1. e = 0
    <3>1. XorByte[Lo(crc)][byte] = 0
      BY <1>5, XorFacts
    <3> QED BY <3>1, TableFacts
  <2>2. u \in Uint16 /\ Hi(u) = Hi(e) /\ Lo(u) = XorByte[Hi(crc)][Lo(e)]
    BY UpdateFacts
  <2> HIDE DEF u, e
  <2>3. Hi(crc) \in Byte /\ Hi(0) = 0 /\ Lo(0) = 0
    BY WordFacts
  <2>4. Hi(u) = 0 /\ Lo(u) = Hi(crc)
    BY <2>1, <2>2, <2>3, XorFacts
  <2>5. u = Word(Hi(u), Lo(u)) /\ Hi(crc) = Word(0, Hi(crc))
    BY <2>2, <2>3, WordFacts
  <2> QED BY <2>4, <2>5 DEF u
<1>6. crc_after(frame)[n + 2] = 0
  <2> DEFINE d == crc_after(frame)
  <2>1. /\ d[n + 1] = update_crc(d[n], frame[n + 1])
        /\ d[n + 2] = update_crc(d[n + 1], frame[n + 2])
    <3>1. /\ n + 1 \in 1 .. Len(frame) /\ (n + 1) - 1 = n
          /\ n + 2 \in 1 .. Len(frame) /\ (n + 2) - 1 = n + 1
      BY <1>1, <1>3
    <3>2. \A i \in 1 .. Len(frame) : d[i] = update_crc(d[i - 1], frame[i])
      BY CrcAfter
    <3> HIDE DEF d, n
    <3> QED BY <3>1, <3>2
  <2>2. d[n] = c
    BY <1>4
  <2> HIDE DEF d, n
  <2>3. d[n + 1] = Hi(c)
    BY <1>1, <1>2, <1>3, <1>5, <2>1, <2>2
  <2>4. Hi(c) \in Uint16 /\ Lo(Hi(c)) = Hi(c) /\ Hi(Hi(c)) = 0
    BY <1>2, WordFacts
  <2>5. d[n + 2] = 0
    BY <1>2, <1>3, <1>5, <2>1, <2>3, <2>4
  <2> QED BY <2>5 DEF d
<1>7. PolynomialCrc(frame) = 0
  <2>1. PolynomialCrc(frame) = crc_after(frame)[Len(frame)]
    BY SlaveAgrees DEF compute_crc
  <2> QED BY <1>3, <1>6, <2>1
<1> QED BY <1>2, <1>3, <1>4, <1>7 DEF n

(***************************************************************************)
(* The inductive invariant.                                                *)
(***************************************************************************)
(* Types, also of what TypeOK leaves open.                                 *)
FrameType ==
  [slave : Byte, function_code : Byte, address : Byte, data : [0 .. 7 -> Byte],
   data_size : Byte, crc : Uint16]
Typed ==
  /\ job \in Jobs
  /\ tx_frame \in Seq(Byte) /\ sent \in Seq(Byte) /\ rx_buffer \in Seq(Byte)
  /\ hit \in 0 .. Len(sent)
  /\ parser \in [state : ParserStates, crc : Uint16, data_length : Byte]
  /\ rx_frame \in FrameType
  /\ result \in Results

(* What is asked stays what it is, also once it was answered.              *)
Requested ==
  tx_frame # <<>> =>
    LET heard == Heard(tx_frame)
    IN  /\ Len(tx_frame) >= 8 /\ heard.sound
        /\ heard.slave = job.slave /\ heard.function = job.function
        /\ IF job.function = READ_COILS
           THEN heard.start = Lo(job.address \div 16) /\ heard.count = (job.address % 16) + 1
           ELSE heard.start = job.address /\ heard.count = 1
        /\ heard.value = IF job.function = WRITE_SINGLE_COIL
                         THEN IF job.value # 0 THEN \hFF00 ELSE 0
                         ELSE job.value

(* The three shapes of a reply.                                            *)
ReadReply ==
  /\ job.function \in ReadFunctions /\ sent[2] = job.function
  /\ sent[3] \in {1, 2} /\ Len(sent) = 5 + sent[3]
  /\ job.function = READ_HOLDING_REGISTERS => sent[3] = 2
WriteReply == job.function \in WriteFunctions /\ sent[2] = job.function /\ Len(sent) = 8
ExceptionReply == sent[2] = job.function + 128 /\ Len(sent) = 5

Sealing(frame) ==
  LET n == Len(frame) IN crc_after(frame)[n - 2] = Word(frame[n], frame[n - 1])

Replied ==
  IF sent = <<>>
  THEN /\ hit = 0 /\ rx_buffer = <<>>
       /\ parser = modbus_parser_reset /\ result = "incomplete"
  ELSE /\ tx_frame # <<>>
       /\ sent[1] = job.slave
       /\ ReadReply \/ WriteReply \/ ExceptionReply
       /\ Sealing(sent)

(* What arrives, and what of it was parsed.                                *)
Arrivals ==
  IF hit = 0 THEN {sent} ELSE {[sent EXCEPT ![hit] = XorByte[@][flip]] : flip \in Flips}
Parsed == Len(sent) - Len(rx_buffer)
Rest(arrived) ==
  /\ Len(rx_buffer) <= Len(sent)
  /\ \A k \in 1 .. Len(rx_buffer) : rx_buffer[k] = arrived[Parsed + k]

(* Wherever noise moved the bytes, data only begins at the fourth, and the *)
(* low byte of the CRC comes before the high one.                          *)
Room ==
  /\ result = "incomplete" /\ parser.state = "function" => Parsed >= 1
  /\ result = "incomplete" /\ parser.state \in {"length", "address_1", "address_2"} =>
       Parsed >= 2 /\ rx_frame.data_size = 0
  /\ result = "incomplete" /\ parser.state = "data" =>
       Parsed >= 3 + rx_frame.data_size
  /\ result = "incomplete" /\ parser.state = "crc2" => rx_frame.crc \in Byte
  /\ result # "incomplete" => parser = modbus_parser_reset

(* Otherwise the state of the parser follows from the number n of bytes it *)
(* has seen.                                                               *)
Start == IF sent[2] \in ReadFunctions THEN 3 ELSE 4
Body == Len(sent) - 2
Expects(state, n) ==
  \/ state = "slave" /\ n = 0
  \/ state = "function" /\ n = 1
  \/ state = "length" /\ n = 2 /\ Start = 3
  \/ state = "address_1" /\ n = 2 /\ Start = 4
  \/ state = "address_2" /\ n = 3 /\ Start = 4
  \/ state = "data" /\ Start <= n /\ n < Body
  \/ state = "crc1" /\ n = Body
  \/ state = "crc2" /\ n = Body + 1

(* What rx_frame holds then.                                               *)
Holds(arrived, n) ==
  /\ n >= 1 => rx_frame.slave = arrived[1]
  /\ n >= 2 => rx_frame.function_code = arrived[2]
  /\ n >= Start => rx_frame.data_size = (IF n < Body THEN n ELSE Body) - Start
  /\ Start = 3 /\ n >= 3 =>
       \A k \in 0 .. 7 : rx_frame.data[k] =
         IF k + 3 < n /\ k + 3 < Body THEN arrived[k + 4] ELSE 0

Going(arrived) ==
  /\ ExceptionReply => Parsed <= 1
  /\ Expects(parser.state, Parsed)
  /\ parser.crc = crc_after(arrived)[IF Parsed < Body THEN Parsed ELSE Body]
  /\ parser.state = "data" => parser.data_length = Body - Start
  /\ parser.state = "crc2" => rx_frame.crc = arrived[Body + 1]
  /\ Holds(arrived, Parsed)
Ended(arrived) ==
  /\ Parsed = Len(sent) /\ ~ ExceptionReply
  /\ Sealing(arrived)
  /\ Holds(arrived, Len(sent))
InFrame(arrived) ==
  /\ result = "incomplete" => Going(arrived)
  /\ result = "complete" => Ended(arrived)
  /\ hit = 0 /\ ~ ExceptionReply => result \in {"incomplete", "complete"}

Following ==
  sent # <<>> =>
    \E arrived \in Arrivals : Rest(arrived) /\ (~ FramingHit => InFrame(arrived))

Inv == Typed /\ Requested /\ Replied /\ Room /\ Following

(***************************************************************************)
(* Requests.                                                               *)
(***************************************************************************)
(* Two bytes appended come after the others.                               *)
LEMMA Closing ==
  ASSUME NEW data \in Seq(Byte), NEW a \in Byte, NEW b \in Byte
  PROVE  LET frame == data \o <<a, b>>
         IN  /\ frame \in Seq(Byte) /\ Len(frame) = Len(data) + 2
             /\ \A k \in 1 .. Len(data) : frame[k] = data[k]
             /\ frame[Len(data) + 1] = a /\ frame[Len(data) + 2] = b
  OBVIOUS

(* The framer and a slave close a frame alike.                             *)
LEMMA SealFacts ==
  ASSUME NEW data \in Seq(Byte), Len(data) <= 62
  PROVE  /\ Sealed(data) = WithCrc(data)
         /\ WithCrc(data) \in Seq(Byte) /\ Len(WithCrc(data)) = Len(data) + 2
         /\ \A k \in 1 .. Len(data) : WithCrc(data)[k] = data[k]
         /\ Sealing(WithCrc(data)) /\ PolynomialCrc(WithCrc(data)) = 0
<1> DEFINE c == compute_crc(data)
           frame == data \o <<Lo(c), Hi(c)>>
<1>1. Len(data) \in Nat /\ c \in Uint16
  BY CrcAfter DEF compute_crc
<1>2. Lo(c) \in Byte /\ Hi(c) \in Byte
  BY <1>1, WordFacts
<1>3. WithCrc(data) = frame /\ Sealed(data) = frame
  <2>1. ~ (Len(data) + 2 > FrameBuffer)
    <3>1. \A n \in Nat : n <= 62 => ~ (n + 2 > FrameBuffer)
      BY DEF FrameBuffer
    <3> QED BY <1>1, <3>1
  <2>2. PolynomialCrc(data) = c
    BY SlaveAgrees
  <2> QED BY <2>1, <2>2 DEF WithCrc, Sealed
<1> HIDE DEF c
<1>5. /\ frame \in Seq(Byte) /\ Len(frame) = Len(data) + 2
      /\ \A k \in 1 .. Len(data) : frame[k] = data[k]
      /\ frame[Len(data) + 1] = Lo(c) /\ frame[Len(data) + 2] = Hi(c)
  BY <1>2, Closing
<1> HIDE DEF frame
<1>6. /\ crc_after(frame)[Len(data)] = Word(frame[Len(data) + 2], frame[Len(data) + 1])
      /\ PolynomialCrc(frame) = 0
  BY <1>5, SealedSound DEF c
<1>7. Sealing(frame)
  <2>1. /\ Len(frame) - 2 = Len(data) /\ Len(frame) - 1 = Len(data) + 1
        /\ Len(frame) = Len(data) + 2
    BY <1>1, <1>5
  <2> QED BY <1>6, <2>1 DEF Sealing
<1> QED BY <1>3, <1>5, <1>6, <1>7

(* Two bytes and two words make six bytes.                                 *)
LEMMA SixBytes ==
  ASSUME NEW a \in Byte, NEW b \in Byte, NEW v \in Uint16, NEW w \in Uint16
  PROVE  LET six == <<a, b>> \o HiLo(v) \o HiLo(w)
         IN  /\ six \in Seq(Byte) /\ Len(six) = 6
             /\ six[1] = a /\ six[2] = b /\ six[3] = Hi(v) /\ six[4] = Lo(v)
             /\ six[5] = Hi(w) /\ six[6] = Lo(w)
<1>1. ASSUME NEW c \in Byte, NEW d \in Byte, NEW e \in Byte, NEW f \in Byte
      PROVE  LET six == <<a, b>> \o <<c, d>> \o <<e, f>>
             IN  /\ six \in Seq(Byte) /\ Len(six) = 6
                 /\ six[1] = a /\ six[2] = b /\ six[3] = c /\ six[4] = d
                 /\ six[5] = e /\ six[6] = f
  OBVIOUS
<1>2. Hi(v) \in Byte /\ Lo(v) \in Byte /\ Hi(w) \in Byte /\ Lo(w) \in Byte
  BY WordFacts
<1> QED BY <1>1, <1>2 DEF HiLo

(* ... and the frame of a read or of a coil carries them.                  *)
LEMMA SixHeard ==
  ASSUME NEW a \in Byte, NEW b \in Byte \ {WRITE_HOLDING_REGISTERS},
         NEW v \in Uint16, NEW w \in Uint16
  PROVE  LET frame == WithCrc(<<a, b>> \o HiLo(v) \o HiLo(w))
             heard == Heard(frame)
         IN  /\ frame \in Seq(Byte) /\ Len(frame) = 8
             /\ heard.sound /\ heard.slave = a /\ heard.function = b /\ heard.start = v
             /\ heard.count = (IF b = WRITE_SINGLE_COIL THEN 1 ELSE w)
             /\ heard.value = (IF b = WRITE_SINGLE_COIL THEN w ELSE 0)
<1> DEFINE six == <<a, b>> \o HiLo(v) \o HiLo(w)
           frame == WithCrc(six)
<1>1. /\ six \in Seq(Byte) /\ Len(six) = 6
      /\ six[1] = a /\ six[2] = b /\ six[3] = Hi(v) /\ six[4] = Lo(v)
      /\ six[5] = Hi(w) /\ six[6] = Lo(w)
  BY SixBytes
<1> HIDE DEF six
<1>2. /\ frame \in Seq(Byte) /\ Len(frame) = 8 /\ PolynomialCrc(frame) = 0
      /\ \A k \in 1 .. 6 : frame[k] = six[k]
  <2>1. Len(six) <= 62 /\ Len(six) + 2 = 8
    BY <1>1
  <2> QED BY <1>1, <2>1, SealFacts
<1> HIDE DEF frame
<1>3. /\ frame[1] = a /\ frame[2] = b
      /\ Word(frame[3], frame[4]) = v /\ Word(frame[5], frame[6]) = w
  BY <1>1, <1>2, WordFacts
<1>4. /\ Heard(frame).sound /\ Heard(frame).slave = a /\ Heard(frame).function = b
      /\ Heard(frame).start = v
      /\ Heard(frame).count = (IF b = WRITE_SINGLE_COIL THEN 1 ELSE w)
      /\ Heard(frame).value = (IF b = WRITE_SINGLE_COIL THEN w ELSE 0)
  BY <1>2, <1>3 DEF Heard
<1> QED BY <1>2, <1>4 DEF frame, six

(* The frame that writes one register carries nine.                        *)
LEMMA NineHeard ==
  ASSUME NEW a \in Byte, NEW v \in Uint16, NEW w \in Uint16
  PROVE  LET frame == modbus_create_write_multiple_registers_frame(a, v, <<w>>)
             heard == Heard(frame)
         IN  /\ frame \in Seq(Byte) /\ Len(frame) = 11
             /\ heard.sound /\ heard.slave = a /\ heard.function = WRITE_HOLDING_REGISTERS
             /\ heard.start = v /\ heard.count = 1 /\ heard.value = w
<1> DEFINE registers == [k \in 1 .. 2 * Len(<<w>>) |->
                           IF k % 2 = 1 THEN Hi(<<w>>[(k + 1) \div 2])
                           ELSE Lo(<<w>>[k \div 2])]
           nine == <<a, WRITE_HOLDING_REGISTERS>> \o HiLo(v) \o HiLo(Len(<<w>>))
                     \o <<Lo(2 * Len(<<w>>))>> \o registers
           frame == WithCrc(nine)
<1>1. /\ Hi(v) \in Byte /\ Lo(v) \in Byte /\ Hi(w) \in Byte /\ Lo(w) \in Byte
      /\ Hi(1) = 0 /\ Lo(1) = 1 /\ Lo(2) = 2 /\ WRITE_HOLDING_REGISTERS \in Byte
      /\ 0 \in Byte /\ 1 \in Byte /\ 2 \in Byte
  <2>1. 0 \in Byte /\ 1 \in Byte /\ 2 \in Byte /\ WRITE_HOLDING_REGISTERS \in Byte
    BY DEF WRITE_HOLDING_REGISTERS, Byte
  <2> QED BY <2>1, WordFacts
<1>2. registers = <<Hi(w), Lo(w)>>
  <2>1. registers = [k \in 1 .. 2 |-> IF k = 1 THEN Hi(w) ELSE Lo(w)]
    OBVIOUS
  <2> QED BY <2>1
<1> HIDE DEF registers
<1>3. nine = <<a, WRITE_HOLDING_REGISTERS>> \o <<Hi(v), Lo(v)>> \o <<0, 1>> \o <<2>>
               \o <<Hi(w), Lo(w)>>
  BY <1>1, <1>2 DEF HiLo
<1>4. /\ nine \in Seq(Byte) /\ Len(nine) = 9
      /\ nine[1] = a /\ nine[2] = WRITE_HOLDING_REGISTERS
      /\ nine[3] = Hi(v) /\ nine[4] = Lo(v) /\ nine[5] = 0 /\ nine[6] = 1
      /\ nine[8] = Hi(w) /\ nine[9] = Lo(w)
  <2> HIDE DEF nine
  <2> QED BY <1>1, <1>3
<1>5. modbus_create_write_multiple_registers_frame(a, v, <<w>>) = frame
  BY DEF modbus_create_write_multiple_registers_frame, registers
<1> HIDE DEF nine
<1>6. /\ frame \in Seq(Byte) /\ Len(frame) = 11 /\ PolynomialCrc(frame) = 0
      /\ \A k \in 1 .. 9 : frame[k] = nine[k]
  <2>1. Len(nine) <= 62 /\ Len(nine) + 2 = 11
    BY <1>4
  <2> QED BY <1>4, <2>1, SealFacts
<1> HIDE DEF frame
<1>7. /\ frame[1] = a /\ frame[2] = WRITE_HOLDING_REGISTERS
      /\ Word(frame[3], frame[4]) = v /\ Word(frame[5], frame[6]) = 1
      /\ Word(frame[8], frame[9]) = w
  BY <1>4, <1>6, WordFacts DEF Word
<1>f. /\ WRITE_HOLDING_REGISTERS # WRITE_SINGLE_COIL
  BY DEF WRITE_HOLDING_REGISTERS, WRITE_SINGLE_COIL
<1>8. /\ Heard(frame).sound /\ Heard(frame).slave = a
      /\ Heard(frame).function = WRITE_HOLDING_REGISTERS
      /\ Heard(frame).start = v /\ Heard(frame).count = 1 /\ Heard(frame).value = w
  BY <1>6, <1>7, <1>f DEF Heard
<1> QED BY <1>5, <1>6, <1>8

(* A frame with bytes in it is not the one with none.                      *)
LEMMA NotEmpty ==
  ASSUME NEW frame \in Seq(Byte), Len(frame) >= 1
  PROVE  frame # <<>>
<1>1. SUFFICES ASSUME frame = <<>> PROVE FALSE
  OBVIOUS
<1>2. Len(<<>>) >= 1
  BY <1>1
<1> QED BY <1>2

(* What a job asks for.                                                    *)
LEMMA JobFacts ==
  ASSUME NEW j \in Jobs
  PROVE  /\ j.function \in {1, 3, 5, 16} /\ j.function \in Byte
         /\ j.slave \in 1 .. 247 /\ j.slave \in Byte
         /\ j.address \in Uint16 /\ j.value \in Uint16
         /\ j.function \in ReadFunctions => j.value = 0
<1>1. \A n \in {1, 3, 5, 16} : n \in Byte
  BY DEF Byte
<1>2. \A n \in 1 .. 247 : n \in Byte
  BY DEF Byte
<1>3. 0 \in Uint16
  BY WordFacts
<1>4. Slaves \subseteq 1 .. 247 /\ Addresses \subseteq Uint16 /\ Words \subseteq Uint16
  BY CodecAssumption
<1>5. j.function \in {1, 3, 5, 16} /\ j.slave \in Slaves /\ j.address \in Addresses
      /\ j.value \in Words \cup {0}
      /\ (j.function \in ReadFunctions => j.value = 0)
  BY DEF Jobs, ReadFunctions, WriteFunctions, READ_COILS, READ_HOLDING_REGISTERS,
     WRITE_SINGLE_COIL, WRITE_HOLDING_REGISTERS
<1> QED BY <1>1, <1>2, <1>3, <1>4, <1>5

(* The start and the quantity a read of coils makes of an address.         *)
LEMMA CoilFacts ==
  ASSUME NEW address \in Uint16
  PROVE  /\ Lo(address \div 16) \in Uint16
         /\ (address % 16) + 1 \in 1 .. 16 /\ (address % 16) + 1 \in Uint16
<1>1. address \in Int /\ 0 <= address /\ address <= 65535
  BY Uint16Facts
<1>2. (address % 16) + 1 \in Int /\ 1 <= (address % 16) + 1 /\ (address % 16) + 1 <= 16
  BY <1>1
<1>3. /\ (address \div 16) % 256 \in Int
      /\ 0 <= (address \div 16) % 256 /\ (address \div 16) % 256 <= 255
  BY <1>1
<1>4. Lo(address \div 16) \in Uint16
  BY <1>3, Uint16Facts DEF Lo
<1> QED BY <1>2, <1>4, Uint16Facts

(* What a slave hears of a request to read ...                             *)
LEMMA ReadHeard ==
  ASSUME NEW j \in Jobs, j.function \in ReadFunctions
  PROVE  LET frame == modbus_create_read_frame(j.function, j.slave, j.address)
             heard == Heard(frame)
         IN  /\ frame \in Seq(Byte) /\ Len(frame) = 8
             /\ heard.sound /\ heard.slave = j.slave /\ heard.function = j.function
             /\ heard.value = 0
             /\ IF j.function = READ_COILS
                THEN heard.start = Lo(j.address \div 16) /\ heard.count = (j.address % 16) + 1
                ELSE heard.start = j.address /\ heard.count = 1
<1>1. /\ j.function \in Byte /\ j.slave \in Byte /\ j.address \in Uint16 /\ 1 \in Uint16
      /\ Lo(j.address \div 16) \in Uint16 /\ (j.address % 16) + 1 \in Uint16
  BY JobFacts, CoilFacts, Uint16Facts
<1>2. /\ READ_COILS # READ_HOLDING_REGISTERS
      /\ READ_COILS \in Byte \ {WRITE_HOLDING_REGISTERS, WRITE_SINGLE_COIL}
      /\ READ_HOLDING_REGISTERS \in Byte \ {WRITE_HOLDING_REGISTERS, WRITE_SINGLE_COIL}
  BY DEF READ_COILS, READ_HOLDING_REGISTERS, WRITE_HOLDING_REGISTERS, WRITE_SINGLE_COIL, Byte
<1>3. CASE j.function = READ_COILS
  <2> DEFINE frame == WithCrc(<<j.slave, READ_COILS>> \o HiLo(Lo(j.address \div 16))
                                \o HiLo((j.address % 16) + 1))
  <2>1. modbus_create_read_frame(j.function, j.slave, j.address) = frame
    BY <1>3 DEF modbus_create_read_frame, modbus_create_read_coils_frame
  <2>2. /\ frame \in Seq(Byte) /\ Len(frame) = 8
        /\ Heard(frame).sound /\ Heard(frame).slave = j.slave
        /\ Heard(frame).function = READ_COILS
        /\ Heard(frame).start = Lo(j.address \div 16)
        /\ Heard(frame).count = (j.address % 16) + 1 /\ Heard(frame).value = 0
    BY <1>1, <1>2, SixHeard
  <2> HIDE DEF frame
  <2> QED BY <1>3, <2>1, <2>2
<1>4. CASE j.function = READ_HOLDING_REGISTERS
  <2> DEFINE frame == WithCrc(<<j.slave, READ_HOLDING_REGISTERS>> \o HiLo(j.address)
                                \o HiLo(1))
  <2>1. modbus_create_read_frame(j.function, j.slave, j.address) = frame
    BY <1>2, <1>4 DEF modbus_create_read_frame, modbus_create_read_holding_registers_frame
  <2>2. /\ frame \in Seq(Byte) /\ Len(frame) = 8
        /\ Heard(frame).sound /\ Heard(frame).slave = j.slave
        /\ Heard(frame).function = READ_HOLDING_REGISTERS
        /\ Heard(frame).start = j.address
        /\ Heard(frame).count = 1 /\ Heard(frame).value = 0
    BY <1>1, <1>2, SixHeard
  <2> HIDE DEF frame
  <2> QED BY <1>2, <1>4, <2>1, <2>2
<1> QED BY <1>3, <1>4 DEF ReadFunctions

(* ... and of one to write.                                                *)
LEMMA WriteHeard ==
  ASSUME NEW j \in Jobs, j.function \in WriteFunctions
  PROVE  LET frame == modbus_create_write_frame(j.function, j.slave, j.address, j.value)
             heard == Heard(frame)
         IN  /\ frame \in Seq(Byte) /\ Len(frame) >= 8
             /\ heard.sound /\ heard.slave = j.slave /\ heard.function = j.function
             /\ heard.start = j.address /\ heard.count = 1
             /\ heard.value = IF j.function = WRITE_SINGLE_COIL
                              THEN IF j.value # 0 THEN \hFF00 ELSE 0
                              ELSE j.value
<1> DEFINE coil == IF j.value # 0 THEN \hFF00 ELSE 0
<1>1. /\ j.slave \in Byte /\ j.address \in Uint16 /\ j.value \in Uint16
      /\ coil \in Uint16
  BY JobFacts, Uint16Facts
<1>2. /\ WRITE_SINGLE_COIL # WRITE_HOLDING_REGISTERS
      /\ WRITE_SINGLE_COIL \in Byte \ {WRITE_HOLDING_REGISTERS}
  BY DEF WRITE_HOLDING_REGISTERS, WRITE_SINGLE_COIL, Byte
<1>3. CASE j.function = WRITE_SINGLE_COIL
  <2> DEFINE frame == WithCrc(<<j.slave, WRITE_SINGLE_COIL>> \o HiLo(j.address) \o HiLo(coil))
  <2>1. modbus_create_write_frame(j.function, j.slave, j.address, j.value) = frame
    <3>1. (IF j.value # 0 THEN TRUE ELSE FALSE) = (j.value # 0)
      OBVIOUS
    <3> QED BY <1>3, <3>1 DEF modbus_create_write_frame, modbus_create_write_single_coil_frame
  <2> HIDE DEF coil
  <2>2. /\ frame \in Seq(Byte) /\ Len(frame) = 8
        /\ Heard(frame).sound /\ Heard(frame).slave = j.slave
        /\ Heard(frame).function = WRITE_SINGLE_COIL
        /\ Heard(frame).start = j.address
        /\ Heard(frame).count = 1 /\ Heard(frame).value = coil
    BY <1>1, <1>2, SixHeard
  <2> HIDE DEF frame
  <2> QED BY <1>3, <2>1, <2>2 DEF coil
<1>4. CASE j.function = WRITE_HOLDING_REGISTERS
  <2> DEFINE frame == modbus_create_write_multiple_registers_frame(j.slave, j.address,
                                                                   <<j.value>>)
  <2>1. modbus_create_write_frame(j.function, j.slave, j.address, j.value) = frame
    BY <1>2, <1>4 DEF modbus_create_write_frame
  <2>2. /\ frame \in Seq(Byte) /\ Len(frame) = 11
        /\ Heard(frame).sound /\ Heard(frame).slave = j.slave
        /\ Heard(frame).function = WRITE_HOLDING_REGISTERS
        /\ Heard(frame).start = j.address
        /\ Heard(frame).count = 1 /\ Heard(frame).value = j.value
    BY <1>1, NineHeard
  <2> HIDE DEF frame
  <2> QED BY <1>2, <1>4, <2>1, <2>2
<1> QED BY <1>3, <1>4 DEF WriteFunctions

(* So the request is made as it should be, and stays so.                   *)
LEMMA RequestMade ==
  ASSUME Typed, Replied, MakeRequest
  PROVE  tx_frame' \in Seq(Byte) /\ tx_frame' # <<>> /\ Requested'
<1>1. job \in Jobs /\ job' = job
  BY DEF Typed, MakeRequest
<1>2. CASE job.function \in ReadFunctions
  <2> DEFINE frame == modbus_create_read_frame(job.function, job.slave, job.address)
  <2>1. tx_frame' = frame
    BY <1>2 DEF MakeRequest
  <2>2. /\ frame \in Seq(Byte) /\ Len(frame) = 8
        /\ Heard(frame).sound /\ Heard(frame).slave = job.slave
        /\ Heard(frame).function = job.function
        /\ Heard(frame).value = 0
        /\ IF job.function = READ_COILS
           THEN Heard(frame).start = Lo(job.address \div 16)
                /\ Heard(frame).count = (job.address % 16) + 1
           ELSE Heard(frame).start = job.address /\ Heard(frame).count = 1
    BY <1>1, <1>2, ReadHeard
  <2>3. job.value = 0 /\ job.function # WRITE_SINGLE_COIL
    BY <1>1, <1>2, JobFacts DEF ReadFunctions, READ_COILS, READ_HOLDING_REGISTERS,
       WRITE_SINGLE_COIL
  <2> HIDE DEF frame
  <2>4. frame # <<>>
    <3>1. frame \in Seq(Byte) /\ Len(frame) >= 1
      BY <2>2
    <3> QED BY <3>1, NotEmpty, Zenon
  <2> QED BY <1>1, <2>1, <2>2, <2>3, <2>4 DEF Requested, Heard
<1>3. CASE job.function \notin ReadFunctions
  <2> DEFINE frame == modbus_create_write_frame(job.function, job.slave, job.address,
                                                job.value)
  <2>1. tx_frame' = frame
    BY <1>3 DEF MakeRequest
  <2>2. job.function \in WriteFunctions /\ job.function # READ_COILS
    BY <1>1, <1>3, JobFacts DEF ReadFunctions, READ_COILS, READ_HOLDING_REGISTERS,
       WriteFunctions, WRITE_SINGLE_COIL, WRITE_HOLDING_REGISTERS
  <2>3. /\ frame \in Seq(Byte) /\ Len(frame) >= 8
        /\ Heard(frame).sound /\ Heard(frame).slave = job.slave
        /\ Heard(frame).function = job.function
        /\ Heard(frame).start = job.address /\ Heard(frame).count = 1
        /\ Heard(frame).value = IF job.function = WRITE_SINGLE_COIL
                                THEN IF job.value # 0 THEN \hFF00 ELSE 0
                                ELSE job.value
    BY <1>1, <2>2, WriteHeard
  <2> HIDE DEF frame
  <2>4. frame # <<>>
    <3>1. frame \in Seq(Byte) /\ Len(frame) >= 1
      BY <2>3
    <3> QED BY <3>1, NotEmpty, Zenon
  <2> QED BY <1>1, <2>1, <2>2, <2>3, <2>4 DEF Requested, Heard
<1> QED BY <1>2, <1>3

(***************************************************************************)
(* Replies.                                                                *)
(***************************************************************************)
(* The coils of a reply fill one byte or two.                              *)
LEMMA CoilBytesFacts ==
  ASSUME NEW count \in 1 .. 16, NEW word \in Uint16
  PROVE  CoilBytes(count, word) \in Seq(Byte) /\ Len(CoilBytes(count, word)) \in {1, 2}
<1> DEFINE coils == word % 2^count
<1>1. coils \in Uint16
  <2>1. 2^count \in 1 .. UINT16_MAX + 1
    BY PowerFacts
  <2>2. UINT16_MAX \in Nat
    BY DEF UINT16_MAX
  <2>3. ASSUME NEW m \in Int, 1 <= m PROVE word % m \in Int /\ 0 <= word % m /\ word % m <= word
    <3>1. word \in Int /\ 0 <= word
      BY Uint16Facts
    <3> QED BY <2>3, <3>1
  <2>4. coils \in Int /\ 0 <= coils /\ coils <= word
    BY <2>1, <2>2, <2>3
  <2> HIDE DEF coils
  <2> QED BY <2>4, Uint16Facts
<1> HIDE DEF coils
<1>2. Lo(coils) \in Byte /\ Hi(coils) \in Byte
  BY <1>1, WordFacts
<1>3. CoilBytes(count, word) = <<Lo(coils)>> \/ CoilBytes(count, word) = <<Lo(coils), Hi(coils)>>
  BY DEF CoilBytes, coils
<1>4. CASE CoilBytes(count, word) = <<Lo(coils)>>
  BY <1>2, <1>4
<1>5. CASE CoilBytes(count, word) = <<Lo(coils), Hi(coils)>>
  BY <1>2, <1>5
<1> QED BY <1>3, <1>4, <1>5

(* What a slave replies before it closes the frame.                        *)
LEMMA ReplyFacts ==
  ASSUME NEW request \in Seq(Byte), Len(request) >= 8,
         NEW heard, heard = Heard(request),
         heard.function \in ReadFunctions \cup WriteFunctions,
         heard.function = READ_COILS => heard.count \in 1 .. 16,
         NEW word \in Uint16,
         NEW reply, reply = ReplyBytes(request, heard, word)
  PROVE  /\ reply \in Seq(Byte) /\ reply[1] = heard.slave /\ reply[2] = heard.function
         /\ heard.function \in ReadFunctions =>
              /\ reply[3] \in {1, 2} /\ Len(reply) = 3 + reply[3]
              /\ heard.function = READ_HOLDING_REGISTERS => reply[3] = 2
         /\ heard.function \in WriteFunctions => Len(reply) = 6
<1>0. ReadFunctions \cap WriteFunctions = {} /\ READ_COILS # READ_HOLDING_REGISTERS
  BY DEF ReadFunctions, READ_COILS, READ_HOLDING_REGISTERS,
       WriteFunctions, WRITE_SINGLE_COIL, WRITE_HOLDING_REGISTERS
<1>1. /\ heard.slave = request[1] /\ heard.function = request[2]
      /\ heard.slave \in Byte /\ heard.function \in Byte
  BY DEF Heard
<1>2. CASE heard.function \in ReadFunctions
  <2> DEFINE data == DataBytes(heard, word)
  <2>1. /\ data \in Seq(Byte) /\ Len(data) \in {1, 2}
        /\ heard.function = READ_HOLDING_REGISTERS => Len(data) = 2
    <3>1. CASE heard.function = READ_COILS
      BY <1>0, <3>1, CoilBytesFacts DEF DataBytes
    <3>2. CASE heard.function # READ_COILS
      BY <3>2, WordFacts DEF DataBytes, HiLo
    <3> QED BY <3>1, <3>2
  <2>2. Len(data) \in Byte
    BY <2>1 DEF Byte
  <2>3. reply = <<heard.slave, heard.function>> \o <<Len(data)>> \o data
    BY <1>2 DEF ReplyBytes
  <2> HIDE DEF data
  <2>4. ASSUME NEW a \in Byte, NEW b \in Byte, NEW c \in Byte, NEW d \in Seq(Byte)
        PROVE  LET r == <<a, b>> \o <<c>> \o d
               IN  r \in Seq(Byte) /\ Len(r) = 3 + Len(d) /\ r[1] = a /\ r[2] = b /\ r[3] = c
    OBVIOUS
  <2>5. /\ reply \in Seq(Byte) /\ Len(reply) = 3 + Len(data)
        /\ reply[1] = heard.slave /\ reply[2] = heard.function /\ reply[3] = Len(data)
    BY <1>1, <2>1, <2>2, <2>3, <2>4
  <2> QED BY <1>0, <1>2, <2>1, <2>5
<1>3. CASE heard.function \in WriteFunctions
  <2>1. reply = SubSeq(request, 1, 6)
    BY <1>0, <1>3 DEF ReplyBytes
  <2>2. reply \in Seq(Byte) /\ Len(reply) = 6 /\ reply[1] = request[1] /\ reply[2] = request[2]
    BY <2>1
  <2> QED BY <1>0, <1>1, <1>3, <2>2
<1> QED BY <1>2, <1>3

(* The line brings the reply, or the reply with another byte.              *)
LEMMA Transmitted ==
  ASSUME Typed, Replied, sent = <<>>, NEW reply \in Seq(Byte), 5 <= Len(reply), Len(reply) <= 8,
         Transmit(reply), UNCHANGED <<job, tx_frame, parser, rx_frame, result>>
  PROVE  Typed' /\ Room' /\ Following'
<1>1. /\ sent' = reply /\ sent' # <<>> /\ Len(sent') \in 5 .. 8
      /\ parser' = modbus_parser_reset /\ result' = "incomplete"
  <2>1. reply # <<>>
    <3>1. Len(reply) >= 1
      OBVIOUS
    <3> QED BY <3>1, NotEmpty, Zenon
  <2>2. Len(reply) \in 5 .. 8
    <3>1. Len(reply) \in Int
      OBVIOUS
    <3>2. \A n \in Int : 5 <= n /\ n <= 8 => n \in 5 .. 8
      OBVIOUS
    <3> QED BY <3>1, <3>2, Zenon
  <2>3. sent' = reply
    BY DEF Transmit
  <2>4. parser' = modbus_parser_reset /\ result' = "incomplete"
    BY DEF Replied
  <2> QED BY <2>1, <2>2, <2>3, <2>4
<1>2. /\ hit' \in 0 .. Len(sent') /\ rx_buffer' \in Arrivals'
      /\ rx_buffer' \in Seq(Byte) /\ Len(rx_buffer') = Len(sent')
  <2>1. CASE hit' = 0 /\ rx_buffer' = reply
    BY <1>1, <2>1 DEF Arrivals
  <2>2. ASSUME NEW i \in DOMAIN reply, NEW flip \in Flips, hit' = i,
               rx_buffer' = [reply EXCEPT ![i] = XorByte[@][flip]]
        PROVE  /\ hit' \in 0 .. Len(sent') /\ rx_buffer' \in Arrivals'
               /\ rx_buffer' \in Seq(Byte) /\ Len(rx_buffer') = Len(sent')
    <3>1. reply[i] \in Byte /\ flip \in Byte /\ i \in 1 .. Len(reply)
      BY CodecAssumption
    <3>2. XorByte[reply[i]][flip] \in Byte
      BY <3>1, XorFacts
    <3>3. rx_buffer' \in Seq(Byte) /\ Len(rx_buffer') = Len(reply)
      BY <2>2, <3>1, <3>2
    <3>4. hit' # 0 /\ hit' \in 0 .. Len(sent')
      BY <1>1, <2>2, <3>1
    <3>5. rx_buffer' \in Arrivals'
      BY <1>1, <2>2, <3>4 DEF Arrivals
    <3> QED BY <1>1, <3>3, <3>4, <3>5
  <2> QED BY <2>1, <2>2 DEF Transmit
<1>3. Typed'
  BY <1>1, <1>2 DEF Typed
<1>4. Parsed' = 0
  BY <1>1, <1>2 DEF Parsed
<1>5. Room'
  BY <1>1 DEF Room, modbus_parser_reset
<1>6. Rest(rx_buffer)'
  BY <1>1, <1>2, <1>4 DEF Rest
<1>7. ExceptionReply' => Parsed' <= 1
  BY <1>4
<1>8. crc_after(rx_buffer')[0] = \hFFFF
  BY <1>2, CrcAfter
<1>9. Body' \in 3 .. 6 /\ Start' \in {3, 4}
  BY <1>1 DEF Body, Start
<1>10. InFrame(rx_buffer)'
  <2>1. Expects(parser.state, Parsed)'
    BY <1>1, <1>4 DEF Expects, modbus_parser_reset
  <2>2. parser'.crc = crc_after(rx_buffer')[IF Parsed' < Body' THEN Parsed' ELSE Body']
    BY <1>1, <1>4, <1>8, <1>9 DEF modbus_parser_reset
  <2>3. parser'.state = "slave"
    BY <1>1 DEF modbus_parser_reset
  <2>4. Holds(rx_buffer, Parsed)'
    BY <1>4, <1>9 DEF Holds
  <2>5. Going(rx_buffer)'
    BY <1>7, <2>1, <2>2, <2>3, <2>4 DEF Going
  <2> QED BY <1>1, <2>5 DEF InFrame
<1> QED BY <1>2, <1>3, <1>5, <1>6, <1>10 DEF Following

(* A reply that is closed by its CRC has one of the three shapes.          *)
LEMMA Closed ==
  ASSUME Typed, Replied, sent = <<>>, tx_frame # <<>>,
         UNCHANGED <<job, tx_frame, parser, rx_frame, result>>,
         NEW data \in Seq(Byte), data[1] = job.slave, Len(data) \in {3, 4, 5, 6},
         \/ /\ job.function \in ReadFunctions /\ data[2] = job.function
            /\ data[3] \in {1, 2} /\ Len(data) = 3 + data[3]
            /\ job.function = READ_HOLDING_REGISTERS => data[3] = 2
         \/ job.function \in WriteFunctions /\ data[2] = job.function /\ Len(data) = 6
         \/ data[2] = job.function + 128 /\ Len(data) = 3,
         Transmit(Sealed(data))
  PROVE  Typed' /\ Replied' /\ Room' /\ Following'
<1> DEFINE reply == Sealed(data)
<1>1. Len(data) \in Nat /\ 3 <= Len(data) /\ Len(data) <= 6
  <2>1. \A n \in {3, 4, 5, 6} : n \in Nat /\ 3 <= n /\ n <= 6
    OBVIOUS
  <2> QED BY <2>1, Zenon
<1>2. /\ reply \in Seq(Byte) /\ Len(reply) = Len(data) + 2 /\ Sealing(reply)
      /\ \A k \in 1 .. Len(data) : reply[k] = data[k]
  <2>1. Len(data) <= 62
    BY <1>1
  <2> QED BY <2>1, SealFacts
<1> HIDE DEF reply
<1>3. 5 <= Len(reply) /\ Len(reply) <= 8 /\ Len(reply) \in Nat
  BY <1>1, <1>2
<1>4. Transmit(reply)
  BY DEF reply
<1>5. Typed' /\ Room' /\ Following'
  BY <1>2, <1>3, <1>4, Transmitted
<1>6. sent' = reply /\ job' = job /\ tx_frame' = tx_frame
  BY <1>4 DEF Transmit
<1>7. /\ reply[1] = data[1] /\ reply[2] = data[2] /\ reply[3] = data[3]
  BY <1>1, <1>2
<1>8. ReadReply' \/ WriteReply' \/ ExceptionReply'
  <2>1. CASE /\ job.function \in ReadFunctions /\ data[2] = job.function
             /\ data[3] \in {1, 2} /\ Len(data) = 3 + data[3]
             /\ job.function = READ_HOLDING_REGISTERS => data[3] = 2
    <3>1. Len(reply) = 5 + data[3]
      BY <1>2, <2>1
    <3> QED BY <1>6, <1>7, <2>1, <3>1 DEF ReadReply
  <2>2. CASE job.function \in WriteFunctions /\ data[2] = job.function /\ Len(data) = 6
    <3>1. Len(reply) = 8
      BY <1>2, <2>2
    <3> QED BY <1>6, <1>7, <2>2, <3>1 DEF WriteReply
  <2>3. CASE data[2] = job.function + 128 /\ Len(data) = 3
    <3>1. Len(reply) = 5
      BY <1>2, <2>3
    <3> QED BY <1>6, <1>7, <2>3, <3>1 DEF ExceptionReply
  <2> QED BY <2>1, <2>2, <2>3
<1>9. reply # <<>>
  <2>1. Len(reply) >= 1
    BY <1>3
  <2> QED BY <1>2, <2>1, NotEmpty, Zenon
<1>10. Sealing(sent')
  BY <1>2, <1>6
<1>11. Replied'
  BY <1>6, <1>7, <1>8, <1>9, <1>10 DEF Replied, Sealing
<1> QED BY <1>5, <1>11

(* So an answer is, and so is an exception.                                *)
LEMMA AnswerNext ==
  ASSUME Typed, Requested, Replied, Answer \/ AnswerException
  PROVE  Inv'
<1> DEFINE heard == Heard(tx_frame)
<1>1. /\ tx_frame # <<>> /\ sent = <<>>
      /\ UNCHANGED <<job, tx_frame, parser, rx_frame, result>>
  BY DEF Answer, AnswerException
<1>2. /\ tx_frame \in Seq(Byte) /\ Len(tx_frame) >= 8
      /\ heard.slave = job.slave /\ heard.function = job.function
      /\ job.function = READ_COILS => heard.count = (job.address % 16) + 1
  BY <1>1 DEF Typed, Requested
<1>3. /\ job \in Jobs /\ job.function \in {1, 3, 5, 16} /\ job.function \in Byte
      /\ job.slave \in Byte /\ job.address \in Uint16
  BY JobFacts DEF Typed
<1>4. /\ job.function \in ReadFunctions \cup WriteFunctions
      /\ job.function + 128 \in Byte
  <2>1. job.function \in ReadFunctions \cup WriteFunctions
    BY <1>3 DEF ReadFunctions, WriteFunctions, READ_COILS, READ_HOLDING_REGISTERS,
       WRITE_SINGLE_COIL, WRITE_HOLDING_REGISTERS
  <2>2. \A f \in {1, 3, 5, 16} : f + 128 \in Byte
    BY DEF Byte
  <2> QED BY <1>3, <2>1, <2>2
<1> HIDE DEF heard
<1>5. Requested'
  BY <1>1 DEF Requested, Heard
<1>6. CASE Answer
  <2>1. PICK word \in Uint16 : Transmit(Sealed(ReplyBytes(tx_frame, heard, word)))
    <3>1. 0 \in Uint16 /\ Words \subseteq Uint16
      BY WordFacts, CodecAssumption
    <3> QED BY <1>6, <3>1 DEF Answer, heard
  <2> DEFINE data == ReplyBytes(tx_frame, heard, word)
  <2>2. job.function = READ_COILS => heard.count \in 1 .. 16
    BY <1>2, <1>3, CoilFacts
  <2>3. /\ data \in Seq(Byte) /\ data[1] = heard.slave /\ data[2] = heard.function
        /\ heard.function \in ReadFunctions =>
              /\ data[3] \in {1, 2} /\ Len(data) = 3 + data[3]
              /\ heard.function = READ_HOLDING_REGISTERS => data[3] = 2
        /\ heard.function \in WriteFunctions => Len(data) = 6
    BY <1>2, <1>4, <2>2, ReplyFacts DEF heard
  <2> HIDE DEF data
  <2>4. Len(data) \in {3, 4, 5, 6}
    <3>1. \A n \in {1, 2} : 3 + n \in {3, 4, 5, 6}
      OBVIOUS
    <3>2. Len(data) = 6 \/ \E n \in {1, 2} : Len(data) = 3 + n
      BY <1>2, <1>4, <2>3, Zenon
    <3> QED BY <3>1, <3>2, Zenon
  <2>5. Transmit(Sealed(data))
    BY <2>1 DEF data
  <2>6. Typed' /\ Replied' /\ Room' /\ Following'
    BY <1>1, <1>2, <1>4, <2>3, <2>4, <2>5, Closed
  <2> QED BY <1>5, <2>6 DEF Inv
<1>7. CASE AnswerException
  <2> DEFINE data == <<heard.slave, heard.function + 128, 2>>
  <2>1. Transmit(Sealed(data))
    BY <1>7 DEF AnswerException, heard
  <2>2. 2 \in Byte
    BY DEF Byte
  <2>3. /\ data \in Seq(Byte) /\ Len(data) = 3
        /\ data[1] = job.slave /\ data[2] = job.function + 128
    BY <1>2, <1>3, <1>4, <2>2
  <2> HIDE DEF data
  <2>4. Len(data) \in {3, 4, 5, 6}
    BY <2>3
  <2>5. Typed' /\ Replied' /\ Room' /\ Following'
    BY <1>1, <2>1, <2>3, <2>4, Closed
  <2> QED BY <1>5, <2>5 DEF Inv
<1> QED BY <1>6, <1>7

(***************************************************************************)
(* The parser.                                                             *)
(***************************************************************************)
(* A reply has five to eight bytes, and is one of the three.               *)
LEMMA ShapeFacts ==
  ASSUME Typed, Replied, sent # <<>>
  PROVE  /\ Len(sent) \in Nat /\ 5 <= Len(sent) /\ Len(sent) <= 8
         /\ Body \in Nat /\ Len(sent) = Body + 2 /\ Start \in {3, 4}
         /\ ReadReply \/ WriteReply \/ ExceptionReply
         /\ ReadReply => ~ ExceptionReply /\ Start = 3 /\ Body = 3 + sent[3]
         /\ WriteReply => ~ ExceptionReply /\ Start = 4 /\ Body = 6
         /\ ExceptionReply => Start = 4 /\ Body = 3 /\ sent[2] \in {129, 131, 133, 144}
         /\ ~ ExceptionReply => Start < Body
<1>1. /\ Len(sent) \in Nat
      /\ ReadReply \/ WriteReply \/ ExceptionReply
      /\ job.function \in {1, 3, 5, 16}
  BY JobFacts DEF Typed, Replied
<1>2. ReadFunctions = {1, 3} /\ WriteFunctions = {5, 16}
  BY DEF ReadFunctions, WriteFunctions, READ_COILS, READ_HOLDING_REGISTERS,
     WRITE_SINGLE_COIL, WRITE_HOLDING_REGISTERS
<1>3. CASE ReadReply
  <2>1. /\ sent[3] \in Nat /\ 1 <= sent[3] /\ sent[3] <= 2 /\ Len(sent) = 5 + sent[3]
        /\ sent[2] \in {1, 3} /\ sent[2] = job.function
    BY <1>2, <1>3 DEF ReadReply
  <2>2. ~ ExceptionReply
    BY <1>1, <2>1 DEF ExceptionReply
  <2>3. ~ WriteReply
    BY <1>2, <2>1 DEF WriteReply
  <2> QED BY <1>1, <1>2, <2>1, <2>2, <2>3 DEF Start, Body
<1>4. CASE WriteReply
  <2>1. Len(sent) = 8 /\ sent[2] \in {5, 16} /\ sent[2] = job.function
    BY <1>2, <1>4 DEF WriteReply
  <2>2. ~ ExceptionReply
    BY <1>1, <2>1 DEF ExceptionReply
  <2>3. ~ ReadReply
    BY <1>2, <2>1 DEF ReadReply
  <2> QED BY <1>1, <1>2, <2>1, <2>2, <2>3 DEF Start, Body
<1>5. CASE ExceptionReply
  <2>1. Len(sent) = 5 /\ sent[2] \in {129, 131, 133, 144}
    BY <1>1, <1>5 DEF ExceptionReply
  <2>2. ~ ReadReply /\ ~ WriteReply
    BY <1>2, <2>1 DEF ReadReply, WriteReply
  <2> QED BY <1>1, <1>2, <1>5, <2>1, <2>2 DEF Start, Body
<1> QED BY <1>1, <1>3, <1>4, <1>5

(* One byte more is parsed.                                                *)
LEMMA TakeFacts ==
  ASSUME Typed, Replied, Room, NEW state, Takes(state), Len(rx_buffer) <= Len(sent)
  PROVE  /\ sent # <<>> /\ result = "incomplete" /\ parser.state = state
         /\ Head(rx_buffer) \in Byte /\ rx_buffer' \in Seq(Byte)
         /\ Len(rx_buffer') \in Nat /\ Len(rx_buffer') = Len(rx_buffer) - 1
         /\ Parsed \in Nat /\ Parsed + 1 <= Len(sent) /\ Parsed' = Parsed + 1
         /\ UNCHANGED <<job, tx_frame, sent, hit>>
<1>1. /\ rx_buffer \in Seq(Byte) /\ rx_buffer # <<>> /\ rx_buffer' = Tail(rx_buffer)
      /\ sent # <<>> /\ sent \in Seq(Byte)
  BY DEF Takes, Typed, Replied
<1>2. /\ Len(rx_buffer) \in Nat \ {0} /\ Head(rx_buffer) \in Byte
      /\ Tail(rx_buffer) \in Seq(Byte) /\ Len(Tail(rx_buffer)) = Len(rx_buffer) - 1
  BY <1>1
<1>3. /\ Len(rx_buffer') = Len(rx_buffer) - 1 /\ sent' = sent
      /\ Len(sent) \in Nat
  BY <1>1, <1>2 DEF Takes
<1>4. Parsed \in Nat /\ Parsed + 1 <= Len(sent) /\ Parsed' = Parsed + 1
  BY <1>2, <1>3 DEF Parsed
<1> QED BY <1>1, <1>2, <1>3, <1>4 DEF Takes

(* Types; a byte of data only where there is room for it.                  *)
LEMMA ParseTyped ==
  ASSUME Typed, Replied, Room, Parse, Len(rx_buffer) <= Len(sent)
  PROVE  Typed' /\ Room' /\ UNCHANGED <<job, tx_frame, sent, hit>> /\ sent # <<>>
<1> DEFINE byte == Head(rx_buffer)
<1>t. /\ parser \in [state : ParserStates, crc : Uint16, data_length : Byte]
      /\ rx_frame \in FrameType
      /\ job \in Jobs /\ tx_frame \in Seq(Byte) /\ sent \in Seq(Byte)
      /\ hit \in 0 .. Len(sent)
  BY DEF Typed
<1>s. Len(sent) <= 8 /\ sent # <<>>
  <2>1. sent # <<>>
    BY TakeFacts DEF Parse, WaitSlave, WaitFunction, RefuseFunction, WaitAddress1,
       WaitAddress2, WaitLength, WaitData, WaitCrc1, WaitCrc2
  <2> QED BY <2>1, ShapeFacts
<1>u. \A b \in Byte : update_crc(parser.crc, b) \in Uint16
  BY <1>t, UpdateFacts
<1>r. /\ modbus_parser_reset \in [state : ParserStates, crc : Uint16, data_length : Byte]
      /\ modbus_parser_reset.state = "slave"
  BY Uint16Facts DEF modbus_parser_reset, ParserStates, Byte
<1>n. 0 \in Byte /\ 2 \in Byte
  BY DEF Byte
<1>w. \A b, c \in Byte : Word(b, c) \in Uint16 /\ b \in Uint16
  BY WordFacts
<1>k. ASSUME NEW state, Takes(state), parser' \in [state : ParserStates, crc : Uint16, data_length : Byte],
             rx_frame' \in FrameType, result' \in Results
      PROVE  Typed'
  BY <1>k, <1>t, TakeFacts DEF Typed
<1>1. CASE WaitSlave
  <2>1. Takes("slave")
    BY <1>1 DEF WaitSlave
  <2>2. rx_frame' \in FrameType /\ byte \in Byte
    BY <1>1, <1>t, <2>1, TakeFacts DEF WaitSlave, FrameType
  <2>3. CASE byte > 247
    BY <1>1, <1>k, <1>r, <2>1, <2>2, <2>3, TakeFacts DEF WaitSlave, Stops, Results, Room
  <2>4. CASE ~ (byte > 247)
    <3>1. /\ parser' = [parser EXCEPT !.state = "function", !.crc = update_crc(@, byte)]
          /\ result' = "incomplete"
      BY <1>1, <2>4 DEF WaitSlave, GoesOn
    <3>2. Parsed' >= 1
      BY <2>1, TakeFacts
    <3> QED BY <1>k, <1>t, <1>u, <2>1, <2>2, <3>1, <3>2, TakeFacts
            DEF ParserStates, Results, Room
  <2> QED BY <2>3, <2>4
<1>2. CASE WaitFunction
  <2>1. Takes("function") /\ result = "incomplete" /\ parser.state = "function" /\ byte \in Byte
    BY <1>2, TakeFacts DEF WaitFunction
  <2>2. rx_frame' \in FrameType /\ rx_frame'.data_size = 0
    BY <1>2, <1>t, <1>n, <2>1 DEF WaitFunction, FrameType
  <2>3. /\ parser' = [parser EXCEPT !.state = IF byte \in ReadFunctions THEN "length" ELSE "address_1",
                                    !.crc = update_crc(@, byte)]
        /\ result' = "incomplete"
    BY <1>2 DEF WaitFunction, GoesOn
  <2>4. Parsed' >= 2
    BY <2>1, TakeFacts DEF Room
  <2> QED BY <1>k, <1>t, <1>u, <2>1, <2>2, <2>3, <2>4, TakeFacts
          DEF ParserStates, Results, Room
<1>3. CASE RefuseFunction
  <2>1. Takes("function") /\ byte \in Byte
    BY <1>3, TakeFacts DEF RefuseFunction
  <2>2. rx_frame' \in FrameType
    BY <1>3, <1>t, <2>1 DEF RefuseFunction, FrameType
  <2>3. parser' = modbus_parser_reset /\ result' \in {"error_exception", "error_function"}
    BY <1>3 DEF RefuseFunction, Stops
  <2> QED BY <1>k, <1>r, <2>1, <2>2, <2>3, TakeFacts DEF Results, Room
<1>4. CASE WaitAddress1
  <2>1. Takes("address_1") /\ byte \in Byte /\ parser.state = "address_1" /\ result = "incomplete"
    BY <1>4, TakeFacts DEF WaitAddress1
  <2>2. rx_frame' \in FrameType /\ rx_frame'.data_size = rx_frame.data_size
    BY <1>4, <1>t, <2>1 DEF WaitAddress1, FrameType
  <2>3. /\ parser' = [parser EXCEPT !.state = "address_2", !.crc = update_crc(@, byte)]
        /\ result' = "incomplete"
    BY <1>4 DEF WaitAddress1, GoesOn
  <2>4. Parsed' >= 2 /\ rx_frame'.data_size = 0
    BY <2>1, <2>2, TakeFacts DEF Room
  <2> QED BY <1>k, <1>t, <1>u, <2>1, <2>2, <2>3, <2>4, TakeFacts
          DEF ParserStates, Results, Room
<1>5. CASE WaitAddress2
  <2>1. Takes("address_2") /\ byte \in Byte /\ parser.state = "address_2" /\ result = "incomplete"
    BY <1>5, TakeFacts DEF WaitAddress2
  <2>2. /\ parser' = [parser EXCEPT !.state = "data", !.data_length = 2,
                                    !.crc = update_crc(@, byte)]
        /\ result' = "incomplete" /\ rx_frame' = rx_frame
    BY <1>5 DEF WaitAddress2
  <2>3. Parsed' >= 3 + rx_frame'.data_size /\ rx_frame' \in FrameType
    BY <1>t, <2>1, <2>2, TakeFacts DEF Room
  <2> QED BY <1>k, <1>t, <1>u, <1>n, <2>1, <2>2, <2>3, TakeFacts
          DEF ParserStates, Results, Room
<1>6. CASE WaitLength
  <2>1. Takes("length") /\ byte \in Byte /\ parser.state = "length" /\ result = "incomplete"
    BY <1>6, TakeFacts DEF WaitLength
  <2>2. /\ parser' = [parser EXCEPT !.state = "data", !.data_length = byte,
                                    !.crc = update_crc(@, byte)]
        /\ result' = "incomplete"
        /\ rx_frame' = [rx_frame EXCEPT !.data_size = 0, !.data = [i \in 0 .. 7 |-> 0]]
    BY <1>6 DEF WaitLength
  <2>3. rx_frame' \in FrameType /\ rx_frame'.data_size = 0
    BY <1>t, <1>n, <2>2 DEF FrameType
  <2>4. Parsed' >= 3 + rx_frame'.data_size
    BY <2>1, <2>3, TakeFacts DEF Room
  <2> QED BY <1>k, <1>t, <1>u, <2>1, <2>2, <2>3, <2>4, TakeFacts
          DEF ParserStates, Results, Room
<1>7. CASE WaitData
  <2>1. Takes("data") /\ byte \in Byte /\ parser.state = "data" /\ result = "incomplete"
    BY <1>7, TakeFacts DEF WaitData
  <2>2. /\ rx_frame' = [rx_frame EXCEPT !.data[rx_frame.data_size] = byte,
                                        !.data_size = (@ + 1) % 256]
        /\ result' = "incomplete"
        /\ \E state \in {"crc1", "data"} :
             parser' = [parser EXCEPT !.state = state, !.crc = update_crc(@, byte)]
    BY <1>7 DEF WaitData, GoesOn, modbus_frame_add_data
  <2>3. /\ rx_frame.data_size \in Nat /\ rx_frame.data_size <= 4
        /\ Parsed >= 3 + rx_frame.data_size
    <3>1. rx_frame.data_size \in Nat
      <4>1. rx_frame.data_size \in Byte
        BY <1>t DEF FrameType
      <4>2. \A b \in Byte : b \in Nat
        BY DEF Byte
      <4> QED BY <4>1, <4>2, Zenon
    <3>2. Parsed >= 3 + rx_frame.data_size
      BY <2>1 DEF Room
    <3>3. Parsed \in Nat /\ Parsed + 1 <= 8
      BY <1>s, <1>t, <2>1, TakeFacts
    <3> QED BY <3>1, <3>2, <3>3
  <2>4. /\ rx_frame.data_size \in 0 .. 7 /\ (rx_frame.data_size + 1) % 256 = rx_frame.data_size + 1
        /\ rx_frame.data_size + 1 \in Byte
    <3>1. \A n \in Nat : n <= 4 => n \in 0 .. 7 /\ (n + 1) % 256 = n + 1 /\ n + 1 \in Byte
      BY DEF Byte
    <3> QED BY <2>3, <3>1, Zenon
  <2>5. rx_frame' \in FrameType /\ rx_frame'.data_size = rx_frame.data_size + 1
    BY <1>t, <2>1, <2>2, <2>4 DEF FrameType
  <2>6. Parsed' >= 3 + rx_frame'.data_size
    BY <2>1, <2>3, <2>5, TakeFacts
  <2> QED BY <1>k, <1>t, <1>u, <2>1, <2>2, <2>5, <2>6, TakeFacts
          DEF ParserStates, Results, Room
<1>8. CASE WaitCrc1
  <2>1. Takes("crc1") /\ byte \in Byte
    BY <1>8, TakeFacts DEF WaitCrc1
  <2>2. rx_frame' \in FrameType
    BY <1>8, <1>t, <1>w, <2>1 DEF WaitCrc1, FrameType
  <2>3. /\ parser' = [parser EXCEPT !.state = "crc2"] /\ result' = "incomplete"
        /\ rx_frame'.crc \in Byte
    BY <1>8, <1>t, <2>1 DEF WaitCrc1, FrameType
  <2> QED BY <1>k, <1>t, <2>1, <2>2, <2>3, TakeFacts DEF ParserStates, Results, Room
<1>9. CASE WaitCrc2
  <2>1. Takes("crc2") /\ byte \in Byte
    BY <1>9, TakeFacts DEF WaitCrc2
  <2>2. rx_frame' \in FrameType
    <3>1. rx_frame.crc \in Byte
      BY <2>1, TakeFacts DEF Room
    <3>2. Word(byte, rx_frame.crc) \in Uint16
      BY <1>w, <2>1, <3>1
    <3> QED BY <1>9, <1>t, <3>2 DEF WaitCrc2, FrameType
  <2>3. parser' = modbus_parser_reset /\ result' \in {"complete", "error_crc"}
    BY <1>9 DEF WaitCrc2, Stops
  <2> QED BY <1>k, <1>r, <2>1, <2>2, <2>3, TakeFacts DEF Results, Room
<1> QED BY <1>1, <1>2, <1>3, <1>4, <1>5, <1>6, <1>7, <1>8, <1>9, <1>s, TakeFacts DEF Parse

(* Noise changes one byte of what arrives.                                 *)
LEMMA ArrivalFacts ==
  ASSUME Typed, NEW arrived \in Arrivals
  PROVE  /\ arrived \in Seq(Byte) /\ Len(arrived) = Len(sent)
         /\ \A k \in 1 .. Len(sent) : k # hit => arrived[k] = sent[k]
         /\ hit = 0 => arrived = sent
         /\ hit # 0 => hit \in 1 .. Len(sent) /\ arrived[hit] # sent[hit]
<1>1. sent \in Seq(Byte) /\ hit \in 0 .. Len(sent)
  BY DEF Typed
<1>2. CASE hit = 0
  BY <1>1, <1>2 DEF Arrivals
<1>3. CASE hit # 0
  <2>1. hit \in 1 .. Len(sent)
    BY <1>1, <1>3
  <2>2. PICK flip \in Flips : arrived = [sent EXCEPT ![hit] = XorByte[@][flip]]
    BY <1>3 DEF Arrivals
  <2>3. sent[hit] \in Byte /\ flip \in Byte /\ flip # 0
    BY <1>1, <2>1, CodecAssumption
  <2>4. XorByte[sent[hit]][flip] \in Byte /\ XorByte[sent[hit]][flip] # sent[hit]
    <3>1. XorByte[sent[hit]][flip] \in Byte
      BY <2>3, XorFacts
    <3>2. ASSUME NEW a \in Byte, NEW b \in Byte, b # 0 PROVE XorByte[a][b] # a
      <4>1. XorByte[XorByte[a][b]][a] = b /\ XorByte[a][a] = 0
        BY XorFacts
      <4> QED BY <3>2, <4>1
    <3> QED BY <2>3, <3>1, <3>2
  <2>5. arrived \in Seq(Byte) /\ Len(arrived) = Len(sent)
    BY <1>1, <2>1, <2>2, <2>4
  <2>6. arrived[hit] # sent[hit] /\ \A k \in 1 .. Len(sent) : k # hit => arrived[k] = sent[k]
    BY <1>1, <2>1, <2>2, <2>4
  <2> QED BY <1>3, <2>1, <2>5, <2>6
<1> QED BY <1>2, <1>3

(* The byte that is taken is the next one that arrived.                    *)
LEMMA NextByte ==
  ASSUME Typed, Replied, Room, NEW arrived \in Arrivals, Rest(arrived),
         NEW state, Takes(state)
  PROVE  /\ Head(rx_buffer) = arrived[Parsed + 1] /\ Rest(arrived)'
         /\ Arrivals' = Arrivals /\ (FramingHit' <=> FramingHit)
         /\ Start' = Start /\ Body' = Body /\ (ExceptionReply' <=> ExceptionReply)
<1>1. /\ sent' = sent /\ hit' = hit /\ job' = job
      /\ Parsed \in Nat /\ Parsed' = Parsed + 1
      /\ Len(rx_buffer') = Len(rx_buffer) - 1
      /\ Len(rx_buffer) <= Len(sent)
  BY TakeFacts DEF Rest
<1>2. /\ rx_buffer \in Seq(Byte) /\ rx_buffer # <<>> /\ rx_buffer' = Tail(rx_buffer)
      /\ sent \in Seq(Byte)
  BY DEF Takes, Typed
<1>3. /\ Len(rx_buffer) \in Nat \ {0} /\ Len(sent) \in Nat /\ Head(rx_buffer) = rx_buffer[1]
      /\ \A k \in 1 .. Len(rx_buffer) - 1 : Tail(rx_buffer)[k] = rx_buffer[k + 1]
  BY <1>2
<1>4. Head(rx_buffer) = arrived[Parsed + 1]
  BY <1>3 DEF Rest
<1>5. \A k \in 1 .. Len(rx_buffer') : rx_buffer'[k] = arrived[Parsed' + k]
  <2> SUFFICES ASSUME NEW k \in 1 .. Len(rx_buffer') PROVE rx_buffer'[k] = arrived[Parsed' + k]
    OBVIOUS
  <2>1. k \in 1 .. Len(rx_buffer) - 1 /\ k + 1 \in 1 .. Len(rx_buffer)
        /\ Parsed + (k + 1) = Parsed' + k
    BY <1>1, <1>3
  <2>2. rx_buffer'[k] = rx_buffer[k + 1]
    BY <1>2, <1>3, <2>1
  <2> QED BY <2>1, <2>2 DEF Rest
<1>6. Rest(arrived)'
  BY <1>1, <1>3, <1>5 DEF Rest
<1> QED BY <1>1, <1>4, <1>6 DEF Arrivals, FramingHit, Start, Body, ExceptionReply

(* What the parser knows when it takes the byte.                           *)
LEMMA TakingFacts ==
  ASSUME Typed, Replied, Room, NEW arrived \in Arrivals, Rest(arrived),
         ~ FramingHit, InFrame(arrived), NEW state, Takes(state)
  PROVE  /\ Going(arrived) /\ Expects(state, Parsed)
         /\ Parsed + 1 < Body + 3
         /\ arrived[2] = sent[2] /\ (Start = 3 => arrived[3] = sent[3])
         /\ ~ ExceptionReply => Start < Body
         /\ Parsed < Body =>
              update_crc(parser.crc, Head(rx_buffer)) = crc_after(arrived)[Parsed + 1]
<1>1. /\ sent # <<>> /\ result = "incomplete" /\ parser.state = state
      /\ Parsed \in Nat /\ Parsed + 1 <= Len(sent)
  BY TakeFacts DEF Rest
<1>2. Going(arrived) /\ Expects(state, Parsed)
  BY <1>1 DEF InFrame, Going
<1>3. /\ Len(sent) \in Nat /\ 5 <= Len(sent) /\ Body \in Nat /\ Len(sent) = Body + 2
      /\ ~ ExceptionReply => Start < Body
  BY <1>1, ShapeFacts
<1>4. arrived[2] = sent[2] /\ (Start = 3 => arrived[3] = sent[3])
  <2>1. 2 \in 1 .. Len(sent) /\ 3 \in 1 .. Len(sent)
    BY <1>3
  <2>2. hit # 2 /\ (Start = 3 => hit # 3)
    BY DEF FramingHit, Start
  <2> QED BY <2>1, <2>2, ArrivalFacts
<1>5. ASSUME Parsed < Body
      PROVE  update_crc(parser.crc, Head(rx_buffer)) = crc_after(arrived)[Parsed + 1]
  <2>1. parser.crc = crc_after(arrived)[Parsed]
    BY <1>2, <1>5 DEF Going
  <2>2. Head(rx_buffer) = arrived[Parsed + 1]
    BY NextByte
  <2>3. Parsed + 1 \in 1 .. Len(arrived) /\ (Parsed + 1) - 1 = Parsed
    BY <1>1, ArrivalFacts
  <2>4. arrived \in Seq(Byte)
    BY ArrivalFacts
  <2>5. crc_after(arrived)[Parsed + 1]
          = update_crc(crc_after(arrived)[(Parsed + 1) - 1], arrived[Parsed + 1])
    BY <2>3, <2>4, CrcAfter
  <2> QED BY <2>1, <2>2, <2>3, <2>5
<1>6. Parsed + 1 < Body + 3
  BY <1>1, <1>3
<1> QED BY <1>2, <1>3, <1>4, <1>5, <1>6

(* A byte that goes on: the state, the CRC and the frame follow.           *)
LEMMA GoesOnFollows ==
  ASSUME Typed, Replied, Room, NEW arrived \in Arrivals, Rest(arrived),
         ~ FramingHit, InFrame(arrived), NEW state, Takes(state),
         Parsed < Body, parser'.crc = update_crc(parser.crc, Head(rx_buffer)),
         result' = "incomplete", ExceptionReply => Parsed = 0,
         Expects(parser.state, Parsed)',
         parser'.state = "data" => parser'.data_length = Body - Start,
         parser'.state # "crc2",
         Holds(arrived, Parsed)'
  PROVE  InFrame(arrived)'
<1>1. /\ Parsed \in Nat /\ Parsed' = Parsed + 1 /\ sent # <<>>
  BY TakeFacts DEF Rest
<1>2. Body \in Nat
  BY <1>1, ShapeFacts
<1>3. /\ Body' = Body /\ Start' = Start /\ (ExceptionReply' <=> ExceptionReply)
  BY NextByte
<1>4. parser'.crc = crc_after(arrived)[Parsed']
  BY <1>1, TakingFacts
<1>5. (IF Parsed' < Body' THEN Parsed' ELSE Body') = Parsed'
  BY <1>1, <1>2, <1>3
<1>6. ExceptionReply' => Parsed' <= 1
  BY <1>1, <1>3
<1>7. parser'.crc = crc_after(arrived)[IF Parsed' < Body' THEN Parsed' ELSE Body']
  BY <1>4, <1>5
<1>8. parser'.state = "data" => parser'.data_length = Body' - Start'
  BY <1>3
<1>9. Going(arrived)'
  BY <1>6, <1>7, <1>8 DEF Going
<1> QED BY <1>9 DEF InFrame

(* So, with one step of the parser, it goes on following what arrived.     *)
LEMMA ParseFollows ==
  ASSUME Typed, Replied, Room, NEW arrived \in Arrivals, Rest(arrived),
         ~ FramingHit, InFrame(arrived), Parse
  PROVE  InFrame(arrived)'
<1> DEFINE byte == Head(rx_buffer)
<1>s. sent # <<>> /\ Len(rx_buffer) <= Len(sent)
  BY ParseTyped DEF Rest
<1>b. /\ Body \in Nat /\ Start \in {3, 4} /\ Len(sent) = Body + 2 /\ 3 <= Body /\ Body <= 6
      /\ ReadReply \/ WriteReply \/ ExceptionReply
      /\ ReadReply => ~ ExceptionReply /\ Start = 3 /\ Body = 3 + sent[3]
      /\ WriteReply => ~ ExceptionReply /\ Start = 4 /\ Body = 6
      /\ ExceptionReply => Start = 4 /\ Body = 3 /\ sent[2] \in {129, 131, 133, 144}
      /\ ~ ExceptionReply => Start < Body
  BY <1>s, ShapeFacts
<1>f. ReadFunctions = {1, 3} /\ WriteFunctions = {5, 16}
  BY DEF ReadFunctions, WriteFunctions, READ_COILS, READ_HOLDING_REGISTERS,
     WRITE_SINGLE_COIL, WRITE_HOLDING_REGISTERS
<1>a. /\ job.function \in {1, 3, 5, 16} /\ job.slave \in 1 .. 247
      /\ sent[1] = job.slave /\ Sealing(sent)
  BY <1>s, JobFacts DEF Typed, Replied
<1>v. ~ ExceptionReply => sent[2] = job.function
  BY <1>b DEF ReadReply, WriteReply
<1>x. ASSUME NEW state, Takes(state)
      PROVE  /\ Going(arrived) /\ Expects(state, Parsed) /\ parser.state = state
             /\ Parsed \in Nat /\ Parsed' = Parsed + 1 /\ Parsed + 1 <= Len(sent)
             /\ byte = arrived[Parsed + 1] /\ byte \in Byte
             /\ arrived[2] = sent[2] /\ (Start = 3 => arrived[3] = sent[3])
             /\ Start' = Start /\ Body' = Body /\ (ExceptionReply' <=> ExceptionReply)
             /\ hit' = hit /\ sent' = sent
  BY <1>s, <1>x, TakeFacts, TakingFacts, NextByte
<1>1. CASE WaitSlave
  <2>1. Takes("slave")
    BY <1>1 DEF WaitSlave
  <2>2. Parsed = 0 /\ Parsed' = 1 /\ byte = arrived[1] /\ byte \in Byte
    BY <1>x, <2>1 DEF Expects
  <2>3. CASE byte > 247
    <3>1. result' = "error_slave"
      BY <1>1, <2>3 DEF WaitSlave, Stops
    <3>2. hit # 0
      <4>1. SUFFICES ASSUME hit = 0 PROVE FALSE
        OBVIOUS
      <4>2. byte = job.slave
        BY <1>a, <2>2, <4>1, ArrivalFacts
      <4>3. \A n \in 1 .. 247 : ~ (n > 247)
        OBVIOUS
      <4> QED BY <1>a, <2>3, <4>2, <4>3, Zenon
    <3> QED BY <1>x, <2>1, <3>1, <3>2 DEF InFrame
  <2>4. CASE ~ (byte > 247)
    <3>1. /\ parser' = [parser EXCEPT !.state = "function", !.crc = update_crc(@, byte)]
          /\ result' = "incomplete" /\ rx_frame' = [rx_frame EXCEPT !.slave = byte]
      BY <1>1, <2>4 DEF WaitSlave, GoesOn
    <3>2. /\ parser'.state = "function" /\ parser'.crc = update_crc(parser.crc, byte)
          /\ rx_frame'.slave = byte
      BY <3>1 DEF Typed, FrameType
    <3>3. Expects(parser.state, Parsed)'
      BY <2>2, <3>2 DEF Expects
    <3>4. Holds(arrived, Parsed)'
      BY <1>b, <1>x, <2>1, <2>2, <3>2 DEF Holds
    <3> QED BY <1>b, <2>1, <2>2, <3>1, <3>2, <3>3, <3>4, GoesOnFollows
  <2> QED BY <2>3, <2>4
<1>2. CASE WaitFunction
  <2>1. Takes("function") /\ is_valid_modbus_function(byte)
    BY <1>2 DEF WaitFunction
  <2>2. Parsed = 1 /\ Parsed' = 2 /\ byte = arrived[2] /\ byte = sent[2]
    BY <1>x, <2>1 DEF Expects
  <2>3. ~ ExceptionReply
    BY <1>b, <2>1, <2>2 DEF is_valid_modbus_function
  <2>4. /\ parser' = [parser EXCEPT !.state = IF byte \in ReadFunctions THEN "length" ELSE "address_1",
                                    !.crc = update_crc(@, byte)]
        /\ result' = "incomplete"
        /\ rx_frame' = [rx_frame EXCEPT !.function_code = byte, !.data_size = 0]
    BY <1>2 DEF WaitFunction, GoesOn
  <2>5. /\ parser'.state = IF byte \in ReadFunctions THEN "length" ELSE "address_1"
        /\ parser'.crc = update_crc(parser.crc, byte)
        /\ rx_frame'.slave = rx_frame.slave /\ rx_frame'.function_code = byte
    BY <2>4 DEF Typed, FrameType
  <2>6. Expects(parser.state, Parsed)'
    BY <1>x, <2>1, <2>2, <2>5 DEF Expects, Start
  <2>7. rx_frame.slave = arrived[1]
    BY <1>x, <2>1, <2>2 DEF Going, Holds
  <2>8. Holds(arrived, Parsed)'
    BY <1>b, <1>x, <2>1, <2>2, <2>5, <2>7 DEF Holds
  <2>9. parser'.state # "data" /\ parser'.state # "crc2"
    BY <2>5
  <2> QED BY <1>b, <2>1, <2>2, <2>3, <2>4, <2>5, <2>6, <2>8, <2>9, GoesOnFollows
<1>3. CASE RefuseFunction
  <2>1. Takes("function") /\ ~ is_valid_modbus_function(byte)
    BY <1>3 DEF RefuseFunction
  <2>2. Parsed = 1 /\ byte = sent[2]
    BY <1>x, <2>1 DEF Expects
  <2>3. result' \in {"error_exception", "error_function"}
    BY <1>3 DEF RefuseFunction, Stops
  <2>4. ExceptionReply
    BY <1>a, <1>v, <2>1, <2>2 DEF is_valid_modbus_function
  <2> QED BY <1>x, <2>1, <2>3, <2>4 DEF InFrame
<1>4. CASE WaitAddress1
  <2>1. Takes("address_1")
    BY <1>4 DEF WaitAddress1
  <2>2. Parsed = 2 /\ Parsed' = 3 /\ Start = 4
    BY <1>x, <2>1 DEF Expects
  <2>3. ~ ExceptionReply
    BY <1>x, <2>1, <2>2 DEF Going
  <2>4. /\ parser' = [parser EXCEPT !.state = "address_2", !.crc = update_crc(@, byte)]
        /\ result' = "incomplete" /\ rx_frame' = [rx_frame EXCEPT !.address = byte]
    BY <1>4 DEF WaitAddress1, GoesOn
  <2>5. /\ parser'.state = "address_2" /\ parser'.crc = update_crc(parser.crc, byte)
        /\ rx_frame'.slave = rx_frame.slave
        /\ rx_frame'.function_code = rx_frame.function_code
    BY <2>4 DEF Typed, FrameType
  <2>6. Expects(parser.state, Parsed)'
    BY <1>x, <2>1, <2>2, <2>5 DEF Expects
  <2>7. rx_frame.slave = arrived[1] /\ rx_frame.function_code = arrived[2]
    BY <1>x, <2>1, <2>2 DEF Going, Holds
  <2>8. Holds(arrived, Parsed)'
    BY <1>x, <2>1, <2>2, <2>5, <2>7 DEF Holds
  <2> QED BY <1>b, <2>1, <2>2, <2>3, <2>4, <2>5, <2>6, <2>8, GoesOnFollows
<1>5. CASE WaitAddress2
  <2>1. Takes("address_2") /\ result = "incomplete"
    BY <1>5 DEF WaitAddress2, Takes
  <2>2. Parsed = 3 /\ Parsed' = 4 /\ Start = 4
    BY <1>x, <2>1 DEF Expects
  <2>3. ~ ExceptionReply /\ Body = 6
    BY <1>b, <1>x, <2>1, <2>2 DEF Going
  <2>4. /\ parser' = [parser EXCEPT !.state = "data", !.data_length = 2,
                                    !.crc = update_crc(@, byte)]
        /\ result' = "incomplete" /\ rx_frame' = rx_frame
    BY <1>5 DEF WaitAddress2
  <2>5. /\ parser'.state = "data" /\ parser'.crc = update_crc(parser.crc, byte)
        /\ parser'.data_length = 2
    BY <2>4 DEF Typed
  <2>6. Expects(parser.state, Parsed)'
    BY <1>x, <2>1, <2>2, <2>3, <2>5 DEF Expects
  <2>7. rx_frame.slave = arrived[1] /\ rx_frame.function_code = arrived[2]
    BY <1>x, <2>1, <2>2 DEF Going, Holds
  <2>8. rx_frame.data_size = 0
    BY <1>x, <2>1 DEF Room
  <2>9. Holds(arrived, Parsed)'
    BY <1>x, <2>1, <2>2, <2>3, <2>4, <2>7, <2>8 DEF Holds
  <2>10. parser'.data_length = Body - Start /\ Parsed < Body
    BY <2>2, <2>3, <2>5
  <2> QED BY <2>1, <2>3, <2>4, <2>5, <2>6, <2>9, <2>10, GoesOnFollows
<1>6. CASE WaitLength
  <2>1. Takes("length")
    BY <1>6 DEF WaitLength
  <2>2. Parsed = 2 /\ Parsed' = 3 /\ Start = 3 /\ byte = sent[3]
    BY <1>x, <2>1 DEF Expects
  <2>3. ReadReply /\ ~ ExceptionReply /\ Body = 3 + byte /\ 3 < Body
    BY <1>b, <2>2
  <2>4. /\ parser' = [parser EXCEPT !.state = "data", !.data_length = byte,
                                    !.crc = update_crc(@, byte)]
        /\ result' = "incomplete"
        /\ rx_frame' = [rx_frame EXCEPT !.data_size = 0, !.data = [i \in 0 .. 7 |-> 0]]
    BY <1>6 DEF WaitLength
  <2>5. /\ parser'.state = "data" /\ parser'.crc = update_crc(parser.crc, byte)
        /\ parser'.data_length = byte
        /\ rx_frame'.slave = rx_frame.slave
        /\ rx_frame'.function_code = rx_frame.function_code
        /\ rx_frame'.data_size = 0 /\ rx_frame'.data = [i \in 0 .. 7 |-> 0]
    BY <2>4 DEF Typed, FrameType
  <2>6. Expects(parser.state, Parsed)'
    BY <1>x, <2>1, <2>2, <2>3, <2>5 DEF Expects
  <2>7. rx_frame.slave = arrived[1] /\ rx_frame.function_code = arrived[2]
    BY <1>x, <2>1, <2>2 DEF Going, Holds
  <2>8. Holds(arrived, Parsed)'
    BY <1>x, <2>1, <2>2, <2>3, <2>5, <2>7 DEF Holds
  <2>9. parser'.data_length = Body - Start /\ Parsed < Body
    <3>1. byte \in Nat
      <4>1. byte \in Byte
        BY <1>x, <2>1
      <4>2. \A b \in Byte : b \in Nat
        BY DEF Byte
      <4> QED BY <4>1, <4>2, Zenon
    <3> HIDE DEF byte
    <3>2. Body - Start = byte /\ Parsed < Body
      BY <2>2, <2>3, <3>1
    <3> QED BY <2>5, <3>2
  <2> QED BY <2>1, <2>3, <2>4, <2>5, <2>6, <2>8, <2>9, GoesOnFollows
<1>7. CASE WaitData
  <2> DEFINE size == rx_frame.data_size
  <2>1. Takes("data")
    BY <1>7 DEF WaitData
  <2>2. Start <= Parsed /\ Parsed < Body /\ Parsed' = Parsed + 1
    BY <1>x, <2>1 DEF Expects
  <2>3. ~ ExceptionReply
    BY <1>b, <1>x, <2>1, <2>2 DEF Going
  <2>4. /\ rx_frame.slave = arrived[1] /\ rx_frame.function_code = arrived[2]
        /\ size = Parsed - Start
        /\ Start = 3 => \A k \in 0 .. 7 : rx_frame.data[k] =
             IF k + 3 < Parsed /\ k + 3 < Body THEN arrived[k + 4] ELSE 0
    BY <1>b, <1>x, <2>1, <2>2 DEF Going, Holds
  <2>5. /\ size \in 0 .. 7 /\ (size + 1) % 256 = size + 1 /\ size + 1 = Parsed' - Start
    BY <1>b, <1>x, <2>1, <2>2, <2>4
  <2>6. parser.data_length = Body - Start
    BY <1>x, <2>1 DEF Going
  <2>7. /\ rx_frame' = [rx_frame EXCEPT !.data[size] = byte, !.data_size = (@ + 1) % 256]
        /\ parser' = [parser EXCEPT
             !.state = IF rx_frame'.data_size = parser.data_length THEN "crc1" ELSE "data",
             !.crc = update_crc(@, byte)]
        /\ result' = "incomplete"
    BY <1>7 DEF WaitData, GoesOn, modbus_frame_add_data
  <2>8. /\ rx_frame'.slave = rx_frame.slave
        /\ rx_frame'.function_code = rx_frame.function_code
        /\ rx_frame'.data_size = Parsed' - Start
        /\ rx_frame'.data = [rx_frame.data EXCEPT ![size] = byte]
    BY <2>5, <2>7 DEF Typed, FrameType
  <2>9. /\ parser'.state = IF rx_frame'.data_size = parser.data_length THEN "crc1" ELSE "data"
        /\ parser'.crc = update_crc(parser.crc, byte)
        /\ parser'.data_length = parser.data_length
    BY <2>7 DEF Typed
  <2> HIDE DEF size
  <2>10. rx_frame'.data_size = parser.data_length <=> Parsed' = Body
    BY <1>b, <1>x, <2>1, <2>2, <2>6, <2>8
  <2>11. Expects(parser.state, Parsed)'
    <3>1. /\ Start' = Start /\ Body' = Body /\ Start <= Parsed' /\ Parsed' <= Body
          /\ Parsed' = Body \/ Parsed' < Body
      BY <1>b, <1>x, <2>1, <2>2
    <3> QED BY <2>9, <2>10, <3>1 DEF Expects
  <2>12. ASSUME Start = 3, NEW k \in 0 .. 7
         PROVE  rx_frame'.data[k] = IF k + 3 < Parsed' /\ k + 3 < Body THEN arrived[k + 4] ELSE 0
    <3>1. rx_frame.data \in [0 .. 7 -> Byte]
      BY DEF Typed, FrameType
    <3>2. rx_frame'.data[k] = IF k = size THEN byte ELSE rx_frame.data[k]
      BY <2>8, <3>1
    <3>3. CASE k = size
      <4>1. k + 4 = Parsed + 1 /\ k + 3 < Parsed' /\ k + 3 < Body
        BY <1>b, <1>x, <2>1, <2>2, <2>5, <2>12, <3>3
      <4> QED BY <1>x, <2>1, <3>2, <3>3, <4>1
    <3>4. CASE k # size
      <4>1. k + 3 < Parsed' <=> k + 3 < Parsed
        BY <1>x, <2>1, <2>2, <2>5, <2>12, <3>4
      <4> QED BY <2>4, <2>12, <3>2, <3>4, <4>1
    <3> QED BY <3>3, <3>4
  <2>13. Holds(arrived, Parsed)'
    <3>1. (IF Parsed' < Body THEN Parsed' ELSE Body) = Parsed'
      BY <1>b, <1>x, <2>1, <2>2
    <3> QED BY <1>x, <2>1, <2>4, <2>8, <2>12, <3>1 DEF Holds
  <2>14. parser'.state # "crc2" /\ parser'.data_length = Body - Start
    BY <2>6, <2>9
  <2> QED BY <2>1, <2>2, <2>3, <2>7, <2>9, <2>11, <2>13, <2>14, GoesOnFollows
<1>8. CASE WaitCrc1
  <2>1. Takes("crc1")
    BY <1>8 DEF WaitCrc1
  <2>2. Parsed = Body /\ Parsed' = Body + 1
    BY <1>x, <2>1 DEF Expects
  <2>3. ~ ExceptionReply /\ Start < Body
    BY <1>b, <1>x, <2>1, <2>2 DEF Going
  <2>4. /\ parser' = [parser EXCEPT !.state = "crc2"] /\ result' = "incomplete"
        /\ rx_frame' = [rx_frame EXCEPT !.crc = byte]
    BY <1>8 DEF WaitCrc1
  <2>5. /\ parser'.state = "crc2" /\ parser'.crc = parser.crc
        /\ rx_frame'.slave = rx_frame.slave
        /\ rx_frame'.function_code = rx_frame.function_code
        /\ rx_frame'.data_size = rx_frame.data_size /\ rx_frame'.data = rx_frame.data
        /\ rx_frame'.crc = byte
    BY <2>4 DEF Typed, FrameType
  <2>6. Expects(parser.state, Parsed)'
    BY <1>x, <2>1, <2>2, <2>5 DEF Expects
  <2>7. parser'.crc = crc_after(arrived)[IF Parsed' < Body THEN Parsed' ELSE Body]
    <3>1. parser.crc = crc_after(arrived)[IF Parsed < Body THEN Parsed ELSE Body]
      BY <1>x, <2>1 DEF Going
    <3>2. ~ (Parsed < Body) /\ ~ (Parsed' < Body)
      BY <1>b, <2>2
    <3> QED BY <2>5, <3>1, <3>2
  <2>8. rx_frame'.crc = arrived[Body + 1]
    BY <1>x, <2>1, <2>2, <2>5
  <2>9. Holds(arrived, Parsed)'
    <3>1. Holds(arrived, Parsed)
      BY <1>x, <2>1 DEF Going
    <3>2. \A k \in 0 .. 7 :
            (k + 3 < Parsed' /\ k + 3 < Body) <=> (k + 3 < Parsed /\ k + 3 < Body)
      BY <1>b, <2>2
    <3>3. /\ ~ (Parsed < Body) /\ ~ (Parsed' < Body)
          /\ Parsed >= 1 /\ Parsed >= 2 /\ Parsed >= 3 /\ Parsed >= Start
      BY <1>b, <2>2, <2>3
    <3> QED BY <1>x, <2>1, <2>5, <3>1, <3>2, <3>3 DEF Holds
  <2>10. Going(arrived)'
    BY <1>x, <2>1, <2>3, <2>5, <2>6, <2>7, <2>8, <2>9 DEF Going
  <2> QED BY <2>4, <2>10 DEF InFrame
<1>9. CASE WaitCrc2
  <2>1. Takes("crc2")
    BY <1>9 DEF WaitCrc2
  <2>2. Parsed = Body + 1 /\ Parsed' = Body + 2 /\ Parsed' = Len(sent)
    BY <1>b, <1>x, <2>1 DEF Expects
  <2>3. ~ ExceptionReply /\ Start < Body
    BY <1>b, <1>x, <2>1, <2>2 DEF Going
  <2>4. /\ rx_frame' = [rx_frame EXCEPT !.crc = Word(byte, @)]
        /\ result' = IF parser.crc = rx_frame'.crc THEN "complete" ELSE "error_crc"
    BY <1>9 DEF WaitCrc2, Stops
  <2>5. /\ rx_frame'.slave = rx_frame.slave
        /\ rx_frame'.function_code = rx_frame.function_code
        /\ rx_frame'.data_size = rx_frame.data_size /\ rx_frame'.data = rx_frame.data
        /\ rx_frame'.crc = Word(byte, rx_frame.crc)
    BY <2>4 DEF Typed, FrameType
  <2>6. parser.crc = crc_after(arrived)[Body]
    <3>1. parser.crc = crc_after(arrived)[IF Parsed < Body THEN Parsed ELSE Body]
      BY <1>x, <2>1 DEF Going
    <3>2. ~ (Parsed < Body)
      BY <1>b, <2>2
    <3> QED BY <3>1, <3>2
  <2>7. byte = arrived[Body + 2] /\ rx_frame.crc = arrived[Body + 1]
    <3>1. Parsed + 1 = Body + 2
      BY <1>b, <2>2
    <3> QED BY <1>x, <2>1, <3>1 DEF Going
  <2>8. Sealing(arrived) <=> parser.crc = rx_frame'.crc
    <3>1. Len(arrived) = Body + 2 /\ Len(arrived) - 2 = Body /\ Len(arrived) - 1 = Body + 1
      BY <1>b, ArrivalFacts
    <3> QED BY <2>5, <2>6, <2>7, <3>1 DEF Sealing
  <2>9. Holds(arrived, Len(sent))'
    <3>1. Holds(arrived, Parsed)
      BY <1>x, <2>1 DEF Going
    <3>2. \A k \in 0 .. 7 :
            (k + 3 < Len(sent) /\ k + 3 < Body) <=> (k + 3 < Parsed /\ k + 3 < Body)
      BY <1>b, <2>2
    <3>3. /\ ~ (Parsed < Body) /\ ~ (Len(sent) < Body)
          /\ Parsed >= 1 /\ Parsed >= 2 /\ Parsed >= 3 /\ Parsed >= Start
      BY <1>b, <2>2, <2>3
    <3> QED BY <1>x, <2>1, <2>5, <3>1, <3>2, <3>3 DEF Holds
  <2>10. CASE parser.crc = rx_frame'.crc
    <3>1. Ended(arrived)'
      BY <1>x, <2>1, <2>2, <2>3, <2>8, <2>9, <2>10 DEF Ended
    <3> QED BY <2>4, <2>10, <3>1 DEF InFrame
  <2>11. CASE parser.crc # rx_frame'.crc
    <3>1. hit # 0
      BY <1>a, <2>8, <2>11, ArrivalFacts
    <3> QED BY <1>x, <2>1, <2>4, <2>11, <3>1 DEF InFrame
  <2> QED BY <2>10, <2>11
<1> QED BY <1>1, <1>2, <1>3, <1>4, <1>5, <1>6, <1>7, <1>8, <1>9 DEF Parse

(* A step of the parser keeps the invariant.                               *)
LEMMA ParseNext ==
  ASSUME Inv, Parse
  PROVE  Inv'
<1>1. Typed /\ Requested /\ Replied /\ Room /\ Following
  BY DEF Inv
<1>2. sent # <<>>
  BY <1>1, TakeFacts DEF Parse, WaitSlave, WaitFunction, RefuseFunction, WaitAddress1,
     WaitAddress2, WaitLength, WaitData, WaitCrc1, WaitCrc2, Takes, Replied
<1>3. PICK arrived \in Arrivals : Rest(arrived) /\ (~ FramingHit => InFrame(arrived))
  BY <1>1, <1>2 DEF Following
<1>4. Len(rx_buffer) <= Len(sent)
  BY <1>3 DEF Rest
<1>5. Typed' /\ Room' /\ UNCHANGED <<job, tx_frame, sent, hit>>
  BY <1>1, <1>4, ParseTyped
<1>6. Requested'
  BY <1>1, <1>5 DEF Requested, Heard
<1>7. Replied'
  BY <1>1, <1>2, <1>5 DEF Replied, ReadReply, WriteReply, ExceptionReply, Sealing
<1>8. PICK state : Takes(state)
  BY DEF Parse, WaitSlave, WaitFunction, RefuseFunction, WaitAddress1,
     WaitAddress2, WaitLength, WaitData, WaitCrc1, WaitCrc2
<1>9. Rest(arrived)' /\ Arrivals' = Arrivals /\ (FramingHit' <=> FramingHit)
  BY <1>1, <1>3, <1>8, NextByte
<1>10. ~ FramingHit => InFrame(arrived)'
  BY <1>1, <1>3, ParseFollows
<1>11. Following'
  BY <1>3, <1>9, <1>10 DEF Following
<1> QED BY <1>5, <1>6, <1>7, <1>11 DEF Inv

(* The bus task's step before the slave's.                                 *)
LEMMA RequestNext ==
  ASSUME Inv, MakeRequest
  PROVE  Inv'
<1>1. Typed /\ Replied /\ Room
  BY DEF Inv
<1>2. sent = <<>>
  BY <1>1 DEF MakeRequest, Replied
<1>3. /\ tx_frame' \in Seq(Byte) /\ Requested'
      /\ UNCHANGED <<job, sent, hit, rx_buffer, parser, rx_frame, result>>
  BY <1>1, RequestMade DEF MakeRequest
<1>4. Typed'
  BY <1>1, <1>3 DEF Typed
<1>5. Replied'
  BY <1>1, <1>2, <1>3 DEF Replied
<1>6. Room'
  BY <1>1, <1>3 DEF Room, Parsed
<1>7. Following'
  BY <1>2, <1>3 DEF Following
<1> QED BY <1>3, <1>4, <1>5, <1>6, <1>7 DEF Inv

(* It holds at first, whatever rx_frame holds ...                          *)
LEMMA InvInit == Init => Inv
<1>1. SUFFICES ASSUME Init PROVE Inv
  OBVIOUS
<1>2. PICK byte \in Garbage :
        rx_frame = [slave |-> byte, function_code |-> byte, address |-> byte,
                    data |-> [i \in 0 .. 7 |-> byte], data_size |-> byte,
                    crc |-> Word(byte, byte)]
  BY <1>1 DEF Init
<1>3. byte \in Byte /\ Word(byte, byte) \in Uint16
  BY CodecAssumption, WordFacts
<1>4. rx_frame \in FrameType
  BY <1>2, <1>3 DEF FrameType
<1>5. /\ job \in Jobs /\ tx_frame = <<>> /\ sent = <<>> /\ hit = 0 /\ rx_buffer = <<>>
      /\ parser = modbus_parser_reset /\ result = "incomplete"
  BY <1>1 DEF Init
<1>6. parser \in [state : ParserStates, crc : Uint16, data_length : Byte]
  BY <1>5, Uint16Facts DEF modbus_parser_reset, ParserStates, Byte
<1>7. Typed
  BY <1>4, <1>5, <1>6 DEF Typed, Results
<1>8. parser.state = "slave"
  BY <1>5 DEF modbus_parser_reset
<1> QED BY <1>5, <1>7, <1>8 DEF Inv, Requested, Replied, Room, Following

(* ... and every step keeps it.                                            *)
LEMMA InvNext == Inv /\ [Next]_vars => Inv'
<1>1. SUFFICES ASSUME Inv, [Next]_vars PROVE Inv'
  OBVIOUS
<1>2. CASE MakeRequest
  BY <1>1, <1>2, RequestNext
<1>3. CASE Answer \/ AnswerException
  BY <1>1, <1>3, AnswerNext DEF Inv
<1>4. CASE Parse
  BY <1>1, <1>4, ParseNext
<1>5. CASE UNCHANGED vars
  <2>1. /\ job' = job /\ tx_frame' = tx_frame /\ sent' = sent /\ hit' = hit
        /\ rx_buffer' = rx_buffer /\ parser' = parser /\ rx_frame' = rx_frame
        /\ result' = result
    BY <1>5 DEF vars
  <2>2. /\ Start' = Start /\ Body' = Body /\ (ExceptionReply' <=> ExceptionReply)
        /\ Parsed' = Parsed /\ Arrivals' = Arrivals /\ (FramingHit' <=> FramingHit)
    BY <2>1 DEF Start, Body, ExceptionReply, Parsed, Arrivals, FramingHit
  <2>3. Typed' /\ Room'
    BY <1>1, <2>1, <2>2 DEF Inv, Typed, Room
  <2>4. Requested'
    BY <1>1, <2>1 DEF Inv, Requested, Heard
  <2>5. Replied'
    BY <1>1, <2>1, <2>2 DEF Inv, Replied, ReadReply, WriteReply, Sealing
  <2>6. ASSUME NEW arrived
        PROVE  /\ Rest(arrived)' <=> Rest(arrived)
               /\ InFrame(arrived)' <=> InFrame(arrived)
    <3>1. Rest(arrived)' <=> Rest(arrived)
      BY <2>1, <2>2 DEF Rest
    <3>2. Holds(arrived, Parsed)' <=> Holds(arrived, Parsed)
      BY <2>1, <2>2 DEF Holds
    <3>3. Holds(arrived, Len(sent))' <=> Holds(arrived, Len(sent))
      BY <2>1, <2>2 DEF Holds
    <3>4. Expects(parser.state, Parsed)' <=> Expects(parser.state, Parsed)
      BY <2>1, <2>2 DEF Expects
    <3>5. Going(arrived)' <=> Going(arrived)
      BY <2>1, <2>2, <3>2, <3>4 DEF Going
    <3>6. Ended(arrived)' <=> Ended(arrived)
      BY <2>1, <2>2, <3>3 DEF Ended, Sealing
    <3> QED BY <2>1, <2>2, <3>1, <3>5, <3>6 DEF InFrame
  <2>7. Following'
    BY <1>1, <2>1, <2>2, <2>6 DEF Inv, Following
  <2> QED BY <2>3, <2>4, <2>5, <2>7 DEF Inv
<1> QED BY <1>1, <1>2, <1>3, <1>4, <1>5 DEF Next

(* The inductive invariant holds throughout.                               *)
THEOREM InvCorrect == Spec => []Inv
  BY InvInit, InvNext, PTL DEF Spec

(***************************************************************************)
(* What follows from it.                                                   *)
(***************************************************************************)
(* Types, and data only where rx_frame has room for it, whatever the noise *)
(* (modbus_parser.h:53-56,158-165).                                        *)
THEOREM TypeCorrect == Spec => []TypeOK
<1>1. ASSUME Inv PROVE TypeOK
  <2>1. Typed /\ Replied /\ Room
    BY <1>1 DEF Inv
  <2>2. DOMAIN rx_frame.data = 0 .. 7 /\ rx_frame.data_size \in Byte /\ rx_frame.crc \in Uint16
    BY <2>1 DEF Typed, FrameType
  <2>3. ASSUME parser.state = "data" PROVE rx_frame.data_size < 8
    <3>1. sent # <<>> /\ result = "incomplete"
      BY <2>1, <2>3 DEF Replied, Room, modbus_parser_reset
    <3>2. Parsed >= 3 + rx_frame.data_size
      BY <2>1, <2>3, <3>1 DEF Room
    <3>3. Parsed \in Int /\ Parsed <= 8
      <4>1. Len(sent) \in Nat /\ Len(sent) <= 8
        BY <2>1, <3>1, ShapeFacts
      <4>2. Len(rx_buffer) \in Nat
        BY <2>1 DEF Typed
      <4> QED BY <4>1, <4>2 DEF Parsed
    <3>4. rx_frame.data_size \in Nat
      <4>1. \A b \in Byte : b \in Nat
        BY DEF Byte
      <4> QED BY <2>2, <4>1, Zenon
    <3> QED BY <3>2, <3>3, <3>4
  <2> QED BY <2>1, <2>2, <2>3 DEF TypeOK, Typed
<1> QED BY <1>1, InvCorrect, PTL

(* Every request reaches a slave whole, names the device, the function,    *)
(* the register or the coil to write with its value the task was given,    *)
(* and asks for 16 coils at most; for every address and value of 16 bits   *)
(* (modbus_framer.h:148-193, modbus.h:115-129).                            *)
THEOREM RequestUnderstoodCorrect == Spec => []RequestUnderstood
<1>1. ASSUME Inv PROVE RequestUnderstood
  <2> DEFINE heard == Heard(tx_frame)
  <2>1. SUFFICES ASSUME tx_frame # <<>> PROVE RequestUnderstood
    BY DEF RequestUnderstood
  <2>2. /\ heard.sound
        /\ heard.slave = job.slave /\ heard.function = job.function
        /\ job.function = READ_COILS => heard.count = (job.address % 16) + 1
        /\ job.function # READ_COILS => heard.start = job.address /\ heard.count = 1
        /\ heard.value = IF job.function = WRITE_SINGLE_COIL
                         THEN IF job.value # 0 THEN \hFF00 ELSE 0
                         ELSE job.value
    BY <1>1, <2>1 DEF Inv, Requested
  <2>3. (job.address % 16) + 1 \in 1 .. 16 /\ job.address \in Int
    BY <1>1, JobFacts, CoilFacts, Uint16Facts DEF Inv, Typed
  <2> HIDE DEF heard
  <2>4. job.function = READ_COILS => heard.count \in 1 .. 16
    <3> DEFINE quantity == (job.address % 16) + 1
    <3>1. job.function = READ_COILS => heard.count = quantity
      BY <2>2
    <3>2. quantity \in 1 .. 16
      BY <2>3
    <3> HIDE DEF quantity
    <3> QED BY <3>1, <3>2
  <2>5. /\ job.function = WRITE_SINGLE_COIL => ((heard.value = \hFF00) <=> (job.value # 0))
        /\ job.function # WRITE_SINGLE_COIL => heard.value = job.value
    BY <2>2
  <2> QED BY <2>2, <2>4, <2>5 DEF RequestUnderstood, heard
<1> QED BY <1>1, InvCorrect, PTL

(* What the reply says is what the bus task takes it for                   *)
(* (modbus_parser.h:76-180, bus.c:237,273).                                *)
THEOREM AnswerUnderstoodCorrect == Spec => []AnswerUnderstood
<1>1. ASSUME Inv PROVE AnswerUnderstood
  <2>1. SUFFICES ASSUME sent # <<>>, hit = 0, sent[2] = job.function
                 PROVE  AnswerUnderstood
    BY DEF AnswerUnderstood
  <2>2. Typed /\ Replied /\ Room /\ Following
    BY <1>1 DEF Inv
  <2>3. PICK arrived \in Arrivals : Rest(arrived) /\ (~ FramingHit => InFrame(arrived))
    BY <2>1, <2>2 DEF Following
  <2>4. arrived = sent /\ ~ FramingHit
    BY <2>1, <2>2, <2>3, ArrivalFacts DEF FramingHit
  <2>5. /\ job.function \in {1, 3, 5, 16} /\ sent[1] = job.slave
        /\ sent \in Seq(Byte) /\ rx_buffer \in Seq(Byte)
    BY <2>1, <2>2, JobFacts DEF Typed, Replied
  <2>6. ~ ExceptionReply
    BY <2>1, <2>5 DEF ExceptionReply
  <2>7. /\ Body \in Nat /\ Len(sent) = Body + 2 /\ Start < Body /\ Start \in {3, 4}
        /\ ReadReply \/ WriteReply
        /\ ReadReply => Start = 3 /\ Body = 3 + sent[3]
    BY <2>1, <2>2, <2>6, ShapeFacts
  <2>8. InFrame(sent) /\ result \in {"incomplete", "complete"}
    BY <2>1, <2>3, <2>4, <2>6 DEF InFrame
  <2>9. result = IF rx_buffer = <<>> THEN "complete" ELSE "incomplete"
    <3>1. CASE result = "incomplete"
      <4>1. Parsed <= Body + 1
        <5>1. Expects(parser.state, Parsed)
          BY <2>8, <3>1 DEF InFrame, Going
        <5>2. Parsed \in Int
          BY <2>5 DEF Parsed
        <5>3. Parsed \in {0, 1, 2, 3, Body, Body + 1} \/ Parsed < Body
          BY <5>1, Zenon DEF Expects
        <5> QED BY <2>7, <5>2, <5>3
      <4>2. rx_buffer # <<>>
        BY <2>7, <4>1 DEF Parsed
      <4> QED BY <3>1, <4>2
    <3>2. CASE result = "complete"
      <4>1. Parsed = Len(sent) /\ Len(rx_buffer) \in Nat /\ Len(sent) \in Nat
        BY <2>5, <2>8, <3>2 DEF InFrame, Ended
      <4>2. Len(rx_buffer) = 0
        BY <4>1 DEF Parsed
      <4>3. rx_buffer = <<>>
        BY <2>5, <4>2
      <4> QED BY <3>2, <4>3
    <3> QED BY <2>8, <3>1, <3>2
  <2>10. ASSUME result = "complete"
         PROVE  /\ rx_frame.slave = job.slave /\ rx_frame.function_code = job.function
                /\ rx_frame.data_size = Body - Start
                /\ Start = 3 => \A k \in 0 .. 7 :
                     rx_frame.data[k] = IF k + 3 < Body THEN sent[k + 4] ELSE 0
    <3>1. Holds(sent, Len(sent))
      BY <2>8, <2>10 DEF InFrame, Ended
    <3>2. /\ Len(sent) >= 1 /\ Len(sent) >= 2 /\ Len(sent) >= 3 /\ Len(sent) >= Start
          /\ ~ (Len(sent) < Body)
          /\ \A k \in 0 .. 7 : k + 3 < Len(sent) /\ k + 3 < Body <=> k + 3 < Body
      BY <2>7
    <3> QED BY <2>1, <2>5, <3>1, <3>2 DEF Holds
  <2>11. ASSUME result = "complete", job.function = READ_HOLDING_REGISTERS
         PROVE  rx_frame.data_size = 2 /\ PeriodicData(rx_frame) = Word(sent[4], sent[5])
    <3>1. ReadReply /\ sent[3] = 2
      BY <2>7, <2>11 DEF ReadReply, WriteReply, WriteFunctions, READ_HOLDING_REGISTERS,
         WRITE_SINGLE_COIL, WRITE_HOLDING_REGISTERS
    <3>2. Start = 3 /\ Body = 5
      BY <2>7, <3>1
    <3>3. rx_frame.data_size = 2 /\ rx_frame.data[0] = sent[4] /\ rx_frame.data[1] = sent[5]
      BY <2>10, <2>11, <3>2
    <3> QED BY <3>3 DEF PeriodicData
  <2>12. ASSUME result = "complete", job.function = READ_COILS
         PROVE  CommandData(rx_frame) = IF sent[3] = 1 THEN sent[4] ELSE Word(sent[5], sent[4])
    <3>1. ReadReply /\ sent[3] \in {1, 2}
      BY <2>7, <2>12 DEF ReadReply, WriteReply, WriteFunctions, READ_COILS,
         WRITE_SINGLE_COIL, WRITE_HOLDING_REGISTERS
    <3>2. CASE sent[3] = 1
      <4>1. Start = 3 /\ Body = 4
        BY <2>7, <3>1, <3>2
      <4>2. rx_frame.data[0] = sent[4] /\ rx_frame.data[1] = 0
        BY <2>10, <2>12, <4>1
      <4>3. sent[4] \in Byte
        <5>1. 4 \in 1 .. Len(sent)
          BY <2>7, <4>1
        <5> QED BY <2>5, <5>1
      <4>4. Word(0, sent[4]) = sent[4]
        <5>1. \A b \in Byte : Word(0, b) = b
          BY DEF Byte, Word
        <5> QED BY <4>3, <5>1
      <4> QED BY <3>2, <4>2, <4>4 DEF CommandData
    <3>3. CASE sent[3] = 2
      <4>1. Start = 3 /\ Body = 5
        BY <2>7, <3>1, <3>3
      <4>2. rx_frame.data[0] = sent[4] /\ rx_frame.data[1] = sent[5]
        BY <2>10, <2>12, <4>1
      <4> QED BY <3>3, <4>2 DEF CommandData
    <3> QED BY <3>1, <3>2, <3>3
  <2> QED BY <2>9, <2>10, <2>11, <2>12 DEF AnswerUnderstood
<1> QED BY <1>1, InvCorrect, PTL

(* A byte that noise changed shows in the CRC, unless it is one of those   *)
(* that say how long the reply is; and an exception is no answer           *)
(* (modbus_parser.h:84-176).                                               *)
THEOREM DamagedNeverTakenCorrect == Spec => []DamagedNeverTaken
<1>1. ASSUME Inv PROVE DamagedNeverTaken
  <2>1. SUFFICES ASSUME result = "complete", ~ FramingHit
                 PROVE  hit = 0 /\ sent[2] = job.function
    BY DEF DamagedNeverTaken
  <2>2. Typed /\ Replied /\ Room /\ Following
    BY <1>1 DEF Inv
  <2>3. sent # <<>>
    BY <2>1, <2>2 DEF Replied
  <2>4. PICK arrived \in Arrivals : InFrame(arrived)
    BY <2>1, <2>2, <2>3 DEF Following
  <2>5. ~ ExceptionReply /\ Sealing(arrived) /\ Sealing(sent)
    BY <2>1, <2>2, <2>3, <2>4 DEF InFrame, Ended, Replied
  <2>6. sent[2] = job.function
    BY <2>2, <2>3, <2>5, ShapeFacts DEF ReadReply, WriteReply
  <2>7. ASSUME hit # 0 PROVE FALSE
    <3>1. /\ arrived \in Seq(Byte) /\ sent \in Seq(Byte) /\ Len(arrived) = Len(sent)
          /\ \A k \in 1 .. Len(sent) : k # hit => arrived[k] = sent[k]
          /\ hit \in 1 .. Len(sent) /\ arrived[hit] # sent[hit]
      BY <2>2, <2>4, <2>7, ArrivalFacts DEF Typed
    <3>2. /\ Body \in Nat /\ Len(sent) = Body + 2
          /\ Len(sent) - 2 = Body /\ Len(sent) - 1 = Body + 1
      BY <2>2, <2>3, ShapeFacts
    <3>3. /\ crc_after(arrived)[Body] = Word(arrived[Body + 2], arrived[Body + 1])
          /\ crc_after(sent)[Body] = Word(sent[Body + 2], sent[Body + 1])
      BY <2>5, <3>1, <3>2 DEF Sealing
    <3>4. CASE hit <= Body
      <4>1. arrived[Body + 2] = sent[Body + 2] /\ arrived[Body + 1] = sent[Body + 1]
        BY <3>1, <3>2, <3>4
      <4>2. Body \in hit .. Len(arrived)
        BY <3>1, <3>2, <3>4
      <4>3. crc_after(arrived)[Body] # crc_after(sent)[Body]
        BY <3>1, <4>2, DamageShows
      <4> QED BY <3>3, <4>1, <4>3
    <3>5. CASE Body < hit
      <4>1. Body <= Len(arrived) /\ Body <= Len(sent)
            /\ \A k \in 1 .. Body : arrived[k] = sent[k]
        BY <3>1, <3>2, <3>5
      <4>2. crc_after(arrived)[Body] = crc_after(sent)[Body]
        <5>1. \A i \in 0 .. Body : crc_after(arrived)[i] = crc_after(sent)[i]
          BY <3>1, <3>2, <4>1, SamePrefix
        <5> QED BY <3>2, <5>1
      <4>3. /\ arrived[Body + 1] \in Byte /\ arrived[Body + 2] \in Byte
            /\ sent[Body + 1] \in Byte /\ sent[Body + 2] \in Byte
        BY <3>1, <3>2
      <4>4. arrived[Body + 1] = sent[Body + 1] /\ arrived[Body + 2] = sent[Body + 2]
        <5>1. ASSUME NEW h \in Byte, NEW l \in Byte, NEW g \in Byte, NEW m \in Byte,
                     Word(h, l) = Word(g, m)
              PROVE  h = g /\ l = m
          <6>1. /\ Hi(Word(h, l)) = h /\ Lo(Word(h, l)) = l
                /\ Hi(Word(g, m)) = g /\ Lo(Word(g, m)) = m
            BY WordFacts, Zenon
          <6> QED BY <5>1, <6>1
        <5>2. Word(arrived[Body + 2], arrived[Body + 1]) = Word(sent[Body + 2], sent[Body + 1])
          BY <3>3, <4>2
        <5> QED BY <4>3, <5>1, <5>2
      <4>5. hit = Body + 1 \/ hit = Body + 2
        BY <3>1, <3>2, <3>5
      <4> QED BY <3>1, <4>4, <4>5
    <3>6. hit <= Body \/ Body < hit
      BY <3>1, <3>2
    <3> QED BY <3>4, <3>5, <3>6
  <2> QED BY <2>6, <2>7
<1> QED BY <1>1, InvCorrect, PTL
=============================================================================
