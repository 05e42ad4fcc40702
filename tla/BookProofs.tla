----------------------------- MODULE BookProofs -----------------------------
(***************************************************************************)
(* Proofs about StreamCipher: a message that is accepted has decrypted     *)
(* rightly, whatever calls made it and whatever calls opened it, in order  *)
(* or not.  A tag covers blocks of ciphertext and tells nothing of the     *)
(* calls; what it covers still fixes under which counter each byte was     *)
(* enciphered, and the module says why.                                    *)
(***************************************************************************)
EXTENDS StreamProofs, NumberProofs

-----------------------------------------------------------------------------
(* What a text says of the calls that made it.  A tag does not tell stores *)
(* from copies: it tells, of each byte, the block it was absorbed in and   *)
(* its place there.  The book of a message keeps, of each byte, its block  *)
(* counter k, its place o in the block and the place at of the block in    *)
(* the hash; and, after each byte, the first byte of the store buffer that *)
(* is open, or 0, and the block counter now.                               *)

IsBook(b, n) ==
    /\ b.k \in [1..n -> Nat] /\ b.o \in [1..n -> Nat] /\ b.at \in [1..n -> Nat]
    /\ b.open \in [0..n -> Nat] /\ b.now \in [0..n -> Nat]

\* Byte i was copied past the open buffer.
Over(b, i) ==
    /\ b.open[i - 1] # 0 /\ b.open[i] = b.open[i - 1]
    /\ b.open[i] \in 1..i - 1
    /\ ~(b.at[b.open[i]] <= b.at[i])
    /\ \A j \in 1..b.open[i] - 1 : b.at[j] <= b.at[i]

\* No byte up to i is absorbed after byte l.
Last(b, i, l) == l \in 1..i /\ \A j \in 1..i : b.at[j] <= b.at[l]

Together(b, i, j) == b.at[i] <= b.at[j] /\ b.at[j] <= b.at[i]

\* The last byte of the buffer that byte s opened is among the first i.
Spent(b, i, s) == \E y \in 1..i : b.k[y] = b.k[s] + (Wide - 1) /\ b.o[y] = Block - 1

\* One byte: its block is under one counter; it is absorbed last unless it
\* was copied past a buffer; a new block takes the counter, or in an open
\* buffer the one that follows that of the last block.
Entry(b, i) ==
    /\ \A j \in 1..i - 1 : Together(b, i, j) => b.k[j] = b.k[i]
    /\ Over(b, i) \/ \A j \in 1..i - 1 : b.at[j] <= b.at[i]
    /\ b.o[i] > 0 => \E j \in 1..i - 1 : Together(b, i, j)
    /\ b.o[i] = 0 /\ (Over(b, i) \/ b.open[i - 1] = 0) => b.k[i] = b.now[i - 1]
    /\ b.o[i] = 0 /\ ~(Over(b, i) \/ b.open[i - 1] = 0)
       => \E l \in 1..i - 1 : Last(b, i - 1, l) /\ b.k[i] = b.k[l] + 1

\* The counter is the least one past every byte and the open buffer.
Counter(b, i) ==
    /\ \A j \in 1..i : b.k[j] < b.now[i]
    /\ b.open[i] # 0 => b.k[b.open[i]] + Wide <= b.now[i]
    /\ \/ i = 0 /\ b.now[i] = 2
       \/ \E j \in 1..i : b.now[i] = b.k[j] + 1
       \/ b.open[i] # 0 /\ b.now[i] = b.k[b.open[i]] + Wide

\* While a buffer is open the byte absorbed last is under the highest
\* counter, but for what was copied past it; no buffer is left open unless
\* it is the last one, and none that is open has been spent.
Buffer(b, i) ==
    /\ b.open[i] \in 0..i
    /\ b.open[i] # 0 => ~Spent(b, i, b.open[i])
    /\ b.open[i] # 0 => \A x, l \in 1..i : Last(b, i, l)
                            => \/ Over(b, x) /\ b.open[x] = b.open[i]
                               \/ b.k[x] <= b.k[l]
    /\ \A a \in 0..i - 1 : b.open[a] # 0 /\ b.open[i] # b.open[a] => Spent(b, i, b.open[a])

Lawful(b, n) ==
    /\ \A i \in 1..n : Entry(b, i)
    /\ \A i \in 0..n : Counter(b, i) /\ Buffer(b, i)

Law(b, n) == IsBook(b, n) /\ Lawful(b, n)

-----------------------------------------------------------------------------
(* The book is the only one with its blocks and places.                    *)

\* The buffer that a byte was copied past began with the first byte absorbed
\* after it.
LEMMA OverWhich ==
  ASSUME NEW n \in Nat, NEW b, NEW c, IsBook(b, n), IsBook(c, n), b.at = c.at,
         NEW i \in 1..n, Over(b, i), Over(c, i)
  PROVE  b.open[i] = c.open[i]
<1> PICK s, t : s = b.open[i] /\ t = c.open[i]
  OBVIOUS
<1>1. /\ s \in 1..i - 1 /\ ~(b.at[s] <= b.at[i])
      /\ \A j \in 1..s - 1 : b.at[j] <= b.at[i]
  BY DEF Over
<1>2. /\ t \in 1..i - 1 /\ ~(b.at[t] <= b.at[i])
      /\ \A j \in 1..t - 1 : b.at[j] <= b.at[i]
  BY DEF Over
<1>3. ~(s < t) /\ ~(t < s)
  BY <1>1, <1>2
<1> QED BY <1>1, <1>2, <1>3

\* A byte copied past a buffer by one book is so by the other.
LEMMA OverBoth ==
  ASSUME NEW n \in Nat, NEW b, NEW c, IsBook(b, n), IsBook(c, n), b.at = c.at,
         NEW i \in 1..n, Entry(b, i), Entry(c, i), Over(b, i)
  PROVE  Over(c, i)
<1>1. b.open[i] \in 1..i - 1 /\ ~(b.at[b.open[i]] <= b.at[i])
  BY DEF Over
<1>2. ~\A j \in 1..i - 1 : c.at[j] <= c.at[i]
  BY <1>1
<1> QED BY <1>2 DEF Entry

\* The counter is a matter of the counters so far and of the open buffer.
LEMMA SameCounter ==
  ASSUME NEW n \in Nat, NEW b, NEW c, IsBook(b, n), IsBook(c, n),
         NEW i \in 0..n, \A j \in 1..i : b.k[j] = c.k[j],
         Counter(b, i), Counter(c, i), b.open[i] \in 0..i, b.open[i] = c.open[i]
  PROVE  b.now[i] = c.now[i]
<1> PICK x, y : x = b.now[i] /\ y = c.now[i]
  OBVIOUS
<1>1. x \in Nat /\ y \in Nat /\ \A j \in 1..i : b.k[j] \in Nat
  <2>1. b.k \in [1..n -> Nat] /\ b.now \in [0..n -> Nat] /\ c.now \in [0..n -> Nat]
    BY DEF IsBook
  <2>2. \A j \in 1..i : j \in 1..n
    OBVIOUS
  <2> QED BY <2>1, <2>2
<1>2. CASE i = 0
  BY <1>2 DEF Counter
<1>3. CASE i # 0 /\ b.open[i] = 0
  <2>1. \A j \in 1..i : b.k[j] < x /\ b.k[j] < y
    BY DEF Counter
  <2>2. PICK j \in 1..i : x = b.k[j] + 1
    BY <1>3 DEF Counter
  <2>3. PICK j1 \in 1..i : y = b.k[j1] + 1
    BY <1>3 DEF Counter
  <2>4. b.k[j] < y /\ b.k[j1] < x
    BY <2>1
  <2> QED BY <1>1, <2>2, <2>3, <2>4
<1>4. CASE i # 0 /\ b.open[i] # 0
  <2> PICK s : s = b.open[i]
    OBVIOUS
  <2>0. s \in 1..i /\ b.k[s] = c.k[s] /\ c.open[i] = s
    BY <1>4
  <2> PICK z : z = b.k[s] + Wide
    OBVIOUS
  <2>1. \A j \in 1..i : b.k[j] < x /\ b.k[j] < y
    BY DEF Counter
  <2>2. z <= x /\ z <= y
    BY <1>4, <2>0 DEF Counter
  <2>3. x = z \/ \E j \in 1..i : x = b.k[j] + 1
    BY <1>4, <2>0 DEF Counter
  <2>4. y = z \/ \E j \in 1..i : y = b.k[j] + 1
    BY <1>4, <2>0 DEF Counter
  <2>5. z \in Nat
    BY <1>1, <2>0, StreamAssumption
  <2>6. ASSUME x < y PROVE FALSE
    <3>1. PICK j \in 1..i : y = b.k[j] + 1
      BY <2>2, <2>4, <2>5, <2>6, <1>1
    <3> QED BY <1>1, <2>1, <2>6, <3>1
  <2>7. ASSUME y < x PROVE FALSE
    <3>1. PICK j \in 1..i : x = b.k[j] + 1
      BY <2>2, <2>3, <2>5, <2>7, <1>1
    <3> QED BY <1>1, <2>1, <2>7, <3>1
  <2> QED BY <1>1, <2>6, <2>7
<1> QED BY <1>2, <1>3, <1>4

\* Of the last bytes of two books that agree, one counter.
LEMMA SameLast ==
  ASSUME NEW n \in Nat, NEW b, IsBook(b, n), NEW i \in 0..n,
         \A j \in 1..i : Entry(b, j),
         NEW l \in 1..i, NEW m \in 1..i, Last(b, i, l), Last(b, i, m)
  PROVE  b.k[l] = b.k[m]
<1>1. Together(b, l, m) /\ Together(b, m, l)
  BY DEF Last, Together
<1>2. CASE l < m
  <2>1. l \in 1..m - 1
    BY <1>2
  <2> QED BY <1>1, <2>1 DEF Entry
<1>3. CASE m < l
  <2>1. m \in 1..l - 1
    BY <1>3
  <2> QED BY <1>1, <2>1 DEF Entry
<1>4. CASE l = m
  BY <1>4
<1> QED BY <1>2, <1>3, <1>4

\* A new block outside a buffer in one book and inside one in the other.
LEMMA Mixed ==
  ASSUME NEW n \in Nat, NEW b, NEW c, Law(b, n), Law(c, n), b.at = c.at, b.o = c.o,
         NEW i \in 1..n, \A j \in 1..i - 1 : b.k[j] = c.k[j],
         b.open[i - 1] = 0, c.open[i - 1] # 0,
         b.k[i] = b.now[i - 1],
         NEW l \in 1..i - 1, Last(c, i - 1, l), c.k[i] = c.k[l] + 1
  PROVE  b.k[i] = c.k[i]
<1> PICK h : h = i - 1
  OBVIOUS
<1>0. h \in 0..n /\ h \in Nat /\ l \in 1..h /\ i - 1 = h
  OBVIOUS
<1>1. IsBook(b, n) /\ IsBook(c, n) /\ Counter(b, h) /\ Buffer(b, h) /\ Counter(c, h) /\ Buffer(c, h)
  BY <1>0 DEF Law, Lawful
<1>2. \A j \in 1..h : b.k[j] \in Nat /\ c.k[j] = b.k[j] /\ b.k[j] < b.now[h]
  <2>0. \A j \in 1..h : j \in 1..n
    BY <1>0
  <2>1. b.k \in [1..n -> Nat]
    BY <1>1 DEF IsBook
  <2>2. \A j \in 1..h : b.k[j] < b.now[h]
    BY <1>1 DEF Counter
  <2> QED BY <1>0, <2>0, <2>1, <2>2
<1>3. PICK x \in 1..h : b.now[h] = b.k[x] + 1
  BY <1>0, <1>1 DEF Counter
<1>4. b.k[l] <= b.k[x]
  BY <1>0, <1>2, <1>3
<1>5. ASSUME ~(b.k[x] <= b.k[l]) PROVE FALSE
  <2>1. Over(c, x) /\ c.open[x] = c.open[h]
    BY <1>0, <1>1, <1>2, <1>3, <1>5 DEF Buffer
  <2>2. x \in 1..n /\ Entry(b, x) /\ Entry(c, x)
    BY <1>0 DEF Law, Lawful
  <2>3. Over(b, x)
    BY <1>1, <2>1, <2>2, OverBoth
  <2>4. b.open[x] = c.open[h]
    BY <1>1, <2>1, <2>2, <2>3, OverWhich
  <2> PICK s : s = c.open[h]
    OBVIOUS
  <2>5. s # 0 /\ b.open[x] = s /\ b.open[h] = 0 /\ c.open[h] = s
    BY <1>0, <2>4
  <2>6. x \in 0..h - 1
    BY <1>0, <2>5
  <2>7. Spent(b, h, s)
    BY <1>1, <2>5, <2>6 DEF Buffer
  <2>8. s \in 1..h
    BY <1>1, <1>0, <2>5 DEF Buffer
  <2>9. Spent(c, h, s)
    BY <1>0, <1>2, <2>7, <2>8 DEF Spent
  <2>10. ~Spent(c, h, s)
    BY <1>1, <2>5 DEF Buffer
  <2> QED BY <2>9, <2>10
<1>6. b.k[x] = b.k[l]
  BY <1>0, <1>2, <1>3, <1>4, <1>5
<1> QED BY <1>0, <1>2, <1>3, <1>6

LEMMA NextAgrees ==
  ASSUME NEW n \in Nat, NEW b, NEW c, Law(b, n), Law(c, n), b.at = c.at, b.o = c.o,
         NEW i \in 1..n, \A j \in 1..i - 1 : b.k[j] = c.k[j]
  PROVE  b.k[i] = c.k[i]
<1> PICK h : h = i - 1
  OBVIOUS
<1>0. h \in 0..n /\ h \in Nat /\ i - 1 = h /\ \A j \in 1..h : b.k[j] = c.k[j]
  OBVIOUS
<1>1. /\ IsBook(b, n) /\ IsBook(c, n) /\ Entry(b, i) /\ Entry(c, i)
      /\ Counter(b, h) /\ Buffer(b, h) /\ Counter(c, h) /\ Buffer(c, h)
  BY <1>0 DEF Law, Lawful
<1>2. b.o[i] = c.o[i] /\ b.o[i] \in Nat
  BY <1>1 DEF IsBook
<1>3. CASE b.o[i] > 0
  <2>1. PICK j \in 1..h : Together(b, i, j)
    BY <1>0, <1>1, <1>3 DEF Entry
  <2>2. b.k[j] = b.k[i]
    BY <1>0, <1>1, <2>1 DEF Entry
  <2>3. c.k[j] = c.k[i]
    <3>1. Together(c, i, j)
      BY <2>1 DEF Together
    <3> QED BY <1>0, <1>1, <2>1, <3>1 DEF Entry
  <2> QED BY <1>0, <2>1, <2>2, <2>3
<1>4. CASE b.o[i] = 0 /\ Over(b, i)
  <2>1. Over(c, i)
    BY <1>1, <1>4, OverBoth
  <2>2. b.open[i] = c.open[i]
    BY <1>1, <1>4, <2>1, OverWhich
  <2>3. b.open[h] = c.open[h]
    BY <1>0, <1>4, <2>1, <2>2 DEF Over
  <2>4. b.open[h] \in 0..h
    BY <1>1 DEF Buffer
  <2>5. b.now[h] = c.now[h]
    BY <1>0, <1>1, <2>3, <2>4, SameCounter
  <2>6. b.k[i] = b.now[h] /\ c.k[i] = c.now[h]
    BY <1>0, <1>1, <1>2, <1>4, <2>1 DEF Entry
  <2> QED BY <2>5, <2>6
<1>5. CASE b.o[i] = 0 /\ ~Over(b, i)
  <2>1. ~Over(c, i)
    BY <1>1, <1>5, OverBoth
  <2>2. CASE b.open[h] = 0 /\ c.open[h] = 0
    <3>1. b.now[h] = c.now[h]
      BY <1>0, <1>1, <2>2, SameCounter
    <3>2. b.k[i] = b.now[h] /\ c.k[i] = c.now[h]
      BY <1>0, <1>1, <1>2, <1>5, <2>2 DEF Entry
    <3> QED BY <3>1, <3>2
  <2>3. CASE b.open[h] # 0 /\ c.open[h] # 0
    <3>1. PICK l \in 1..h : Last(b, h, l) /\ b.k[i] = b.k[l] + 1
      BY <1>0, <1>1, <1>5, <2>3 DEF Entry
    <3>2. PICK m \in 1..h : Last(c, h, m) /\ c.k[i] = c.k[m] + 1
      BY <1>0, <1>1, <1>2, <1>5, <2>1, <2>3 DEF Entry
    <3>3. Last(b, h, m)
      BY <3>2 DEF Last
    <3>4. \A j \in 1..h : Entry(b, j)
      BY <1>0 DEF Law, Lawful
    <3>5. b.k[l] = b.k[m]
      BY <1>0, <1>1, <3>1, <3>2, <3>3, <3>4, SameLast
    <3> QED BY <1>0, <3>1, <3>2, <3>5
  <2>4. CASE b.open[h] = 0 /\ c.open[h] # 0
    <3>1. b.k[i] = b.now[h]
      BY <1>0, <1>1, <1>5, <2>4 DEF Entry
    <3>2. PICK m \in 1..h : Last(c, h, m) /\ c.k[i] = c.k[m] + 1
      BY <1>0, <1>1, <1>2, <1>5, <2>1, <2>4 DEF Entry
    <3>3. /\ b.open[i - 1] = 0 /\ c.open[i - 1] # 0 /\ b.k[i] = b.now[i - 1]
          /\ m \in 1..i - 1 /\ Last(c, i - 1, m)
      BY <1>0, <2>4, <3>1, <3>2
    <3>4. \A j \in 1..i - 1 : b.k[j] = c.k[j]
      BY <1>0
    <3> QED BY <1>0, <3>2, <3>3, <3>4, Mixed
  <2>5. CASE b.open[h] # 0 /\ c.open[h] = 0
    <3>1. c.k[i] = c.now[h]
      BY <1>0, <1>1, <1>2, <1>5, <2>1, <2>5 DEF Entry
    <3>2. PICK m \in 1..h : Last(b, h, m) /\ b.k[i] = b.k[m] + 1
      BY <1>0, <1>1, <1>5, <2>5 DEF Entry
    <3>3. \A j \in 1..i - 1 : c.k[j] = b.k[j]
      OBVIOUS
    <3>4. /\ c.open[i - 1] = 0 /\ b.open[i - 1] # 0 /\ c.k[i] = c.now[i - 1]
          /\ m \in 1..i - 1 /\ Last(b, i - 1, m)
      BY <1>0, <2>5, <3>1, <3>2
    <3>5. c.k[i] = b.k[i]
      BY <3>2, <3>3, <3>4, Mixed
    <3> QED BY <3>5
  <2> QED BY <2>2, <2>3, <2>4, <2>5
<1> QED BY <1>2, <1>3, <1>4, <1>5

\* Two books of one text with the same blocks and places are under the same
\* counters.
LEMMA BooksAgree ==
  ASSUME NEW n \in Nat, NEW b, NEW c, Law(b, n), Law(c, n), b.at = c.at, b.o = c.o
  PROVE  \A i \in 1..n : b.k[i] = c.k[i]
<1> DEFINE S == {m \in Nat : \A j \in 1..m : j <= n => b.k[j] = c.k[j]}
<1>1. 0 \in S
  OBVIOUS
<1>2. ASSUME NEW m \in Nat, m \in S PROVE m + 1 \in S
  <2>1. ASSUME m + 1 <= n PROVE b.k[m + 1] = c.k[m + 1]
    <3>1. m + 1 \in 1..n /\ \A j \in 1..m + 1 - 1 : b.k[j] = c.k[j]
      BY <1>2, <2>1
    <3> QED BY <3>1, NextAgrees
  <2>2. \A j \in 1..m + 1 : j \in 1..m \/ j = m + 1
    OBVIOUS
  <2> QED BY <1>2, <2>1, <2>2
<1>3. Nat \subseteq S
  <2> HIDE DEF S
  <2> QED BY <1>1, <1>2, SetInduction
<1>4. n \in S
  BY <1>3
<1> QED BY <1>4

-----------------------------------------------------------------------------
(* A book that goes on.                                                    *)

\* The entries of a book are numbers.
LEMMA BookType ==
  ASSUME NEW n \in Nat, NEW b, IsBook(b, n)
  PROVE  /\ \A j \in 1..n : b.k[j] \in Nat /\ b.o[j] \in Nat /\ b.at[j] \in Nat
         /\ \A j \in 0..n : b.open[j] \in Nat /\ b.now[j] \in Nat
<1>1. b.k \in [1..n -> Nat] /\ b.o \in [1..n -> Nat] /\ b.at \in [1..n -> Nat]
  BY DEF IsBook
<1>2. b.open \in [0..n -> Nat] /\ b.now \in [0..n -> Nat]
  BY DEF IsBook
<1> QED BY <1>1, <1>2

\* The law up to a byte reads the order of the blocks, not their numbers.
SameUpTo(b, c, n) ==
    /\ \A i \in 1..n : c.k[i] = b.k[i] /\ c.o[i] = b.o[i]
    /\ \A i \in 0..n : c.open[i] = b.open[i] /\ c.now[i] = b.now[i]
    /\ \A i, j \in 1..n : b.at[i] <= b.at[j] <=> c.at[i] <= c.at[j]

LEMMA SameOver ==
  ASSUME NEW n \in Nat, NEW b, NEW c, SameUpTo(b, c, n), NEW i \in 1..n
  PROVE  Over(b, i) <=> Over(c, i)
<1>1. i - 1 \in 0..n /\ i \in 0..n
  OBVIOUS
<1>2. b.open[i] = c.open[i] /\ b.open[i - 1] = c.open[i - 1]
  BY <1>1 DEF SameUpTo
<1>3. \A s \in 1..i - 1 : b.at[s] <= b.at[i] <=> c.at[s] <= c.at[i]
  BY DEF SameUpTo
<1>4. ASSUME b.open[i] \in 1..i - 1 PROVE Over(b, i) <=> Over(c, i)
  <2>1. b.at[b.open[i]] <= b.at[i] <=> c.at[c.open[i]] <= c.at[i]
    BY <1>2, <1>3, <1>4
  <2>2. (\A j \in 1..b.open[i] - 1 : b.at[j] <= b.at[i])
        <=> (\A j \in 1..c.open[i] - 1 : c.at[j] <= c.at[i])
    <3>1. \A j \in 1..b.open[i] - 1 : j \in 1..i - 1
      BY <1>4
    <3> QED BY <1>2, <1>3, <3>1
  <2> QED BY <1>2, <2>1, <2>2 DEF Over
<1> QED BY <1>2, <1>4 DEF Over

LEMMA SameEntry ==
  ASSUME NEW n \in Nat, NEW b, NEW c, SameUpTo(b, c, n), NEW i \in 1..n, Entry(b, i)
  PROVE  Entry(c, i)
<1>1. i - 1 \in 0..n /\ \A j \in 1..i - 1 : j \in 1..n
  OBVIOUS
<1>2. /\ b.open[i - 1] = c.open[i - 1] /\ b.now[i - 1] = c.now[i - 1]
      /\ b.k[i] = c.k[i] /\ b.o[i] = c.o[i]
      /\ \A j \in 1..i - 1 : c.k[j] = b.k[j]
  BY <1>1 DEF SameUpTo
<1>3. \A j \in 1..i - 1 : b.at[j] <= b.at[i] <=> c.at[j] <= c.at[i]
  BY <1>1 DEF SameUpTo
<1>4. \A j \in 1..i - 1 : Together(b, i, j) <=> Together(c, i, j)
  BY <1>1 DEF SameUpTo, Together
<1>5. \A j, l \in 1..i - 1 : b.at[j] <= b.at[l] <=> c.at[j] <= c.at[l]
  BY <1>1 DEF SameUpTo
<1>6. \A l \in 1..i - 1 : Last(b, i - 1, l) => Last(c, i - 1, l)
  BY <1>5 DEF Last
<1>7. Over(b, i) <=> Over(c, i)
  BY SameOver
<1>8. \A j \in 1..i - 1 : Together(c, i, j) => c.k[j] = c.k[i]
  BY <1>2, <1>4 DEF Entry
<1>9. Over(c, i) \/ \A j \in 1..i - 1 : c.at[j] <= c.at[i]
  BY <1>3, <1>7 DEF Entry
<1>10. c.o[i] > 0 => \E j \in 1..i - 1 : Together(c, i, j)
  BY <1>2, <1>4 DEF Entry
<1>11. c.o[i] = 0 /\ (Over(c, i) \/ c.open[i - 1] = 0) => c.k[i] = c.now[i - 1]
  BY <1>2, <1>7 DEF Entry
<1>12. c.o[i] = 0 /\ ~(Over(c, i) \/ c.open[i - 1] = 0)
       => \E l \in 1..i - 1 : Last(c, i - 1, l) /\ c.k[i] = c.k[l] + 1
  BY <1>2, <1>6, <1>7 DEF Entry
<1> QED BY <1>8, <1>9, <1>10, <1>11, <1>12 DEF Entry

LEMMA SameBuffer ==
  ASSUME NEW n \in Nat, NEW b, NEW c, SameUpTo(b, c, n), NEW i \in 0..n, Lawful(b, n)
  PROVE  Counter(c, i) /\ Buffer(c, i)
<1>0. Counter(b, i) /\ Buffer(b, i) /\ \A a \in 0..i : Buffer(b, a)
  BY DEF Lawful
<1>1. /\ c.open[i] = b.open[i] /\ c.now[i] = b.now[i]
      /\ \A j \in 1..i : c.k[j] = b.k[j] /\ c.o[j] = b.o[j]
      /\ \A a \in 0..i : c.open[a] = b.open[a]
  BY DEF SameUpTo
<1>2. \A l \in 1..i : Last(c, i, l) => Last(b, i, l)
  <2>1. \A j, l \in 1..i : b.at[j] <= b.at[l] <=> c.at[j] <= c.at[l]
    BY DEF SameUpTo
  <2> QED BY <2>1 DEF Last
<1>3. b.open[i] \in 0..i
  BY <1>0 DEF Buffer
<1>4. Counter(c, i)
  <2>1. c.open[i] # 0 => c.k[c.open[i]] = b.k[b.open[i]]
    BY <1>1, <1>3
  <2>2. \A j \in 1..i : c.k[j] < c.now[i]
    BY <1>0, <1>1 DEF Counter
  <2>3. c.open[i] # 0 => c.k[c.open[i]] + Wide <= c.now[i]
    BY <1>0, <1>1, <2>1 DEF Counter
  <2>4. \/ i = 0 /\ c.now[i] = 2
        \/ \E j \in 1..i : c.now[i] = c.k[j] + 1
        \/ c.open[i] # 0 /\ c.now[i] = c.k[c.open[i]] + Wide
    BY <1>0, <1>1, <2>1 DEF Counter
  <2> QED BY <2>2, <2>3, <2>4 DEF Counter
<1>5. \A s \in 1..i : Spent(b, i, s) <=> Spent(c, i, s)
  BY <1>1 DEF Spent
<1>6. c.open[i] # 0 => ~Spent(c, i, c.open[i])
  BY <1>0, <1>1, <1>3, <1>5 DEF Buffer
<1>7. ASSUME c.open[i] # 0, NEW x \in 1..i, NEW l \in 1..i, Last(c, i, l)
      PROVE  (Over(c, x) /\ c.open[x] = c.open[i]) \/ c.k[x] <= c.k[l]
  <2>1. (Over(b, x) /\ b.open[x] = b.open[i]) \/ b.k[x] <= b.k[l]
    BY <1>0, <1>1, <1>2, <1>7 DEF Buffer
  <2>2. Over(b, x) <=> Over(c, x)
    BY SameOver
  <2>3. x \in 0..i
    OBVIOUS
  <2> QED BY <1>1, <2>1, <2>2, <2>3
<1>8. ASSUME NEW a \in 0..i - 1, c.open[a] # 0, c.open[i] # c.open[a]
      PROVE  Spent(c, i, c.open[a])
  <2>1. c.open[a] = b.open[a]
    BY <1>1
  <2>2. Spent(b, i, b.open[a])
    BY <1>0, <1>1, <1>8, <2>1 DEF Buffer
  <2>3. PICK y \in 1..i : b.k[y] = b.k[b.open[a]] + (Wide - 1) /\ b.o[y] = Block - 1
    BY <2>2 DEF Spent
  <2>4. c.open[a] \in 0..i /\ c.open[a] # 0
    BY <1>0, <1>8, <2>1 DEF Buffer
  <2>5. c.k[c.open[a]] = b.k[b.open[a]] /\ c.k[y] = b.k[y] /\ c.o[y] = b.o[y]
    BY <1>1, <2>1, <2>4
  <2> QED BY <2>3, <2>5 DEF Spent
<1> QED BY <1>1, <1>3, <1>4, <1>6, <1>7, <1>8 DEF Buffer

LEMMA SameLaw ==
  ASSUME NEW n \in Nat, NEW b, NEW c, Lawful(b, n), SameUpTo(b, c, n)
  PROVE  Lawful(c, n)
<1>1. \A i \in 1..n : Entry(c, i)
  BY SameEntry DEF Lawful
<1>2. \A i \in 0..n : Counter(c, i) /\ Buffer(c, i)
  BY SameBuffer DEF Lawful
<1> QED BY <1>1, <1>2 DEF Lawful

\* Two bytes absorbed last are under one counter.
LEMMA LastOnes ==
  ASSUME NEW n \in Nat, NEW b, IsBook(b, n), NEW h \in 0..n, Lawful(b, h),
         NEW l \in 1..h, NEW m \in 1..h, Last(b, h, l), Together(b, l, m)
  PROVE  b.k[l] = b.k[m]
<1>1. \A j \in 1..h : b.at[j] <= b.at[l]
  BY DEF Last
<1>2. \A j \in 1..h : b.at[j] \in Nat
  BY BookType
<1>3. b.at[l] <= b.at[m]
  BY DEF Together
<1>4. Last(b, h, m)
  <2>1. ASSUME NEW j \in 1..h PROVE b.at[j] <= b.at[m]
    BY <1>1, <1>2, <1>3
  <2> QED BY <2>1 DEF Last
<1>5. \A i \in 1..h : Entry(b, i)
  BY DEF Lawful
<1> QED BY <1>4, <1>5, SameLast

\* The first byte of a buffer.
LEMMA BookOpens ==
  ASSUME NEW n \in Nat, NEW b, IsBook(b, n), NEW i \in 1..n, Lawful(b, i - 1),
         b.open[i - 1] = 0, b.o[i] = 0, b.k[i] = b.now[i - 1],
         \A j \in 1..i - 1 : b.at[j] < b.at[i],
         b.now[i] = b.now[i - 1] + Wide,
         b.open[i] = IF Wide = 1 /\ Block = 1 THEN 0 ELSE i
  PROVE  Lawful(b, i)
<1> PICK h, x : h = i - 1 /\ x = b.now[h]
  OBVIOUS
<1>0. /\ h \in 0..n /\ h \in Nat /\ i = h + 1 /\ i - 1 = h /\ x \in Nat
      /\ b.k[i] = x /\ b.now[i] = x + Wide /\ b.open[h] = 0
      /\ \A j \in 1..i : j \in 1..h \/ j = i
      /\ \A j \in 1..h : j \in 1..n
  BY BookType
<1>1. /\ \A j \in 1..n : b.k[j] \in Nat /\ b.at[j] \in Nat
      /\ Wide \in Nat /\ Wide >= 1 /\ Block \in Nat /\ Block >= 1
  BY BookType, StreamAssumption
<1>2. Counter(b, h) /\ Buffer(b, h) /\ \A j \in 1..h : Entry(b, j)
  BY <1>0 DEF Lawful
<1>3. ~Over(b, i)
  BY <1>0 DEF Over
<1>4. \A j \in 1..h : b.at[j] <= b.at[i] /\ ~Together(b, i, j)
  BY <1>0, <1>1 DEF Together
<1>5. Entry(b, i)
  BY <1>0, <1>3, <1>4 DEF Entry
<1>6. \A j \in 1..h : b.k[j] < x
  BY <1>0, <1>2 DEF Counter
<1>7. \A j \in 1..i : b.k[j] < b.now[i]
  BY <1>0, <1>1, <1>6
<1>8. Counter(b, i)
  <2>1. b.open[i] # 0 => b.open[i] = i /\ b.k[b.open[i]] + Wide <= b.now[i]
    BY <1>0, <1>1
  <2>2. b.open[i] = 0 => b.now[i] = b.k[i] + 1
    BY <1>0
  <2> QED BY <1>0, <1>1, <1>7, <2>1, <2>2 DEF Counter
<1>9. b.open[i] # 0 => ~Spent(b, i, b.open[i])
  <2>1. SUFFICES ASSUME b.open[i] # 0, NEW y \in 1..i,
                        b.k[y] = b.k[b.open[i]] + (Wide - 1), b.o[y] = Block - 1
                 PROVE  FALSE
    BY DEF Spent
  <2>2. b.open[i] = i /\ ~(Wide = 1 /\ Block = 1)
    BY <2>1
  <2>3. b.k[y] = x + (Wide - 1)
    BY <1>0, <2>1, <2>2
  <2>4. y = i
    BY <1>0, <1>1, <1>6, <2>3
  <2> QED BY <1>0, <1>1, <2>1, <2>2, <2>3, <2>4
<1>10. ASSUME NEW y \in 1..i, NEW l \in 1..i, Last(b, i, l)
       PROVE  b.k[y] <= b.k[l]
  <2>1. b.at[i] <= b.at[l]
    BY <1>0, <1>10 DEF Last
  <2>2. l = i
    BY <1>0, <1>1, <2>1
  <2> QED BY <1>0, <1>1, <1>6, <2>2
<1>11. ASSUME NEW a \in 0..i - 1, b.open[a] # 0, b.open[i] # b.open[a]
       PROVE  Spent(b, i, b.open[a])
  <2>1. a \in 0..h - 1
    BY <1>0, <1>11
  <2>2. Spent(b, h, b.open[a])
    BY <1>0, <1>2, <1>11, <2>1 DEF Buffer
  <2> QED BY <1>0, <2>2 DEF Spent
<1>12. Buffer(b, i)
  <2>1. b.open[i] \in 0..i
    BY <1>0
  <2> QED BY <1>9, <1>10, <1>11, <2>1 DEF Buffer
<1>13. \A j \in 1..i : Entry(b, j)
  BY <1>0, <1>2, <1>5
<1>14. \A j \in 0..i : Counter(b, j) /\ Buffer(b, j)
  <2>1. \A j \in 0..i : j \in 0..h \/ j = i
    BY <1>0
  <2>2. \A j \in 0..h : Counter(b, j) /\ Buffer(b, j)
    BY <1>0 DEF Lawful
  <2> QED BY <1>8, <1>12, <2>1, <2>2
<1> QED BY <1>13, <1>14 DEF Lawful

\* A later byte of the buffer that byte s opened, after byte l.
StoredIn(b, i, s, l, q, r) ==
    /\ b.open[i - 1] = s /\ b.k[i] = b.k[s] + q /\ b.o[i] = r
    /\ \A j \in 1..i - 1 : b.at[j] <= b.at[i]
    /\ Last(b, i - 1, l)
    /\ r = 0 => b.k[i] = b.k[l] + 1 /\ b.at[l] < b.at[i]
    /\ r # 0 => b.k[i] = b.k[l] /\ b.at[l] = b.at[i]
    /\ b.now[i] = b.now[i - 1]
    /\ b.open[i] = IF q = Wide - 1 /\ r = Block - 1 THEN 0 ELSE s

LEMMA BookStores ==
  ASSUME NEW n \in Nat, NEW b, IsBook(b, n), NEW i \in 1..n, Lawful(b, i - 1),
         NEW s \in 1..i - 1, NEW l \in 1..i - 1, NEW q \in 0..Wide - 1, NEW r \in 0..Block - 1,
         StoredIn(b, i, s, l, q, r)
  PROVE  Lawful(b, i)
<1> /\ b.open[i - 1] = s /\ b.k[i] = b.k[s] + q /\ b.o[i] = r
    /\ \A j \in 1..i - 1 : b.at[j] <= b.at[i]
    /\ Last(b, i - 1, l)
    /\ r = 0 => b.k[i] = b.k[l] + 1 /\ b.at[l] < b.at[i]
    /\ r # 0 => b.k[i] = b.k[l] /\ b.at[l] = b.at[i]
    /\ b.now[i] = b.now[i - 1]
    /\ b.open[i] = IF q = Wide - 1 /\ r = Block - 1 THEN 0 ELSE s
  BY DEF StoredIn
<1> PICK h, x : h = i - 1 /\ x = b.now[h]
  OBVIOUS
<1>0. /\ h \in 0..n /\ h \in Nat /\ i = h + 1 /\ i - 1 = h /\ x \in Nat
      /\ b.now[i] = x /\ b.open[h] = s /\ s \in 1..h /\ l \in 1..h /\ s # 0
      /\ \A j \in 1..i : j \in 1..h \/ j = i
      /\ \A j \in 1..h : j \in 1..n
      /\ Lawful(b, h) /\ Last(b, h, l)
  <2>1. i - 1 \in 0..n /\ i - 1 \in Nat
    OBVIOUS
  <2>2. b.now[i - 1] \in Nat
    BY <2>1, BookType
  <2> QED BY <2>1, <2>2
<1>1. /\ \A j \in 1..n : b.k[j] \in Nat /\ b.at[j] \in Nat
      /\ Wide \in Nat /\ Wide >= 1 /\ Block \in Nat /\ Block >= 1
  BY BookType, StreamAssumption
<1>2. Counter(b, h) /\ Buffer(b, h) /\ \A j \in 1..h : Entry(b, j)
  BY <1>0 DEF Lawful
<1>3. ~Over(b, i)
  BY <1>0 DEF Over
<1>4. \A j \in 1..h : b.at[j] <= b.at[l]
  BY <1>0 DEF Last
<1>5. \A j \in 1..h : Together(b, i, j) => b.k[j] = b.k[i]
  <2>1. ASSUME NEW j \in 1..h, Together(b, i, j) PROVE b.k[j] = b.k[i]
    <3>1. b.at[i] <= b.at[j] /\ b.at[j] <= b.at[l]
      BY <1>4, <2>1 DEF Together
    <3>2. b.at[i] <= b.at[l] /\ r # 0
      BY <1>0, <1>1, <3>1
    <3>3. Together(b, l, j)
      BY <1>0, <1>1, <3>1, <3>2 DEF Together
    <3>4. b.k[l] = b.k[j]
      BY <1>0, <3>3, LastOnes
    <3> QED BY <3>2, <3>4
  <2> QED BY <2>1
<1>6. r # 0 => Together(b, i, l)
  BY <1>0, <1>1 DEF Together
<1>7. Entry(b, i)
  BY <1>0, <1>3, <1>5, <1>6 DEF Entry
<1>8. b.k[s] + Wide <= x
  BY <1>0, <1>2 DEF Counter
<1>9. \A j \in 1..h : b.k[j] < x
  BY <1>0, <1>2 DEF Counter
<1>10. \A j \in 1..i : b.k[j] < b.now[i]
  BY <1>0, <1>1, <1>8, <1>9
<1>11. \/ \E j \in 1..h : x = b.k[j] + 1
       \/ x = b.k[s] + Wide
  BY <1>0, <1>2 DEF Counter
<1>12. Counter(b, i)
  <2>1. b.open[i] # 0 => b.open[i] = s /\ b.k[b.open[i]] + Wide <= b.now[i]
    BY <1>0, <1>8
  <2>2. b.open[i] = 0 /\ x = b.k[s] + Wide => x = b.k[i] + 1
    BY <1>0, <1>1
  <2>3. \/ \E j \in 1..i : b.now[i] = b.k[j] + 1
        \/ b.open[i] # 0 /\ b.now[i] = b.k[b.open[i]] + Wide
    <3>1. CASE \E j \in 1..h : x = b.k[j] + 1
      BY <1>0, <3>1
    <3>2. CASE x = b.k[s] + Wide /\ b.open[i] = 0
      BY <1>0, <2>2, <3>2
    <3>3. CASE x = b.k[s] + Wide /\ b.open[i] # 0
      BY <1>0, <2>1, <3>3
    <3> QED BY <1>11, <3>1, <3>2, <3>3
  <2> QED BY <1>10, <2>1, <2>3 DEF Counter
<1>13. b.open[i] # 0 => ~Spent(b, i, b.open[i])
  <2>1. SUFFICES ASSUME b.open[i] # 0, NEW y \in 1..i,
                        b.k[y] = b.k[b.open[i]] + (Wide - 1), b.o[y] = Block - 1
                 PROVE  FALSE
    BY DEF Spent
  <2>2. b.open[i] = s /\ ~(q = Wide - 1 /\ r = Block - 1)
    BY <2>1
  <2>3. ~Spent(b, h, s)
    BY <1>0, <1>2 DEF Buffer
  <2>4. y = i
    BY <1>0, <2>1, <2>2, <2>3 DEF Spent
  <2> QED BY <1>0, <1>1, <2>1, <2>2, <2>4
<1>14. b.k[l] <= b.k[i]
  BY <1>0, <1>1
<1>15. ASSUME NEW y \in 1..i, NEW m \in 1..i, Last(b, i, m), b.open[i] # 0
       PROVE  (Over(b, y) /\ b.open[y] = b.open[i]) \/ b.k[y] <= b.k[m]
  <2>1. b.at[i] <= b.at[m]
    BY <1>0, <1>15 DEF Last
  <2>2. b.k[m] = b.k[i]
    <3>1. CASE m = i
      BY <3>1
    <3>2. CASE m \in 1..h
      <4>1. Together(b, i, m)
        BY <1>0, <2>1, <3>2 DEF Together
      <4> QED BY <1>5, <3>2, <4>1
    <3> QED BY <1>0, <3>1, <3>2
  <2>3. CASE y = i
    BY <1>0, <1>1, <2>2, <2>3
  <2>4. CASE y \in 1..h
    <3>1. (Over(b, y) /\ b.open[y] = s) \/ b.k[y] <= b.k[l]
      BY <1>0, <1>2, <2>4 DEF Buffer
    <3>2. b.open[i] = s
      BY <1>15
    <3>3. b.k[y] <= b.k[l] => b.k[y] <= b.k[m]
      BY <1>0, <1>1, <1>14, <2>2, <2>4
    <3> QED BY <3>1, <3>2, <3>3
  <2> QED BY <1>0, <2>3, <2>4
<1>16. ASSUME NEW a \in 0..i - 1, b.open[a] # 0, b.open[i] # b.open[a]
       PROVE  Spent(b, i, b.open[a])
  <2>1. CASE b.open[a] = s
    <3>1. q = Wide - 1 /\ r = Block - 1
      BY <1>16, <2>1
    <3> QED BY <1>0, <2>1, <3>1 DEF Spent
  <2>2. CASE b.open[a] # s
    <3>1. a \in 0..h - 1
      BY <1>0, <2>2
    <3>2. Spent(b, h, b.open[a])
      BY <1>0, <1>2, <1>16, <2>2, <3>1 DEF Buffer
    <3> QED BY <1>0, <3>2 DEF Spent
  <2> QED BY <2>1, <2>2
<1>17. Buffer(b, i)
  <2>1. b.open[i] \in 0..i
    BY <1>0
  <2> QED BY <1>13, <1>15, <1>16, <2>1 DEF Buffer
<1>18. \A j \in 1..i : Entry(b, j)
  BY <1>0, <1>2, <1>7
<1>19. \A j \in 0..i : Counter(b, j) /\ Buffer(b, j)
  <2>1. \A j \in 0..i : j \in 0..h \/ j = i
    BY <1>0
  <2>2. \A j \in 0..h : Counter(b, j) /\ Buffer(b, j)
    BY <1>0 DEF Lawful
  <2> QED BY <1>12, <1>17, <2>1, <2>2
<1> QED BY <1>18, <1>19 DEF Lawful

\* A copied byte: the first of its block, or the one after another.
CopiedIn(b, i) ==
    /\ b.open[i] = b.open[i - 1] /\ b.now[i] = b.k[i] + 1
    /\ b.open[i] = 0 => \A j \in 1..i - 1 : b.at[j] <= b.at[i]
    /\ b.open[i] # 0 => /\ \A j \in 1..b.open[i] - 1 : b.at[j] <= b.at[i]
                        /\ b.at[i] < b.at[b.open[i]]
                        /\ b.k[b.open[i]] + Wide <= b.k[i]
    /\ \/ /\ b.o[i] = 0 /\ b.k[i] = b.now[i - 1]
          /\ \A j \in 1..i - 1 : b.at[j] # b.at[i]
       \/ /\ b.o[i] > 0 /\ i # 1 /\ b.at[i] = b.at[i - 1] /\ b.k[i] = b.k[i - 1]
          /\ b.now[i - 1] = b.k[i] + 1

LEMMA BookCopies ==
  ASSUME NEW n \in Nat, NEW b, IsBook(b, n), NEW i \in 1..n, Lawful(b, i - 1), CopiedIn(b, i)
  PROVE  Lawful(b, i)
<1> b.open[i] # 0 => /\ \A j \in 1..b.open[i] - 1 : b.at[j] <= b.at[i]
                     /\ b.at[i] < b.at[b.open[i]]
                     /\ b.k[b.open[i]] + Wide <= b.k[i]
  BY Zenon DEF CopiedIn
<1> b.open[i] = b.open[i - 1] /\ b.now[i] = b.k[i] + 1
  BY DEF CopiedIn
<1> b.open[i] = 0 => \A j \in 1..i - 1 : b.at[j] <= b.at[i]
  BY DEF CopiedIn
<1> \/ /\ b.o[i] = 0 /\ b.k[i] = b.now[i - 1]
       /\ \A j \in 1..i - 1 : b.at[j] # b.at[i]
    \/ /\ b.o[i] > 0 /\ i - 1 \in 1..n /\ b.at[i] = b.at[i - 1] /\ b.k[i] = b.k[i - 1]
       /\ b.now[i - 1] = b.k[i] + 1
  <2>1. i # 1 => i - 1 \in 1..n
    OBVIOUS
  <2> QED BY <2>1 DEF CopiedIn
<1> PICK h, x, s : h = i - 1 /\ x = b.now[h] /\ s = b.open[h]
  OBVIOUS
<1>a. i - 1 \in 0..n /\ i - 1 \in Nat
  OBVIOUS
<1>b. b.now[i - 1] \in Nat /\ b.open[i - 1] \in Nat
  BY <1>a, BookType
<1>0. /\ h \in 0..n /\ h \in Nat /\ i = h + 1 /\ i - 1 = h /\ x \in Nat
      /\ b.open[h] = s /\ b.open[i] = s
      /\ \A j \in 1..i : j \in 1..h \/ j = i
      /\ \A j \in 1..h : j \in 1..n
      /\ Lawful(b, h)
  BY <1>a, <1>b
<1>1. /\ \A j \in 1..n : b.k[j] \in Nat /\ b.at[j] \in Nat /\ b.o[j] \in Nat
      /\ Wide \in Nat /\ Wide >= 1 /\ Block \in Nat /\ Block >= 1
  BY BookType, StreamAssumption
<1>2. Counter(b, h) /\ Buffer(b, h) /\ \A j \in 1..h : Entry(b, j)
  BY <1>0 DEF Lawful
<1>3. s \in 0..h
  BY <1>0, <1>2 DEF Buffer
<1>4. s # 0 => Over(b, i)
  <2>1. ASSUME s # 0 PROVE ~(b.at[s] <= b.at[i])
    BY <1>0, <1>1, <1>3, <2>1
  <2> QED BY <1>0, <1>3, <2>1 DEF Over
<1>5. s = 0 => ~Over(b, i)
  BY <1>0 DEF Over
<1>6. \A j \in 1..h : b.k[j] < x
  BY <1>0, <1>2 DEF Counter
<1>7. ASSUME b.o[i] = 0, b.k[i] = x, \A j \in 1..h : b.at[j] # b.at[i]
      PROVE  Entry(b, i) /\ \A j \in 1..h : b.k[j] < b.now[i]
  <2>1. \A j \in 1..h : ~Together(b, i, j)
    BY <1>0, <1>1, <1>7 DEF Together
  <2>2. Entry(b, i)
    BY <1>0, <1>4, <1>5, <1>7, <2>1 DEF Entry
  <2>3. \A j \in 1..h : b.k[j] < b.now[i]
    BY <1>0, <1>1, <1>6, <1>7
  <2> QED BY <2>2, <2>3
<1>8. ASSUME b.o[i] > 0, h \in 1..n, b.at[i] = b.at[h], b.k[i] = b.k[h], x = b.k[i] + 1
      PROVE  Entry(b, i) /\ \A j \in 1..h : b.k[j] < b.now[i]
  <2>1. Together(b, i, h) /\ h \in 1..h
    BY <1>0, <1>1, <1>8 DEF Together
  <2>2. ASSUME NEW j \in 1..h, Together(b, i, j) PROVE b.k[j] = b.k[i]
    <3>1. CASE j = h
      BY <1>8, <3>1
    <3>2. CASE j \in 1..h - 1
      <4>1. Together(b, h, j)
        BY <1>8, <2>2 DEF Together
      <4>2. Entry(b, h)
        BY <1>2, <2>1
      <4>3. b.k[j] = b.k[h]
        BY <3>2, <4>1, <4>2 DEF Entry
      <4> QED BY <1>8, <4>3
    <3> QED BY <1>0, <3>1, <3>2
  <2>3. Entry(b, i)
    BY <1>0, <1>4, <1>5, <1>8, <2>1, <2>2 DEF Entry
  <2>4. \A j \in 1..h : b.k[j] < b.now[i]
    BY <1>0, <1>6, <1>8
  <2> QED BY <2>3, <2>4
<1>9. Entry(b, i) /\ \A j \in 1..h : b.k[j] < b.now[i]
  BY <1>0, <1>7, <1>8
<1>10. Counter(b, i)
  <2>1. \A j \in 1..i : b.k[j] < b.now[i]
    BY <1>0, <1>1, <1>9
  <2>2. s # 0 => b.k[s] + Wide <= b.now[i]
    <3>1. ASSUME s # 0 PROVE b.k[s] + Wide <= b.now[i]
      <4>1. b.k[s] \in Nat /\ b.k[i] \in Nat /\ b.k[s] + Wide <= b.k[i]
        BY <1>0, <1>1, <1>3, <3>1
      <4> QED BY <1>1, <4>1
    <3> QED BY <3>1
  <2>3. \E j \in 1..i : b.now[i] = b.k[j] + 1
    BY <1>0
  <2> QED BY <1>0, <2>1, <2>2, <2>3 DEF Counter
<1>11. s # 0 => ~Spent(b, i, s)
  <2>1. SUFFICES ASSUME s # 0, NEW y \in 1..i, b.k[y] = b.k[s] + (Wide - 1), b.o[y] = Block - 1
                 PROVE  FALSE
    BY DEF Spent
  <2>2. ~Spent(b, h, s)
    BY <1>0, <1>2, <2>1 DEF Buffer
  <2>3. y = i
    BY <1>0, <2>1, <2>2 DEF Spent
  <2>4. b.k[s] \in Nat /\ b.k[i] \in Nat /\ b.k[s] + Wide <= b.k[i]
    BY <1>0, <1>1, <1>3, <2>1
  <2> QED BY <1>1, <2>1, <2>3, <2>4
<1>12. ASSUME NEW y \in 1..i, NEW m \in 1..i, Last(b, i, m), s # 0
       PROVE  (Over(b, y) /\ b.open[y] = s) \/ b.k[y] <= b.k[m]
  <2>1. b.at[s] <= b.at[m] /\ s \in 1..h
    BY <1>0, <1>3, <1>12 DEF Last
  <2>2. m \in 1..h
    BY <1>0, <1>1, <1>12, <2>1
  <2>3. Last(b, h, m)
    BY <1>0, <1>12, <2>2 DEF Last
  <2>4. CASE y = i
    BY <1>0, <1>4, <1>12, <2>4
  <2>5. CASE y \in 1..h
    BY <1>0, <1>2, <1>12, <2>2, <2>3, <2>5 DEF Buffer
  <2> QED BY <1>0, <2>4, <2>5
<1>13. ASSUME NEW a \in 0..i - 1, b.open[a] # 0, s # b.open[a]
       PROVE  Spent(b, i, b.open[a])
  <2>1. a \in 0..h - 1
    BY <1>0, <1>13
  <2>2. Spent(b, h, b.open[a])
    BY <1>0, <1>2, <1>13, <2>1 DEF Buffer
  <2> QED BY <1>0, <2>2 DEF Spent
<1>14. Buffer(b, i)
  <2>1. b.open[i] \in 0..i
    BY <1>0, <1>3
  <2> QED BY <1>0, <1>11, <1>12, <1>13, <2>1 DEF Buffer
<1>15. \A j \in 1..i : Entry(b, j)
  BY <1>0, <1>2, <1>9
<1>16. \A j \in 0..i : Counter(b, j) /\ Buffer(b, j)
  <2>1. \A j \in 0..i : j \in 0..h \/ j = i
    BY <1>0
  <2>2. \A j \in 0..h : Counter(b, j) /\ Buffer(b, j)
    BY <1>0 DEF Lawful
  <2> QED BY <1>10, <1>14, <2>1, <2>2
<1> QED BY <1>15, <1>16 DEF Lawful

-----------------------------------------------------------------------------
(* Bytes and the blocks they are in.                                       *)

\* Stepping a position by one.
LEMMA NextPlace ==
  ASSUME NEW p \in Nat
  PROVE  /\ Blocks(p + 1) = (p \div Block) + 1
         /\ p % Block = 0 => Blocks(p) = p \div Block
         /\ p % Block # 0 => p - 1 \in Nat /\ (p - 1) \div Block = p \div Block
                             /\ Blocks(p) = (p \div Block) + 1
         /\ p % Block = 0 /\ p # 0 => p - 1 \in Nat /\ (p - 1) \div Block = (p \div Block) - 1
<1> PICK q, r : q = p \div Block /\ r = p % Block
  OBVIOUS
<1>1. q \in Nat /\ r \in 0..Block - 1 /\ p = Block * q + r /\ Block \in Nat /\ Block >= 1
  BY Division, StreamAssumption
<1>2. /\ Block * q \in Nat /\ Block * (q + 1) = Block * q + Block /\ q + 1 \in Nat
      /\ Block * (q - 1) = Block * q - Block
  BY <1>1
<1>3. Blocks(p + 1) = q + 1
  <2>1. p + 1 + Block - 1 = Block * (q + 1) + r
    BY <1>1, <1>2
  <2>2. (Block * (q + 1) + r) \div Block = q + 1
    BY <1>1, <1>2, Quotient
  <2> QED BY <2>1, <2>2 DEF Blocks
<1>4. ASSUME r = 0 PROVE Blocks(p) = q
  <2>1. p + Block - 1 = Block * q + (Block - 1) /\ Block - 1 \in 0..Block - 1
    BY <1>1, <1>4
  <2>2. (Block * q + (Block - 1)) \div Block = q
    BY <1>1, <2>1, Quotient
  <2> QED BY <2>1, <2>2 DEF Blocks
<1>5. ASSUME r # 0 PROVE p - 1 \in Nat /\ (p - 1) \div Block = q /\ Blocks(p) = q + 1
  <2>1. p - 1 = Block * q + (r - 1) /\ r - 1 \in 0..Block - 1 /\ p - 1 \in Nat
    BY <1>1, <1>2, <1>5
  <2>2. (Block * q + (r - 1)) \div Block = q
    BY <1>1, <2>1, Quotient
  <2>3. p + Block - 1 = Block * (q + 1) + (r - 1)
    BY <1>1, <1>2
  <2>4. (Block * (q + 1) + (r - 1)) \div Block = q + 1
    BY <1>2, <2>1, Quotient
  <2> QED BY <2>1, <2>2, <2>3, <2>4 DEF Blocks
<1>6. ASSUME r = 0, p # 0 PROVE p - 1 \in Nat /\ (p - 1) \div Block = q - 1
  <2>1. q >= 1
    BY <1>1, <1>6
  <2>2. p - 1 = Block * (q - 1) + (Block - 1) /\ Block - 1 \in 0..Block - 1 /\ q - 1 \in Nat
    BY <1>1, <1>2, <1>6, <2>1
  <2>3. (Block * (q - 1) + (Block - 1)) \div Block = q - 1
    BY <2>2, Quotient
  <2> QED BY <1>1, <1>6, <2>2, <2>3
<1> QED BY <1>3, <1>4, <1>5, <1>6

\* Positions in order are in blocks in order.
LEMMA PlaceOrder ==
  ASSUME NEW p \in Nat, NEW q \in Nat, p <= q
  PROVE  /\ p \div Block \in Nat /\ q \div Block \in Nat
         /\ p \div Block <= q \div Block
         /\ q % Block = 0 /\ p < q => p \div Block < q \div Block
<1> PICK k, r, l, s : /\ k = p \div Block /\ r = p % Block
                      /\ l = q \div Block /\ s = q % Block
  OBVIOUS
<1>1. /\ k \in Nat /\ r \in 0..Block - 1 /\ p = Block * k + r
      /\ l \in Nat /\ s \in 0..Block - 1 /\ q = Block * l + s
      /\ Block \in Nat /\ Block >= 1
  BY Division, StreamAssumption
<1>2. Block * k \in Nat /\ Block * l \in Nat /\ Block * (l + 1) = Block * l + Block
  BY <1>1
<1>3. ASSUME l + 1 <= k PROVE FALSE
  <2>1. Block * (l + 1) <= Block * k
    BY <1>1, <1>3
  <2> QED BY <1>1, <1>2, <2>1
<1>4. k <= l
  BY <1>1, <1>3
<1>5. ASSUME s = 0, p < q, k = l PROVE FALSE
  BY <1>1, <1>2, <1>5
<1> QED BY <1>1, <1>4, <1>5

\* The bytes of a sequence of blocks.
Cell(V, x, r) == x \in 1..Len(V) /\ r \in 1..Len(V[x])

\* The bytes of a window of a text.
LEMMA Window ==
  ASSUME NEW s \in Seq(Byte), NEW u \in Nat, NEW v \in Nat, u <= v, v <= Len(s)
  PROVE  /\ Len(SubSeq(s, u + 1, v)) = v - u
         /\ \A i \in 1..v - u : SubSeq(s, u + 1, v)[i] = s[u + i]
<1> PICK y, n : y = SubSeq(s, u + 1, v) /\ n = Len(s)
  OBVIOUS
<1>1. n \in Nat /\ v <= n
  BY LenProperties
<1>2. \A i \in u + 1..v : i \in 1..Len(s)
  BY <1>1
<1>3. \A i \in u + 1..v : s[i] \in Byte
  BY <1>2, ElementOfSeq
<1>4. /\ SubSeq(s, u + 1, v) \in Seq(Byte)
      /\ Len(SubSeq(s, u + 1, v)) = IF u + 1 <= v THEN v - (u + 1) + 1 ELSE 0
      /\ \A i \in 1..v - (u + 1) + 1 : SubSeq(s, u + 1, v)[i] = s[u + 1 + i - 1]
  BY <1>3, SubSeqProperties
<1>5. Len(y) = v - u
  BY <1>4
<1>6. ASSUME NEW i \in 1..v - u PROVE y[i] = s[u + i]
  <2>1. i \in 1..v - (u + 1) + 1 /\ u + 1 + i - 1 = u + i
    OBVIOUS
  <2>2. SubSeq(s, u + 1, v)[i] = s[u + 1 + i - 1]
    BY <1>4, <2>1
  <2> QED BY <2>1, <2>2
<1> QED BY <1>5, <1>6

\* A byte of a text is in the block of its position, at its place.
LEMMA ByteInChunk ==
  ASSUME NEW bytes \in Seq(Byte), NEW p \in 0..Len(bytes) - 1
  PROVE  /\ Cell(Chunks(bytes), (p \div Block) + 1, (p % Block) + 1)
         /\ Chunks(bytes)[(p \div Block) + 1][(p % Block) + 1] = bytes[p + 1]
<1>n. PICK n : n = Len(bytes)
  OBVIOUS
<1>V. PICK V : V = Chunks(bytes)
  OBVIOUS
<1>b. PICK b, r : b = p \div Block /\ r = p % Block
  OBVIOUS
<1>a. n \in Nat /\ p \in Nat /\ p < n
  BY <1>n, LenProperties
<1>1. b \in Nat /\ r \in 0..Block - 1 /\ p = Block * b + r
  BY <1>a, <1>b, Division
<1>B. Block \in Nat /\ Block >= 1
  BY StreamAssumption
<1>2. b < Blocks(n)
  <2>i. PICK i : i = p + 1
    OBVIOUS
  <2>1. i \in 1..n /\ i - 1 = p
    BY <1>a, <2>i
  <2>2. \A j \in 1..n : (j - 1) \div Block < Blocks(n)
    BY <1>a, BlockCount
  <2>3. (i - 1) \div Block < Blocks(n)
    BY <2>1, <2>2
  <2> QED BY <1>b, <2>1, <2>3
<1>3. Len(V) = Blocks(n) /\ Blocks(n) \in Nat /\ b + 1 \in 1..Blocks(n)
  <2>1. Len(V) = Blocks(n) /\ Blocks(n) \in Nat
    BY <1>n, <1>V, ChunksOf
  <2> QED BY <1>1, <1>2, <2>1
<1>4. V[b + 1] = Chunk(bytes, b + 1)
  BY <1>n, <1>V, <1>3, ChunksOf
<1>u. PICK u : u = Block * b
  OBVIOUS
<1>h. PICK hi : hi = IF u + Block <= n THEN u + Block ELSE n
  OBVIOUS
<1>5. /\ u \in Nat /\ p = u + r /\ hi \in Nat /\ hi <= n /\ u + 1 <= hi /\ r + 1 <= hi - u
      /\ b * Block = u /\ (b + 1) * Block = u + Block /\ b + 1 - 1 = b
  BY <1>a, <1>1, <1>B, <1>u, <1>h
<1>y. PICK y : y = SubSeq(bytes, u + 1, hi)
  OBVIOUS
<1>6. V[b + 1] = y
  <2>x. PICK x : x = b + 1
    OBVIOUS
  <2>1. (x - 1) * Block = u /\ x * Block = u + Block
    <3>1. x - 1 = b
      BY <1>1, <2>x
    <3>2. b * Block = u /\ (b + 1) * Block = u + Block
      BY <1>5
    <3> QED BY <2>x, <3>1, <3>2, Zenon
  <2>2. V[x] = Chunk(bytes, x)
    BY <1>4, <2>x
  <2>3. V[x] = y
    BY <1>y, <1>n, <1>h, <2>1, <2>2 DEF Chunk
  <2> QED BY <2>x, <2>3
<1>8. Len(y) = hi - u /\ \A i \in 1..hi - u : y[i] = bytes[u + i]
  BY <1>5, <1>n, <1>y, Window
<1>9. r + 1 \in 1..hi - u /\ u + (r + 1) = p + 1
  BY <1>1, <1>B, <1>5
<1>10. y[r + 1] = bytes[p + 1]
  BY <1>8, <1>9
<1>11. r + 1 \in 1..Len(V[b + 1]) /\ V[b + 1][r + 1] = bytes[p + 1]
  BY <1>6, <1>8, <1>9, <1>10
<1>12. Cell(V, b + 1, r + 1)
  BY <1>3, <1>11 DEF Cell
<1> QED BY <1>V, <1>b, <1>11, <1>12

\* And there is no other byte in the blocks of a text.
LEMMA ChunkByte ==
  ASSUME NEW bytes \in Seq(Byte), NEW x, NEW r, Cell(Chunks(bytes), x, r)
  PROVE  \E p \in 0..Len(bytes) - 1 :
           /\ x = (p \div Block) + 1 /\ r = (p % Block) + 1
           /\ Chunks(bytes)[x][r] = bytes[p + 1]
<1>n. PICK n : n = Len(bytes)
  OBVIOUS
<1>V. PICK V : V = Chunks(bytes)
  OBVIOUS
<1>B. Block \in Nat /\ Block >= 1
  BY StreamAssumption
<1>1. n \in Nat /\ V \in Seq(Piece) /\ Len(V) = Blocks(n) /\ Blocks(n) \in Nat
  BY <1>n, <1>V, LenProperties, ChunksOf, ChunksType
<1>2. x \in 1..Blocks(n) /\ r \in 1..Len(V[x]) /\ x \in 1..Len(V)
  BY <1>1, <1>V DEF Cell
<1>3. V[x] \in Piece
  BY <1>1, <1>2, ElementOfSeq
<1>4. Len(V[x]) \in 1..Block /\ r \in 1..Block
  BY <1>B, <1>2, <1>3 DEF Piece
<1>5. V[x] = Chunk(bytes, x)
  BY <1>n, <1>V, <1>2, ChunksOf
<1>b. PICK b : b = x - 1
  OBVIOUS
<1>u. PICK u : u = Block * b
  OBVIOUS
<1>h. PICK hi : hi = IF u + Block <= n THEN u + Block ELSE n
  OBVIOUS
<1>6. /\ b \in Nat /\ u \in Nat /\ x = b + 1 /\ hi \in Nat /\ hi <= n
      /\ (x - 1) * Block = u /\ x * Block = u + Block
  <2>1. b \in Nat /\ x = b + 1
    BY <1>1, <1>2, <1>b
  <2>2. u \in Nat /\ b * Block = u /\ (b + 1) * Block = u + Block
    BY <2>1, <1>B, <1>u
  <2> QED BY <1>1, <1>B, <1>h, <2>1, <2>2
<1>8. u + 1 <= n
  BY <1>1, <1>2, <1>6, BlockCount
<1>9. u <= hi
  BY <1>1, <1>6, <1>8, <1>h, <1>B
<1>y. PICK y : y = SubSeq(bytes, u + 1, hi)
  OBVIOUS
<1>7. V[x] = y
  BY <1>5, <1>6, <1>y, <1>n, <1>h DEF Chunk
<1>10. Len(y) = hi - u /\ \A i \in 1..hi - u : y[i] = bytes[u + i]
  BY <1>6, <1>9, <1>n, <1>y, Window
<1>p. PICK p : p = u + (r - 1)
  OBVIOUS
<1>11. /\ r \in 1..hi - u /\ p \in 0..n - 1 /\ u + r = p + 1 /\ r - 1 \in 0..Block - 1
       /\ p = Block * b + (r - 1)
  <2>1. r \in 1..hi - u
    BY <1>2, <1>7, <1>10
  <2> QED BY <1>1, <1>B, <1>4, <1>6, <1>p, <1>u, <2>1
<1>12. p \div Block = b /\ p % Block = r - 1
  BY <1>6, <1>11, Quotient
<1>13. V[x][r] = bytes[p + 1]
  BY <1>7, <1>10, <1>11
<1>14. x = (p \div Block) + 1 /\ r = (p % Block) + 1
  BY <1>4, <1>6, <1>12
<1> QED BY <1>n, <1>V, <1>11, <1>13, <1>14

-----------------------------------------------------------------------------
(* Where the bytes of a message are.                                       *)

\* The blocks V are the blocks a, then the blocks b.
Laid(V, a, b) ==
    /\ \A x, r : Cell(a, x, r) => Cell(V, x, r) /\ V[x] = a[x]
    /\ \A x, r : Cell(b, x, r) => x \in Nat /\ Cell(V, Len(a) + x, r) /\ V[Len(a) + x] = b[x]
    /\ \A x, r : Cell(V, x, r) =>
         \/ Cell(a, x, r) /\ V[x] = a[x] /\ x <= Len(a)
         \/ \E y \in Nat : x = Len(a) + y /\ Cell(b, y, r) /\ V[x] = b[y]

LEMMA JointCells ==
  ASSUME NEW a \in Seq(Piece), NEW b \in Seq(Piece), NEW V, V = Joint(a, b)
  PROVE  V \in Seq(Piece) /\ Len(a) \in Nat /\ Laid(V, a, b)
<1>m. PICK m, n : m = Len(a) /\ n = Len(b)
  OBVIOUS
<1>1. /\ V \in Seq(Piece) /\ Len(V) = m + n /\ m \in Nat /\ n \in Nat
      /\ \A i \in 1..m : V[i] = a[i]
      /\ \A i \in 1..n : V[m + i] = b[i]
  <2>1. V = a \o b
    BY DEF Joint
  <2> QED BY <1>m, <2>1, Joined
<1>2. ASSUME NEW x, NEW r, Cell(a, x, r) PROVE Cell(V, x, r) /\ V[x] = a[x] /\ x \in 1..m
  <2>1. x \in 1..m /\ r \in 1..Len(a[x])
    BY <1>m, <1>2 DEF Cell
  <2>2. V[x] = a[x] /\ x \in 1..m + n
    BY <1>1, <2>1
  <2> QED BY <1>1, <2>1, <2>2 DEF Cell
<1>3. ASSUME NEW x, NEW r, Cell(b, x, r)
      PROVE  x \in Nat /\ Cell(V, m + x, r) /\ V[m + x] = b[x]
  <2>1. x \in 1..n /\ r \in 1..Len(b[x])
    BY <1>m, <1>3 DEF Cell
  <2>2. V[m + x] = b[x] /\ m + x \in 1..m + n /\ x \in Nat
    BY <1>1, <2>1
  <2> QED BY <1>1, <2>1, <2>2 DEF Cell
<1>4. ASSUME NEW x, NEW r, Cell(V, x, r)
      PROVE  \/ Cell(a, x, r) /\ V[x] = a[x] /\ x <= m
             \/ \E y \in Nat : x = m + y /\ Cell(b, y, r) /\ V[x] = b[y]
  <2>1. x \in 1..m + n /\ r \in 1..Len(V[x])
    BY <1>1, <1>4 DEF Cell
  <2>2. CASE x <= m
    <3>1. x \in 1..m /\ V[x] = a[x]
      BY <1>1, <2>1, <2>2
    <3> QED BY <1>m, <2>1, <2>2, <3>1 DEF Cell
  <2>3. CASE ~(x <= m)
    <3>y. PICK y : y = x - m
      OBVIOUS
    <3>1. y \in 1..n /\ x = m + y /\ y \in Nat
      BY <1>1, <2>1, <2>3, <3>y
    <3>2. V[x] = b[y]
      BY <1>1, <3>1
    <3>3. Cell(b, y, r)
      BY <1>m, <2>1, <3>1, <3>2 DEF Cell
    <3> QED BY <3>1, <3>2, <3>3
  <2> QED BY <2>2, <2>3
<1>5. Laid(V, a, b)
  BY <1>m, <1>2, <1>3, <1>4 DEF Laid
<1> QED BY <1>m, <1>1, <1>5

\* One more byte in the buffer.
LEMMA BufferCells ==
  ASSUME NEW hash \in Seq(Piece), NEW gmac \in Seq(Byte), NEW c \in Byte,
         NEW V, V = Joint(hash, Chunks(gmac)), NEW W, W = Joint(hash, Chunks(Append(gmac, c))),
         NEW X, X = Len(hash) + 1 + (Len(gmac) \div Block), NEW R, R = (Len(gmac) % Block) + 1
  PROVE  /\ Cell(W, X, R) /\ W[X][R] = c
         /\ \A x, r : Cell(V, x, r) => Cell(W, x, r) /\ W[x][r] = V[x][r]
         /\ \A x, r : Cell(W, x, r) => (x = X /\ r = R) \/ Cell(V, x, r)
<1>g. PICK g : g = Append(gmac, c)
  OBVIOUS
<1>p. PICK p : p = Len(gmac)
  OBVIOUS
<1>L. PICK L : L = Len(hash)
  OBVIOUS
<1>1. p \in Nat /\ g \in Seq(Byte) /\ Len(g) = p + 1 /\ g[p + 1] = c
      /\ \A i \in 1..p : g[i] = gmac[i]
  <2>1. /\ g \in Seq(Byte) /\ Len(g) = Len(gmac) + 1
        /\ \A i \in 1..Len(gmac) : g[i] = gmac[i]
        /\ g[Len(gmac) + 1] = c
    BY <1>g, AppendProperties
  <2> QED BY <1>p, <2>1, LenProperties
<1>2. Chunks(gmac) \in Seq(Piece) /\ Chunks(g) \in Seq(Piece) /\ L \in Nat
  BY <1>1, <1>L, ChunksType, LenProperties
<1>G. PICK G, H : G = Chunks(gmac) /\ H = Chunks(g)
  OBVIOUS
<1>3. /\ \A x, r : Cell(hash, x, r) => Cell(V, x, r) /\ V[x] = hash[x]
      /\ \A x, r : Cell(G, x, r) => x \in Nat /\ Cell(V, L + x, r) /\ V[L + x] = G[x]
      /\ \A x, r : Cell(V, x, r) =>
           \/ Cell(hash, x, r) /\ V[x] = hash[x] /\ x <= L
           \/ \E y \in Nat : x = L + y /\ Cell(G, y, r) /\ V[x] = G[y]
  <2>1. V = Joint(hash, G) /\ G \in Seq(Piece)
    BY <1>2, <1>G
  <2>2. Laid(V, hash, G)
    BY <2>1, JointCells
  <2> QED BY <1>L, <2>2 DEF Laid
<1>4. /\ \A x, r : Cell(hash, x, r) => Cell(W, x, r) /\ W[x] = hash[x]
      /\ \A x, r : Cell(H, x, r) => x \in Nat /\ Cell(W, L + x, r) /\ W[L + x] = H[x]
      /\ \A x, r : Cell(W, x, r) =>
           \/ Cell(hash, x, r) /\ W[x] = hash[x] /\ x <= L
           \/ \E y \in Nat : x = L + y /\ Cell(H, y, r) /\ W[x] = H[y]
  <2>1. W = Joint(hash, H) /\ H \in Seq(Piece)
    BY <1>2, <1>G, <1>g
  <2>2. Laid(W, hash, H)
    BY <2>1, JointCells
  <2> QED BY <1>L, <2>2 DEF Laid
<1>5. \A i \in 0..p : Cell(H, (i \div Block) + 1, (i % Block) + 1)
                      /\ H[(i \div Block) + 1][(i % Block) + 1] = g[i + 1]
  <2>1. \A i \in 0..p : i \in 0..Len(g) - 1
    BY <1>1
  <2> QED BY <1>1, <1>G, <2>1, ByteInChunk
<1>6. \A x, r : Cell(H, x, r) => \E i \in 0..p :
         x = (i \div Block) + 1 /\ r = (i % Block) + 1 /\ H[x][r] = g[i + 1]
  <2>1. \A i \in 0..Len(g) - 1 : i \in 0..p
    BY <1>1
  <2> QED BY <1>1, <1>G, <2>1, ChunkByte
<1>7. \A i \in 0..p - 1 : Cell(G, (i \div Block) + 1, (i % Block) + 1)
                      /\ G[(i \div Block) + 1][(i % Block) + 1] = gmac[i + 1]
  BY <1>p, <1>G, ByteInChunk
<1>8. \A x, r : Cell(G, x, r) => \E i \in 0..p - 1 :
         x = (i \div Block) + 1 /\ r = (i % Block) + 1 /\ G[x][r] = gmac[i + 1]
  BY <1>p, <1>G, ChunkByte
<1>9. p \div Block \in Nat /\ X = L + ((p \div Block) + 1) /\ R = (p % Block) + 1 /\ p \in 0..p
  <2>1. p \div Block \in Nat
    BY <1>1, Division
  <2>2. X = L + 1 + (p \div Block) /\ R = (p % Block) + 1
    BY <1>L, <1>p
  <2>q. PICK q : q = p \div Block
    OBVIOUS
  <2>3. L + 1 + q = L + (q + 1)
    BY <1>2, <2>1, <2>q
  <2> QED BY <1>1, <2>1, <2>2, <2>3, <2>q
<1>10. Cell(W, X, R) /\ W[X][R] = c
  <2>1. Cell(H, (p \div Block) + 1, (p % Block) + 1)
        /\ H[(p \div Block) + 1][(p % Block) + 1] = g[p + 1]
    BY <1>5, <1>9
  <2> QED BY <1>1, <1>4, <1>9, <2>1
<1>11. ASSUME NEW x, NEW r, Cell(G, x, r) PROVE Cell(H, x, r) /\ H[x][r] = G[x][r]
  <2>1. PICK i \in 0..p - 1 : x = (i \div Block) + 1 /\ r = (i % Block) + 1 /\ G[x][r] = gmac[i + 1]
    BY <1>8, <1>11
  <2>2. i \in 0..p /\ i + 1 \in 1..p
    BY <1>1
  <2>3. Cell(H, x, r) /\ H[x][r] = g[i + 1]
    BY <1>5, <2>1, <2>2
  <2> QED BY <1>1, <2>1, <2>2, <2>3
<1>12. ASSUME NEW x, NEW r, Cell(V, x, r) PROVE Cell(W, x, r) /\ W[x][r] = V[x][r]
  <2>1. CASE Cell(hash, x, r) /\ V[x] = hash[x]
    BY <1>4, <2>1
  <2>2. CASE \E y \in Nat : x = L + y /\ Cell(G, y, r) /\ V[x] = G[y]
    <3>1. PICK y \in Nat : x = L + y /\ Cell(G, y, r) /\ V[x] = G[y]
      BY <2>2
    <3>2. Cell(H, y, r) /\ H[y][r] = G[y][r]
      BY <1>11, <3>1
    <3> QED BY <1>4, <3>1, <3>2
  <2> QED BY <1>3, <1>12, <2>1, <2>2
<1>13. ASSUME NEW x, NEW r, Cell(W, x, r), ~(x = X /\ r = R) PROVE Cell(V, x, r)
  <2>1. CASE Cell(hash, x, r)
    BY <1>3, <2>1
  <2>2. CASE \E y \in Nat : x = L + y /\ Cell(H, y, r) /\ W[x] = H[y]
    <3>1. PICK y \in Nat : x = L + y /\ Cell(H, y, r) /\ W[x] = H[y]
      BY <2>2
    <3>2. PICK i \in 0..p : y = (i \div Block) + 1 /\ r = (i % Block) + 1
      BY <1>6, <3>1
    <3>3. i # p
      BY <1>9, <1>13, <3>1, <3>2
    <3>4. i \in 0..p - 1
      BY <1>1, <3>3
    <3>5. Cell(G, y, r)
      BY <1>7, <3>2, <3>4
    <3> QED BY <1>3, <3>1, <3>5
  <2> QED BY <1>4, <1>13, <2>1, <2>2
<1> QED BY <1>10, <1>12, <1>13

\* The blocks W are the blocks V with the blocks b after the first L.
Inserted(V, W, L, b) ==
    /\ \A x, r : Cell(V, x, r) => IF x <= L THEN Cell(W, x, r) /\ W[x] = V[x]
                                   ELSE Cell(W, x + Len(b), r) /\ W[x + Len(b)] = V[x]
    /\ \A y, r : Cell(b, y, r) => y \in Nat /\ Cell(W, L + y, r) /\ W[L + y] = b[y]
    /\ \A x, r : Cell(W, x, r) =>
         \/ Cell(V, x, r) /\ x <= L
         \/ \E z \in Nat : x = z + Len(b) /\ Cell(V, z, r) /\ ~(z <= L)
         \/ \E y \in Nat : x = L + y /\ Cell(b, y, r)

\* Blocks absorbed in front of those that wait.
LEMMA InsertedCells ==
  ASSUME NEW a \in Seq(Piece), NEW b \in Seq(Piece), NEW g \in Seq(Piece),
         NEW V, V = Joint(a, g), NEW W, W = Joint(Joint(a, b), g),
         NEW L, L = Len(a), NEW d, d = Len(b)
  PROVE  Inserted(V, W, L, b)
<1>c. PICK c : c = Joint(a, b)
  OBVIOUS
<1>1. /\ c \in Seq(Piece) /\ L \in Nat
      /\ \A x, r : Cell(a, x, r) => Cell(c, x, r) /\ c[x] = a[x]
      /\ \A x, r : Cell(b, x, r) => x \in Nat /\ Cell(c, L + x, r) /\ c[L + x] = b[x]
      /\ \A x, r : Cell(c, x, r) =>
           \/ Cell(a, x, r) /\ c[x] = a[x] /\ x <= L
           \/ \E y \in Nat : x = L + y /\ Cell(b, y, r) /\ c[x] = b[y]
  <2>1. c \in Seq(Piece) /\ L \in Nat /\ Laid(c, a, b)
    BY <1>c, JointCells
  <2> QED BY <2>1 DEF Laid
<1>2. Len(c) = L + d /\ d \in Nat
  <2>1. c = a \o b
    BY <1>c DEF Joint
  <2> QED BY <2>1, Joined
<1>3. /\ \A x, r : Cell(a, x, r) => Cell(V, x, r) /\ V[x] = a[x]
      /\ \A x, r : Cell(g, x, r) => x \in Nat /\ Cell(V, L + x, r) /\ V[L + x] = g[x]
      /\ \A x, r : Cell(V, x, r) =>
           \/ Cell(a, x, r) /\ V[x] = a[x] /\ x <= L
           \/ \E y \in Nat : x = L + y /\ Cell(g, y, r) /\ V[x] = g[y]
  <2>1. Laid(V, a, g)
    BY JointCells
  <2> QED BY <2>1 DEF Laid
<1>4. /\ \A x, r : Cell(c, x, r) => Cell(W, x, r) /\ W[x] = c[x]
      /\ \A x, r : Cell(g, x, r) => x \in Nat /\ Cell(W, L + d + x, r) /\ W[L + d + x] = g[x]
      /\ \A x, r : Cell(W, x, r) =>
           \/ Cell(c, x, r) /\ W[x] = c[x] /\ x <= L + d
           \/ \E y \in Nat : x = L + d + y /\ Cell(g, y, r) /\ W[x] = g[y]
  <2>1. W = Joint(c, g) /\ c \in Seq(Piece)
    BY <1>c, <1>1
  <2>2. Laid(W, c, g)
    BY <2>1, JointCells
  <2> QED BY <1>2, <2>2 DEF Laid
<1>5. \A y, r : Cell(g, y, r) => y \in Nat /\ y >= 1
  <2>1. Len(g) \in Nat
    BY LenProperties
  <2> QED BY <2>1 DEF Cell
<1>6. ASSUME NEW x, NEW r, Cell(V, x, r)
      PROVE  IF x <= L THEN Cell(W, x, r) /\ W[x] = V[x]
                       ELSE Cell(W, x + d, r) /\ W[x + d] = V[x]
  <2>1. CASE Cell(a, x, r) /\ V[x] = a[x] /\ x <= L
    BY <1>1, <1>4, <2>1
  <2>2. CASE \E y \in Nat : x = L + y /\ Cell(g, y, r) /\ V[x] = g[y]
    <3>1. PICK y \in Nat : x = L + y /\ Cell(g, y, r) /\ V[x] = g[y]
      BY <2>2
    <3>2. ~(x <= L) /\ x + d = L + d + y
      BY <1>1, <1>2, <1>5, <3>1
    <3> QED BY <1>4, <3>1, <3>2
  <2> QED BY <1>3, <1>6, <2>1, <2>2
<1>7. ASSUME NEW y, NEW r, Cell(b, y, r)
      PROVE  y \in Nat /\ Cell(W, L + y, r) /\ W[L + y] = b[y]
  BY <1>1, <1>4, <1>7
<1>8. ASSUME NEW x, NEW r, Cell(W, x, r)
      PROVE  \/ Cell(V, x, r) /\ x <= L
             \/ \E z \in Nat : x = z + d /\ Cell(V, z, r) /\ ~(z <= L)
             \/ \E y \in Nat : x = L + y /\ Cell(b, y, r)
  <2>1. CASE Cell(c, x, r)
    BY <1>1, <1>3, <2>1
  <2>2. CASE \E y \in Nat : x = L + d + y /\ Cell(g, y, r) /\ W[x] = g[y]
    <3>1. PICK y \in Nat : x = L + d + y /\ Cell(g, y, r)
      BY <2>2
    <3>z. PICK z : z = L + y
      OBVIOUS
    <3>2. z \in Nat /\ x = z + d /\ ~(z <= L)
      BY <1>1, <1>2, <1>5, <3>1, <3>z
    <3>3. Cell(V, z, r)
      BY <1>3, <3>1, <3>z
    <3> QED BY <3>2, <3>3
  <2> QED BY <1>4, <1>8, <2>1, <2>2
<1> QED BY <1>6, <1>7, <1>8 DEF Inserted

\* A byte of the AAD of a message.
OfAad(iv, c) == c.ks = NoKey /\ c.pt[1] = iv

\* Each byte of the text is in the blocks where the book has it, and there is
\* nothing else in them but AAD.
Placed(b, V, ct, n) ==
    \A j \in 1..n : Cell(V, b.at[j], b.o[j] + 1) /\ V[b.at[j]][b.o[j] + 1] = ct[j]

Listed(b, V, iv, ct, n) ==
    \A x, r : Cell(V, x, r) => \/ OfAad(iv, V[x][r])
                               \/ \E j \in 1..n : /\ b.at[j] = x /\ b.o[j] + 1 = r
                                                  /\ V[x][r] = ct[j]

Filed(b, V, iv, ct, n) == Placed(b, V, ct, n) /\ Listed(b, V, iv, ct, n)

LEMMA FiledStore ==
  ASSUME NEW hash \in Seq(Piece), NEW gmac \in Seq(Byte), NEW n \in Nat, NEW iv,
         NEW b, IsBook(b, n), NEW ct, NEW e, NEW ct1,
         Filed(b, Joint(hash, Chunks(gmac)), iv, ct, n), ct1[n + 1] \in Byte,
         \A j \in 1..n : e.at[j] = b.at[j] /\ e.o[j] = b.o[j] /\ ct1[j] = ct[j],
         e.at[n + 1] = Len(hash) + 1 + (Len(gmac) \div Block), e.o[n + 1] = Len(gmac) % Block
  PROVE  Filed(e, Joint(hash, Chunks(Append(gmac, ct1[n + 1]))), iv, ct1, n + 1)
<1>c. PICK c : c = ct1[n + 1]
  OBVIOUS
<1>V. PICK V, W : V = Joint(hash, Chunks(gmac)) /\ W = Joint(hash, Chunks(Append(gmac, c)))
  OBVIOUS
<1>X. PICK X, R : X = Len(hash) + 1 + (Len(gmac) \div Block) /\ R = (Len(gmac) % Block) + 1
  OBVIOUS
<1>1. /\ Cell(W, X, R) /\ W[X][R] = c
      /\ \A x, r : Cell(V, x, r) => Cell(W, x, r) /\ W[x][r] = V[x][r]
      /\ \A x, r : Cell(W, x, r) => (x = X /\ r = R) \/ Cell(V, x, r)
  BY <1>c, <1>V, <1>X, BufferCells
<1>2. e.at[n + 1] = X /\ e.o[n + 1] + 1 = R
  BY <1>X
<1>3. \A j \in 1..n + 1 : j \in 1..n \/ j = n + 1
  OBVIOUS
<1>4. Placed(b, V, ct, n) /\ Listed(b, V, iv, ct, n)
  BY <1>V DEF Filed
<1>5. ASSUME NEW j \in 1..n + 1
      PROVE  Cell(W, e.at[j], e.o[j] + 1) /\ W[e.at[j]][e.o[j] + 1] = ct1[j]
  <2>1. CASE j = n + 1
    BY <1>1, <1>2, <1>c, <2>1
  <2>2. CASE j \in 1..n
    <3>1. Cell(V, b.at[j], b.o[j] + 1) /\ V[b.at[j]][b.o[j] + 1] = ct[j]
      BY <1>4, <2>2 DEF Placed
    <3>2. e.at[j] = b.at[j] /\ e.o[j] = b.o[j] /\ ct1[j] = ct[j]
      BY <2>2
    <3> QED BY <1>1, <3>1, <3>2
  <2> QED BY <1>3, <2>1, <2>2
<1>6. ASSUME NEW x, NEW r, Cell(W, x, r), ~OfAad(iv, W[x][r])
      PROVE  \E j \in 1..n + 1 : e.at[j] = x /\ e.o[j] + 1 = r /\ W[x][r] = ct1[j]
  <2>1. CASE x = X /\ r = R
    <3>1. n + 1 \in 1..n + 1
      OBVIOUS
    <3> QED BY <1>1, <1>2, <1>c, <2>1, <3>1
  <2>2. CASE Cell(V, x, r)
    <3>1. W[x][r] = V[x][r]
      BY <1>1, <2>2
    <3>2. PICK j \in 1..n : b.at[j] = x /\ b.o[j] + 1 = r /\ V[x][r] = ct[j]
      BY <1>4, <1>6, <2>2, <3>1 DEF Listed
    <3>3. j \in 1..n + 1 /\ e.at[j] = b.at[j] /\ e.o[j] = b.o[j] /\ ct1[j] = ct[j]
      BY <3>2
    <3> QED BY <3>1, <3>2, <3>3
  <2> QED BY <1>1, <1>6, <2>1, <2>2
<1>7. Placed(e, W, ct1, n + 1)
  BY <1>5 DEF Placed
<1>8. Listed(e, W, iv, ct1, n + 1)
  BY <1>6 DEF Listed
<1> QED BY <1>7, <1>8, <1>c, <1>V DEF Filed

\* Blocks of text or of AAD absorbed in front of the buffer.
Shifted(b, e, n, m, L, d, ct, ct1, bytes) ==
    /\ \A j \in 1..n : /\ e.at[j] = IF b.at[j] <= L THEN b.at[j] ELSE b.at[j] + d
                       /\ e.o[j] = b.o[j] /\ ct1[j] = ct[j]
    /\ \A q \in 1..m : /\ q <= Len(bytes)
                       /\ e.at[n + q] = L + 1 + ((q - 1) \div Block)
                       /\ e.o[n + q] = (q - 1) % Block /\ ct1[n + q] = bytes[q]

LEMMA FiledInsert ==
  ASSUME NEW hash \in Seq(Piece), NEW gmac \in Seq(Byte), NEW bytes \in Seq(Byte),
         NEW n \in Nat, NEW m \in Nat, NEW iv,
         NEW b, IsBook(b, n), NEW ct, NEW e, NEW ct1,
         Filed(b, Joint(hash, Chunks(gmac)), iv, ct, n),
         NEW L, L = Len(hash), NEW d, d = Blocks(Len(bytes)),
         Shifted(b, e, n, m, L, d, ct, ct1, bytes),
         \A q \in 1..Len(bytes) : OfAad(iv, bytes[q]) \/ q <= m
  PROVE  Filed(e, Joint(Joint(hash, Chunks(bytes)), Chunks(gmac)), iv, ct1, n + m)
<1>o. \A j \in 1..n : /\ e.at[j] = IF b.at[j] <= L THEN b.at[j] ELSE b.at[j] + d
                      /\ e.o[j] = b.o[j] /\ ct1[j] = ct[j]
  BY DEF Shifted
<1>m. \A q \in 1..m : /\ q <= Len(bytes)
                      /\ e.at[n + q] = L + 1 + ((q - 1) \div Block)
                      /\ e.o[n + q] = (q - 1) % Block /\ ct1[n + q] = bytes[q]
  BY DEF Shifted
<1>N. PICK N, G : N = Chunks(bytes) /\ G = Chunks(gmac)
  OBVIOUS
<1>V. PICK V, W : V = Joint(hash, G) /\ W = Joint(Joint(hash, N), G)
  OBVIOUS
<1>k. PICK k : k = Len(bytes)
  OBVIOUS
<1>1. N \in Seq(Piece) /\ G \in Seq(Piece) /\ Len(N) = d /\ L \in Nat /\ d \in Nat /\ k \in Nat
  BY <1>N, <1>k, ChunksType, ChunksOf, LenProperties
<1>2. /\ \A x, r : Cell(V, x, r) => IF x <= L THEN Cell(W, x, r) /\ W[x] = V[x]
                                              ELSE Cell(W, x + d, r) /\ W[x + d] = V[x]
      /\ \A y, r : Cell(N, y, r) => y \in Nat /\ Cell(W, L + y, r) /\ W[L + y] = N[y]
      /\ \A x, r : Cell(W, x, r) =>
           \/ Cell(V, x, r) /\ x <= L
           \/ \E z \in Nat : x = z + d /\ Cell(V, z, r) /\ ~(z <= L)
           \/ \E y \in Nat : x = L + y /\ Cell(N, y, r)
  <2>1. Inserted(V, W, L, N)
    BY <1>1, <1>V, InsertedCells
  <2> QED BY <1>1, <2>1 DEF Inserted
<1>3. \A j \in 1..n + m : j \in 1..n \/ \E q \in 1..m : j = n + q
  <2>1. ASSUME NEW j \in 1..n + m, ~(j \in 1..n) PROVE \E q \in 1..m : j = n + q
    <3>1. j - n \in 1..m /\ j = n + (j - n)
      BY <2>1
    <3> QED BY <3>1
  <2> QED BY <2>1
<1>4. Placed(b, V, ct, n) /\ Listed(b, V, iv, ct, n)
  BY <1>V, <1>N DEF Filed
<1>5. ASSUME NEW j \in 1..n
      PROVE  Cell(W, e.at[j], e.o[j] + 1) /\ W[e.at[j]][e.o[j] + 1] = ct1[j]
  <2>1. Cell(V, b.at[j], b.o[j] + 1) /\ V[b.at[j]][b.o[j] + 1] = ct[j]
    BY <1>4 DEF Placed
  <2>2. e.at[j] = (IF b.at[j] <= L THEN b.at[j] ELSE b.at[j] + d) /\ e.o[j] = b.o[j] /\ ct1[j] = ct[j]
    BY <1>o
  <2> QED BY <1>2, <2>1, <2>2
<1>6. ASSUME NEW q \in 1..m
      PROVE  Cell(W, e.at[n + q], e.o[n + q] + 1) /\ W[e.at[n + q]][e.o[n + q] + 1] = ct1[n + q]
  <2>p. PICK p : p = q - 1
    OBVIOUS
  <2>1. p \in 0..Len(bytes) - 1 /\ p + 1 = q /\ p \in Nat /\ k = Len(bytes)
    <3>1. q <= k
      BY <1>k, <1>m
    <3> QED BY <1>1, <1>k, <2>p, <3>1
  <2>2. /\ Cell(N, (p \div Block) + 1, (p % Block) + 1)
        /\ N[(p \div Block) + 1][(p % Block) + 1] = bytes[q]
    BY <1>N, <2>1, ByteInChunk
  <2>3. e.at[n + q] = L + 1 + (p \div Block) /\ e.o[n + q] = p % Block /\ ct1[n + q] = bytes[q]
    BY <1>m, <2>p
  <2>y. PICK y : y = p \div Block
    OBVIOUS
  <2>4. y \in Nat /\ L + 1 + y = L + (y + 1)
    <3>1. y \in Nat
      BY <2>1, <2>y, Division
    <3> QED BY <1>1, <3>1
  <2>5. Cell(W, L + (y + 1), (p % Block) + 1) /\ W[L + (y + 1)] = N[y + 1]
    BY <1>2, <2>2, <2>y
  <2> QED BY <2>2, <2>3, <2>4, <2>5, <2>y
<1>7. Placed(e, W, ct1, n + m)
  BY <1>3, <1>5, <1>6 DEF Placed
<1>8. ASSUME NEW x, NEW r, Cell(V, x, r), ~OfAad(iv, V[x][r])
      PROVE  \E j \in 1..n + m : /\ e.at[j] = IF x <= L THEN x ELSE x + d
                                 /\ e.o[j] + 1 = r /\ V[x][r] = ct1[j]
  <2>1. PICK j \in 1..n : b.at[j] = x /\ b.o[j] + 1 = r /\ V[x][r] = ct[j]
    BY <1>4, <1>8 DEF Listed
  <2>2. j \in 1..n + m
    OBVIOUS
  <2> QED BY <1>o, <2>1, <2>2
<1>9. ASSUME NEW y, NEW r, Cell(N, y, r), ~OfAad(iv, N[y][r])
      PROVE  \E j \in 1..n + m : e.at[j] = L + y /\ e.o[j] + 1 = r /\ N[y][r] = ct1[j]
  <2>1. PICK p \in 0..Len(bytes) - 1 :
          y = (p \div Block) + 1 /\ r = (p % Block) + 1 /\ N[y][r] = bytes[p + 1]
    BY <1>N, <1>9, ChunkByte
  <2>q. PICK q : q = p + 1
    OBVIOUS
  <2>2. q \in 1..Len(bytes) /\ q - 1 = p /\ p \in Nat
    BY <1>1, <1>k, <2>q
  <2>3. q \in 1..m
    BY <1>9, <2>1, <2>2, <2>q
  <2>4. e.at[n + q] = L + 1 + (p \div Block) /\ e.o[n + q] = p % Block /\ ct1[n + q] = bytes[q]
    BY <1>m, <2>2, <2>3
  <2>z. PICK z : z = p \div Block
    OBVIOUS
  <2>5. z \in Nat /\ L + 1 + z = L + (z + 1)
    <3>1. z \in Nat
      BY <2>2, <2>z, Division
    <3> QED BY <1>1, <3>1
  <2>6. n + q \in 1..n + m
    BY <2>3
  <2>7. e.at[n + q] = L + y /\ e.o[n + q] + 1 = r /\ N[y][r] = ct1[n + q]
    BY <2>1, <2>4, <2>5, <2>q, <2>z
  <2> QED BY <2>6, <2>7
<1>10. ASSUME NEW x, NEW r, Cell(W, x, r), ~OfAad(iv, W[x][r])
       PROVE  \E j \in 1..n + m : e.at[j] = x /\ e.o[j] + 1 = r /\ W[x][r] = ct1[j]
  <2>1. CASE Cell(V, x, r) /\ x <= L
    <3>1. W[x] = V[x]
      BY <1>2, <2>1
    <3> QED BY <1>8, <1>10, <2>1, <3>1
  <2>2. CASE \E z \in Nat : x = z + d /\ Cell(V, z, r) /\ ~(z <= L)
    <3>1. PICK z \in Nat : x = z + d /\ Cell(V, z, r) /\ ~(z <= L)
      BY <2>2
    <3>2. W[x] = V[z]
      BY <1>2, <3>1
    <3> QED BY <1>8, <1>10, <3>1, <3>2
  <2>3. CASE \E y \in Nat : x = L + y /\ Cell(N, y, r)
    <3>1. PICK y \in Nat : x = L + y /\ Cell(N, y, r)
      BY <2>3
    <3>2. W[x] = N[y]
      BY <1>2, <3>1
    <3> QED BY <1>9, <1>10, <3>1, <3>2
  <2> QED BY <1>2, <1>10, <2>1, <2>2, <2>3
<1>11. Listed(e, W, iv, ct1, n + m)
  BY <1>10 DEF Listed
<1> QED BY <1>7, <1>11, <1>N, <1>V DEF Filed

-----------------------------------------------------------------------------
(* The book and the wrapper.                                               *)

\* The wrapper after n bytes, L blocks absorbed: the counter is the book's,
\* and the buffers are those of the open buffer, if there is one.
Desk(b, n, iv, L, ctr, ks, pos, gmac) ==
    /\ b.now[n] = ctr
    /\ b.open[n] = 0 => pos = End /\ gmac = << >> /\ \A j \in 1..n : b.at[j] <= L
    /\ b.open[n] # 0 =>
         /\ b.open[n] \in 1..n /\ pos \in 1..End - 1 /\ Len(gmac) = pos
         /\ ks = <<iv, b.k[b.open[n]]>> /\ b.at[b.open[n]] = L + 1
         /\ \A j \in 1..b.open[n] - 1 : b.at[j] <= L
         /\ \E l \in 1..n : /\ Last(b, n, l) /\ b.at[l] = L + 1 + ((pos - 1) \div Block)
                            /\ b.k[l] = b.k[b.open[n]] + ((pos - 1) \div Block)

Keeps(b, n, iv, hash, ctr, ks, pos, gmac, ct) ==
    /\ Law(b, n) /\ Desk(b, n, iv, Len(hash), ctr, ks, pos, gmac)
    /\ Filed(b, Joint(hash, Chunks(gmac)), iv, ct, n)

\* The last place of a buffer.
LEMMA LastPlace ==
  ASSUME NEW p \in 0..End - 1
  PROVE  /\ p \in Nat /\ p \div Block \in 0..Wide - 1 /\ p % Block \in 0..Block - 1
         /\ p + 1 = End <=> (p \div Block = Wide - 1 /\ p % Block = Block - 1)
<1>B. Block \in Nat /\ Block >= 1 /\ Wide \in Nat /\ Wide >= 1 /\ End = Wide * Block
  BY StreamAssumption DEF End
<1>0. p \in Nat /\ p < End
  BY EndPositive
<1>q. PICK q, r : q = p \div Block /\ r = p % Block
  OBVIOUS
<1>1. q \in Nat /\ r \in 0..Block - 1 /\ p = Block * q + r
  BY <1>0, <1>q, Division
<1>2. q < Wide
  BY <1>q, InsideBuffer
<1>3. Wide * Block = Block * (Wide - 1) + Block /\ Block * (Wide - 1) \in Nat
  BY <1>B
<1>4. ASSUME q = Wide - 1, r = Block - 1 PROVE p + 1 = End
  BY <1>B, <1>1, <1>3, <1>4
<1>5. ASSUME p + 1 = End PROVE q = Wide - 1 /\ r = Block - 1
  <2>1. p = Block * (Wide - 1) + (Block - 1)
    BY <1>0, <1>B, <1>3, <1>5
  <2>2. Wide - 1 \in Nat /\ Block - 1 \in 0..Block - 1
    BY <1>B
  <2>3. p \div Block = Wide - 1 /\ p % Block = Block - 1
    BY <2>1, <2>2, Quotient
  <2> QED BY <1>q, <2>3
<1>6. q \in 0..Wide - 1
  BY <1>B, <1>1, <1>2
<1> QED BY <1>0, <1>q, <1>1, <1>4, <1>5, <1>6

\* A book with room for one more byte.
Grown(b, e, n, k1, o1, at1, open1, now1) ==
    /\ IsBook(e, n + 1) /\ Lawful(e, n)
    /\ \A j \in 1..n : e.k[j] = b.k[j] /\ e.o[j] = b.o[j] /\ e.at[j] = b.at[j]
    /\ \A j \in 0..n : e.open[j] = b.open[j] /\ e.now[j] = b.now[j]
    /\ e.k[n + 1] = k1 /\ e.o[n + 1] = o1 /\ e.at[n + 1] = at1
    /\ e.open[n + 1] = open1 /\ e.now[n + 1] = now1

LEMMA BookGrows ==
  ASSUME NEW n \in Nat, NEW b, Law(b, n), NEW k1 \in Nat, NEW o1 \in Nat, NEW at1 \in Nat,
         NEW open1 \in Nat, NEW now1 \in Nat
  PROVE  \E e : Grown(b, e, n, k1, o1, at1, open1, now1)
<1>e. PICK e : e = [k |-> [j \in 1..n + 1 |-> IF j = n + 1 THEN k1 ELSE b.k[j]],
                    o |-> [j \in 1..n + 1 |-> IF j = n + 1 THEN o1 ELSE b.o[j]],
                    at |-> [j \in 1..n + 1 |-> IF j = n + 1 THEN at1 ELSE b.at[j]],
                    open |-> [j \in 0..n + 1 |-> IF j = n + 1 THEN open1 ELSE b.open[j]],
                    now |-> [j \in 0..n + 1 |-> IF j = n + 1 THEN now1 ELSE b.now[j]]]
  OBVIOUS
<1>1. IsBook(b, n) /\ Lawful(b, n)
  BY DEF Law
<1>2. /\ \A j \in 1..n : b.k[j] \in Nat /\ b.o[j] \in Nat /\ b.at[j] \in Nat
      /\ \A j \in 0..n : b.open[j] \in Nat /\ b.now[j] \in Nat
  BY <1>1, BookType
<1>3. /\ \A j \in 1..n + 1 : j = n + 1 \/ j \in 1..n
      /\ \A j \in 0..n + 1 : j = n + 1 \/ j \in 0..n
      /\ \A j \in 0..n : j # n + 1 /\ j \in 0..n + 1
      /\ \A j \in 1..n : j # n + 1 /\ j \in 1..n + 1
      /\ n + 1 \in 1..n + 1 /\ n + 1 \in 0..n + 1
  OBVIOUS
<1>4. /\ e.k = [j \in 1..n + 1 |-> IF j = n + 1 THEN k1 ELSE b.k[j]]
      /\ e.o = [j \in 1..n + 1 |-> IF j = n + 1 THEN o1 ELSE b.o[j]]
      /\ e.at = [j \in 1..n + 1 |-> IF j = n + 1 THEN at1 ELSE b.at[j]]
      /\ e.open = [j \in 0..n + 1 |-> IF j = n + 1 THEN open1 ELSE b.open[j]]
      /\ e.now = [j \in 0..n + 1 |-> IF j = n + 1 THEN now1 ELSE b.now[j]]
  BY <1>e
<1>5. e.k \in [1..n + 1 -> Nat] /\ e.o \in [1..n + 1 -> Nat] /\ e.at \in [1..n + 1 -> Nat]
  BY <1>2, <1>3, <1>4
<1>6. e.open \in [0..n + 1 -> Nat] /\ e.now \in [0..n + 1 -> Nat]
  BY <1>2, <1>3, <1>4
<1>7. IsBook(e, n + 1)
  BY <1>5, <1>6 DEF IsBook
<1>8. /\ \A j \in 1..n : e.k[j] = b.k[j] /\ e.o[j] = b.o[j] /\ e.at[j] = b.at[j]
      /\ \A j \in 0..n : e.open[j] = b.open[j] /\ e.now[j] = b.now[j]
      /\ e.k[n + 1] = k1 /\ e.o[n + 1] = o1 /\ e.at[n + 1] = at1
      /\ e.open[n + 1] = open1 /\ e.now[n + 1] = now1
  BY <1>3, <1>4
<1>9. SameUpTo(b, e, n)
  BY <1>8 DEF SameUpTo
<1>10. Lawful(e, n)
  BY <1>1, <1>9, SameLaw
<1>11. Grown(b, e, n, k1, o1, at1, open1, now1)
  BY <1>7, <1>8, <1>10 DEF Grown
<1> QED BY <1>11

\* What the two ways of storing a byte have in common: byte n + 1 is the
\* p-th of the buffer that byte s opened.
Follows(b, e, n, s, iv, L, ctr, ks, p) ==
    /\ IsBook(e, n + 1) /\ Lawful(e, n + 1) /\ s \in 1..n + 1
    /\ \A j \in 1..n : e.at[j] = b.at[j] /\ e.o[j] = b.o[j]
    /\ e.open[n + 1] = IF p + 1 = End THEN 0 ELSE s
    /\ e.now[n + 1] = ctr /\ ks = <<iv, e.k[s]>> /\ e.at[s] = L + 1
    /\ \A j \in 1..s - 1 : e.at[j] <= L
    /\ e.k[n + 1] = e.k[s] + (p \div Block) /\ e.o[n + 1] = p % Block
    /\ e.at[n + 1] = L + 1 + (p \div Block)
    /\ \A j \in 1..n : e.at[j] <= e.at[n + 1]

LEMMA KeepsByte ==
  ASSUME NEW iv, NEW hash \in Seq(Piece), NEW gmac \in Seq(Byte), NEW n \in Nat,
         NEW ctr, NEW ks, NEW p, p = Len(gmac), p \in 0..End - 1,
         NEW b, IsBook(b, n), NEW ct, Filed(b, Joint(hash, Chunks(gmac)), iv, ct, n),
         NEW ct1, ct1[n + 1] \in Byte, \A j \in 1..n : ct1[j] = ct[j],
         NEW L, L = Len(hash), NEW e, NEW s, Follows(b, e, n, s, iv, L, ctr, ks, p)
  PROVE  Keeps(e, n + 1, iv, Joint(hash, Absorbed(gmac, ct1[n + 1])), ctr, ks, p + 1,
               Buffered(gmac, ct1[n + 1]), ct1)
<1>c. PICK c : c = ct1[n + 1]
  OBVIOUS
<1>g. PICK g : g = Append(gmac, c)
  OBVIOUS
<1>n. PICK m : m = n + 1
  OBVIOUS
<1>q. PICK q : q = p \div Block
  OBVIOUS
<1>f. /\ IsBook(e, n + 1) /\ Lawful(e, n + 1) /\ s \in 1..n + 1
      /\ \A j \in 1..n : e.at[j] = b.at[j] /\ e.o[j] = b.o[j]
      /\ e.open[n + 1] = IF p + 1 = End THEN 0 ELSE s
      /\ e.now[n + 1] = ctr /\ ks = <<iv, e.k[s]>> /\ e.at[s] = L + 1
      /\ \A j \in 1..s - 1 : e.at[j] <= L
      /\ e.k[n + 1] = e.k[s] + (p \div Block) /\ e.o[n + 1] = p % Block
      /\ e.at[n + 1] = L + 1 + (p \div Block)
      /\ \A j \in 1..n : e.at[j] <= e.at[n + 1]
  BY DEF Follows
<1>0. /\ c \in Byte /\ m \in Nat /\ s \in 1..m /\ p \in Nat /\ L \in Nat
      /\ q \in 0..Wide - 1
      /\ e.at[m] = L + 1 + q /\ e.k[m] = e.k[s] + q /\ e.now[m] = ctr
      /\ e.open[m] = (IF p + 1 = End THEN 0 ELSE s)
      /\ \A j \in 1..m : j \in 1..n \/ j = m
  BY <1>c, <1>f, <1>n, <1>q, LastPlace, LenProperties
<1>1. g \in Seq(Byte) /\ Len(g) = p + 1
  BY <1>0, <1>g, AppendProperties
<1>2. \A j \in 1..m : e.at[j] <= e.at[m]
  <2>1. \A j \in 1..m : e.at[j] \in Nat
    BY <1>f, <1>n, BookType
  <2> QED BY <1>0, <1>f, <1>n, <2>1
<1>3. Filed(e, Joint(hash, Chunks(g)), iv, ct1, m)
  <2>1. e.at[n + 1] = Len(hash) + 1 + (Len(gmac) \div Block) /\ e.o[n + 1] = Len(gmac) % Block
    BY <1>f
  <2>2. \A j \in 1..n : e.at[j] = b.at[j] /\ e.o[j] = b.o[j] /\ ct1[j] = ct[j]
    BY <1>f
  <2>3. Filed(e, Joint(hash, Chunks(Append(gmac, ct1[n + 1]))), iv, ct1, n + 1)
    BY <2>1, <2>2, FiledStore
  <2> QED BY <1>c, <1>g, <1>n, <2>3
<1>4. CASE p + 1 = End
  <2>h. PICK h : h = Joint(hash, Chunks(g))
    OBVIOUS
  <2>1. Buffered(gmac, c) = << >> /\ Joint(hash, Absorbed(gmac, c)) = h
    BY <1>4, <1>g, <2>h DEF Buffered, Absorbed
  <2>2. h \in Seq(Piece) /\ Len(h) = L + Wide
    <3>y. PICK y : y = Chunks(g)
      OBVIOUS
    <3>1. y \in Seq(Piece) /\ Len(y) = Blocks(End)
      BY <1>1, <1>4, <3>y, ChunksType, ChunksOf
    <3>2. Blocks(End) = Wide
      BY BlocksOfWhole, StreamAssumption DEF End
    <3>3. h = hash \o y
      BY <2>h, <3>y DEF Joint
    <3>4. h \in Seq(Piece) /\ Len(h) = Len(hash) + Len(y)
      BY <3>1, <3>3, JoinedPieces
    <3> QED BY <3>1, <3>2, <3>4
  <2>3. Joint(h, Chunks(<< >>)) = h
    BY <2>2, ChunksOfNothing, ConcatEmptySeq DEF Joint
  <2>4. q = Wide - 1
    BY <1>0, <1>4, <1>q, LastPlace
  <2>5. \A j \in 1..m : e.at[j] <= L + Wide
    BY <1>0, <1>2, <2>4, StreamAssumption
  <2>6. e.open[m] = 0
    BY <1>0, <1>4
  <2>7. Desk(e, m, iv, Len(h), ctr, ks, p + 1, << >>)
    BY <1>0, <1>4, <2>2, <2>5, <2>6 DEF Desk
  <2>8. Law(e, m)
    BY <1>f, <1>n DEF Law
  <2>9. Keeps(e, m, iv, h, ctr, ks, p + 1, << >>, ct1)
    BY <1>3, <2>3, <2>7, <2>8, <2>h DEF Keeps
  <2> QED BY <1>c, <1>n, <2>1, <2>9
<1>5. CASE p + 1 # End
  <2>1. Buffered(gmac, c) = g /\ Absorbed(gmac, c) = << >>
    BY <1>5, <1>g DEF Buffered, Absorbed
  <2>2. Joint(hash, << >>) = hash
    BY ConcatEmptySeq DEF Joint
  <2>3. e.open[m] = s /\ s # 0
    BY <1>0, <1>5
  <2>4. Last(e, m, m) /\ m \in 1..m
    BY <1>0, <1>2, <1>n DEF Last
  <2>x. PICK x : x = p + 1
    OBVIOUS
  <2>5. x \in 1..End - 1 /\ x - 1 = p
    BY <1>0, <1>5, <2>x, EndPositive
  <2>6. e.at[m] = L + 1 + ((x - 1) \div Block) /\ e.k[m] = e.k[s] + ((x - 1) \div Block)
    BY <1>0, <1>q, <2>5
  <2>7. Desk(e, m, iv, L, ctr, ks, x, g)
    BY <1>0, <1>1, <1>f, <2>3, <2>4, <2>5, <2>6, <2>x DEF Desk
  <2>8. Law(e, m)
    BY <1>f, <1>n DEF Law
  <2>9. Keeps(e, m, iv, hash, ctr, ks, x, g, ct1)
    BY <1>3, <2>7, <2>8 DEF Keeps
  <2> QED BY <1>c, <1>n, <2>1, <2>2, <2>9, <2>x
<1> QED BY <1>4, <1>5

\* The counters and places of the bytes there were are kept.
Wrote(b, e, n) == \A j \in 1..n : e.k[j] = b.k[j] /\ e.o[j] = b.o[j]

\* The book e is the book b with byte n + 1, stored in the buffers.
Enters(e, b, n, iv, hash, ctr, ks, pos, gmac, ct) ==
    /\ Keeps(e, n + 1, iv, Joint(hash, Absorbed(gmac, ct[n + 1])), ctr, ks, pos + 1,
             Buffered(gmac, ct[n + 1]), ct)
    /\ Wrote(b, e, n)
    /\ KsByte(ks[1], ks[2], pos) = <<iv, e.k[n + 1], e.o[n + 1]>>

LEMMA FirstPlace ==
  /\ 0 \div Block = 0 /\ 0 % Block = 0 /\ 0 \in 0..End - 1
  /\ 0 + 1 = End <=> (Wide = 1 /\ Block = 1)
<1>1. 0 \in Nat /\ 0 \in 0..Block - 1 /\ Block * 0 + 0 = 0
  BY StreamAssumption
<1>2. 0 \div Block = 0 /\ 0 % Block = 0
  BY <1>1, Quotient
<1>3. 0 \in 0..End - 1
  BY EndPositive
<1>4. 0 + 1 = End <=> (0 = Wide - 1 /\ 0 = Block - 1)
  BY <1>2, <1>3, LastPlace
<1>5. (0 = Wide - 1 <=> Wide = 1) /\ (0 = Block - 1 <=> Block = 1)
  BY StreamAssumption
<1> QED BY <1>2, <1>3, <1>4, <1>5

\* A byte stored, with no buffer open: it opens one.
LEMMA KeepsFirst ==
  ASSUME NEW iv, NEW hash \in Seq(Piece), NEW gmac \in Seq(Byte), NEW n \in Nat, NEW ctr \in Nat,
         NEW ks, NEW pos, NEW b, NEW ct, Keeps(b, n, iv, hash, ctr, ks, pos, gmac, ct),
         b.open[n] = 0, NEW ctr1, NEW ks1, NEW pos1,
         Refilled(iv, ctr, ks, pos, ctr1, ks1, pos1),
         NEW ct1, ct1[n + 1] \in Byte, \A j \in 1..n : ct1[j] = ct[j]
  PROVE  \E e : Enters(e, b, n, iv, hash, ctr1, ks1, pos1, gmac, ct1)
<1>L. PICK L : L = Len(hash)
  OBVIOUS
<1>s. PICK s : s = n + 1
  OBVIOUS
<1>z. PICK p : p = 0
  OBVIOUS
<1>0. /\ Law(b, n) /\ IsBook(b, n) /\ b.now[n] = ctr /\ pos = End /\ gmac = << >>
      /\ \A j \in 1..n : b.at[j] <= L
      /\ Filed(b, Joint(hash, Chunks(gmac)), iv, ct, n)
  BY <1>L DEF Keeps, Desk, Law
<1>1. L \in Nat /\ Len(gmac) = p /\ p \in 0..End - 1 /\ s \in Nat
  BY <1>0, <1>L, <1>s, <1>z, LenProperties, FirstPlace
<1>2. ks1 = <<iv, ctr>> /\ ctr1 = ctr + Wide /\ pos1 = 0
  BY <1>0 DEF Refilled
<1>w. PICK w : w = IF p + 1 = End THEN 0 ELSE s
  OBVIOUS
<1>3. w \in Nat /\ L + 1 \in Nat /\ ctr + Wide \in Nat /\ p \in Nat
  BY <1>1, <1>w, StreamAssumption
<1>e. PICK e : Grown(b, e, n, ctr, p, L + 1, w, ctr + Wide)
  BY <1>0, <1>3, BookGrows
<1>4. /\ IsBook(e, n + 1) /\ Lawful(e, n)
      /\ \A j \in 1..n : e.k[j] = b.k[j] /\ e.o[j] = b.o[j] /\ e.at[j] = b.at[j]
      /\ \A j \in 0..n : e.open[j] = b.open[j] /\ e.now[j] = b.now[j]
      /\ e.k[n + 1] = ctr /\ e.o[n + 1] = p /\ e.at[n + 1] = L + 1
      /\ e.open[n + 1] = w /\ e.now[n + 1] = ctr + Wide
  BY <1>e DEF Grown
<1>5. /\ s \in Nat /\ s \in 1..s /\ s - 1 = n /\ n \in 0..n
      /\ \A j \in 1..n : e.at[j] \in Nat /\ e.at[j] < e.at[s] /\ e.at[j] <= e.at[s]
                         /\ e.at[j] <= L
  <2>1. \A j \in 1..n : b.at[j] \in Nat
    BY <1>0, BookType
  <2>2. /\ e.at[s] = L + 1 /\ \A j \in 1..n : e.at[j] = b.at[j]
        /\ s \in 1..s /\ s - 1 = n /\ n \in 0..n
    BY <1>1, <1>4, <1>s
  <2>3. ASSUME NEW j \in 1..n
        PROVE  e.at[j] \in Nat /\ e.at[j] < e.at[s] /\ e.at[j] <= e.at[s] /\ e.at[j] <= L
    <3>1. e.at[j] \in Nat /\ e.at[j] <= L
      BY <1>0, <2>1, <2>2
    <3> QED BY <1>1, <2>2, <3>1
  <2> QED BY <1>1, <2>2, <2>3
<1>6. Lawful(e, s)
  <2>1. e.open[s - 1] = 0 /\ e.o[s] = 0 /\ e.k[s] = e.now[s - 1]
    BY <1>0, <1>4, <1>5, <1>s, <1>z
  <2>2. e.now[s] = e.now[s - 1] + Wide
    BY <1>0, <1>4, <1>5, <1>s
  <2>3. e.open[s] = IF Wide = 1 /\ Block = 1 THEN 0 ELSE s
    <3>1. p + 1 = End <=> (Wide = 1 /\ Block = 1)
      BY <1>z, FirstPlace
    <3> QED BY <1>4, <1>s, <1>w, <3>1
  <2>4. \A j \in 1..s - 1 : e.at[j] < e.at[s]
    BY <1>5
  <2>5. IsBook(e, s) /\ Lawful(e, s - 1)
    BY <1>4, <1>5, <1>s
  <2> QED BY <1>5, <2>1, <2>2, <2>3, <2>4, <2>5, BookOpens
<1>7. /\ e.k[n + 1] = e.k[s] + (p \div Block) /\ e.o[n + 1] = p % Block
      /\ e.at[n + 1] = L + 1 + (p \div Block) /\ p \div Block = 0 /\ p % Block = 0
  BY <1>1, <1>4, <1>s, <1>z, FirstPlace
<1>8. Keeps(e, n + 1, iv, Joint(hash, Absorbed(gmac, ct1[n + 1])), ctr + Wide, ks1, p + 1,
            Buffered(gmac, ct1[n + 1]), ct1)
  <2>1. s \in 1..n + 1 /\ Lawful(e, n + 1) /\ s - 1 = n
    BY <1>5, <1>6, <1>s
  <2>2. e.open[n + 1] = IF p + 1 = End THEN 0 ELSE s
    BY <1>4, <1>w
  <2>3. e.now[n + 1] = ctr + Wide /\ ks1 = <<iv, e.k[s]>> /\ e.at[s] = L + 1
    BY <1>2, <1>4, <1>s
  <2>4. \A j \in 1..s - 1 : e.at[j] <= L
    BY <1>5
  <2>5. \A j \in 1..n : e.at[j] = b.at[j] /\ e.o[j] = b.o[j]
    BY <1>4
  <2>6. \A j \in 1..n : e.at[j] <= e.at[n + 1]
    BY <1>5, <1>s
  <2>7. Follows(b, e, n, s, iv, L, ctr + Wide, ks1, p)
    BY <1>4, <1>7, <2>1, <2>2, <2>3, <2>4, <2>5, <2>6 DEF Follows
  <2> QED BY <1>0, <1>1, <1>L, <2>7, KeepsByte
<1>9. KsByte(ks1[1], ks1[2], pos1) = <<iv, e.k[n + 1], e.o[n + 1]>>
  <2>1. ks1[1] = iv /\ ks1[2] = ctr
    BY <1>2
  <2>2. KsByte(iv, ctr, pos1) = <<iv, ctr + 0, 0>>
    BY <1>2, FirstPlace DEF KsByte
  <2>3. ctr + 0 = ctr
    OBVIOUS
  <2> QED BY <1>4, <1>z, <2>1, <2>2, <2>3
<1>10. Wrote(b, e, n)
  BY <1>4 DEF Wrote
<1> QED BY <1>2, <1>8, <1>9, <1>10, <1>z DEF Enters

\* A byte stored in the buffer that is open.
LEMMA KeepsMore ==
  ASSUME NEW iv, NEW hash \in Seq(Piece), NEW gmac \in Seq(Byte), NEW n \in Nat, NEW ctr \in Nat,
         NEW ks, NEW pos, NEW b, NEW ct, Keeps(b, n, iv, hash, ctr, ks, pos, gmac, ct),
         b.open[n] # 0, NEW ctr1, NEW ks1, NEW pos1,
         Refilled(iv, ctr, ks, pos, ctr1, ks1, pos1),
         NEW ct1, ct1[n + 1] \in Byte, \A j \in 1..n : ct1[j] = ct[j]
  PROVE  \E e : Enters(e, b, n, iv, hash, ctr1, ks1, pos1, gmac, ct1)
<1>L. PICK L : L = Len(hash)
  OBVIOUS
<1>s. PICK s : s = b.open[n]
  OBVIOUS
<1>m. PICK m : m = n + 1
  OBVIOUS
<1>q. PICK q, r : q = pos \div Block /\ r = pos % Block
  OBVIOUS
<1>u. PICK u : u = (pos - 1) \div Block
  OBVIOUS
<1>0. /\ Law(b, n) /\ IsBook(b, n) /\ b.now[n] = ctr
      /\ Filed(b, Joint(hash, Chunks(gmac)), iv, ct, n)
      /\ s \in 1..n /\ pos \in 1..End - 1 /\ Len(gmac) = pos
      /\ ks = <<iv, b.k[s]>> /\ b.at[s] = L + 1 /\ \A j \in 1..s - 1 : b.at[j] <= L
  BY <1>L, <1>s DEF Keeps, Desk, Law
<1>1. PICK l \in 1..n : Last(b, n, l) /\ b.at[l] = L + 1 + u /\ b.k[l] = b.k[s] + u
  BY <1>L, <1>s, <1>u DEF Keeps, Desk
<1>2. L \in Nat /\ pos \in Nat /\ pos # 0 /\ pos # End /\ m \in Nat
      /\ pos \in 0..End - 1 /\ pos - 1 \in Nat
  BY <1>0, <1>L, <1>m, EndPositive, LenProperties
<1>3. ks1 = ks /\ ctr1 = ctr /\ pos1 = pos
  BY <1>2 DEF Refilled
<1>4. /\ q \in 0..Wide - 1 /\ r \in 0..Block - 1
      /\ pos + 1 = End <=> (q = Wide - 1 /\ r = Block - 1)
  BY <1>2, <1>q, LastPlace
<1>5. /\ r # 0 => u = q
      /\ r = 0 => u = q - 1
  BY <1>2, <1>q, <1>u, NextPlace
<1>6. /\ \A j \in 1..n : b.k[j] \in Nat /\ b.at[j] \in Nat /\ b.at[j] <= b.at[l]
      /\ u \in Nat /\ q \in Nat /\ r \in Nat
  <2>1. u \in Nat
    BY <1>2, <1>u, Division
  <2>2. \A j \in 1..n : b.at[j] <= b.at[l]
    BY <1>1 DEF Last
  <2>3. \A j \in 1..n : b.k[j] \in Nat /\ b.at[j] \in Nat
    BY <1>0, BookType
  <2> QED BY <1>4, <2>1, <2>2, <2>3, StreamAssumption
<1>w. PICK w : w = IF pos + 1 = End THEN 0 ELSE s
  OBVIOUS
<1>x. PICK x, y : x = b.k[s] + q /\ y = L + 1 + q
  OBVIOUS
<1>7. w \in Nat /\ x \in Nat /\ y \in Nat
  <2>1. w = 0 \/ w = s
    BY <1>w
  <2>2. b.k[s] \in Nat /\ s \in Nat
    BY <1>0, <1>6
  <2>3. L + 1 + q \in Nat /\ b.k[s] + q \in Nat
    <3>1. L \in Nat
      BY <1>2
    <3>2. q \in Nat
      BY <1>4
    <3> QED BY <2>2, <3>1, <3>2
  <2>4. w \in Nat
    BY <2>1, <2>2
  <2> QED BY <1>x, <2>3, <2>4
<1>e. PICK e : Grown(b, e, n, x, r, y, w, ctr)
  BY <1>0, <1>6, <1>7, BookGrows
<1>8. /\ IsBook(e, n + 1) /\ Lawful(e, n)
      /\ \A j \in 1..n : e.k[j] = b.k[j] /\ e.o[j] = b.o[j] /\ e.at[j] = b.at[j]
      /\ \A j \in 0..n : e.open[j] = b.open[j] /\ e.now[j] = b.now[j]
      /\ e.k[n + 1] = x /\ e.o[n + 1] = r /\ e.at[n + 1] = y
      /\ e.open[n + 1] = w /\ e.now[n + 1] = ctr
  BY <1>e DEF Grown
<1>9. /\ m \in 1..m /\ m - 1 = n /\ n \in 0..n /\ s \in 1..m
      /\ e.k[m] = x /\ e.o[m] = r /\ e.at[m] = y /\ e.open[m] = w /\ e.now[m] = ctr
      /\ e.k[s] = b.k[s] /\ e.at[s] = L + 1 /\ e.k[l] = b.k[s] + u /\ e.at[l] = L + 1 + u
      /\ IsBook(e, m)
  BY <1>0, <1>1, <1>2, <1>8, <1>m
<1>10. \A j \in 1..n : e.at[j] <= e.at[m]
  <2>1. L + 1 + u <= y
    <3>1. u <= q
      BY <1>4, <1>5, <1>6
    <3> QED BY <1>2, <1>6, <1>x, <3>1
  <2>2. ASSUME NEW j \in 1..n PROVE e.at[j] <= y
    <3>1. e.at[j] \in Nat /\ e.at[j] <= L + 1 + u
      BY <1>1, <1>6, <1>8
    <3> QED BY <1>2, <1>6, <1>7, <2>1, <3>1
  <2> QED BY <1>9, <2>2
<1>11. Lawful(e, m)
  <2>1. r = 0 => e.k[m] = e.k[l] + 1 /\ e.at[l] < e.at[m]
    <3>1. r = 0 => u + 1 = q
      BY <1>5, <1>6
    <3>2. b.k[s] \in Nat
      BY <1>0, <1>6
    <3>v. PICK v : v = b.k[s]
      OBVIOUS
    <3>3. ASSUME r = 0 PROVE x = v + u + 1 /\ L + 1 + u < y
      <4>1. u + 1 = q
        BY <3>1, <3>3
      <4>2. x = v + q /\ v \in Nat
        BY <1>x, <3>2, <3>v
      <4>3. u \in Nat /\ q \in Nat /\ L \in Nat /\ y = L + 1 + q
        BY <1>2, <1>6, <1>x
      <4>4. x = v + u + 1
        BY <4>1, <4>2, <4>3
      <4>5. L + 1 + u < y
        BY <4>1, <4>3
      <4> QED BY <4>4, <4>5
    <3> QED BY <1>9, <3>3, <3>v
  <2>2. r # 0 => e.k[m] = e.k[l] /\ e.at[l] = e.at[m]
    BY <1>5, <1>9, <1>x
  <2>3. Last(e, n, l)
    BY <1>1, <1>8 DEF Last
  <2>4. e.open[m] = IF q = Wide - 1 /\ r = Block - 1 THEN 0 ELSE s
    BY <1>4, <1>9, <1>w
  <2>5. e.open[n] = s /\ e.now[m] = e.now[n]
    BY <1>0, <1>8, <1>9, <1>s
  <2>6. e.k[m] = e.k[s] + q
    BY <1>9, <1>x
  <2>7. s \in 1..m - 1 /\ l \in 1..m - 1 /\ Lawful(e, m - 1)
    BY <1>0, <1>1, <1>8, <1>9
  <2>8. StoredIn(e, m, s, l, q, r)
    BY <1>9, <1>10, <2>1, <2>2, <2>3, <2>4, <2>5, <2>6 DEF StoredIn
  <2> QED BY <1>2, <1>4, <1>9, <2>7, <2>8, BookStores
<1>12. Keeps(e, n + 1, iv, Joint(hash, Absorbed(gmac, ct1[n + 1])), ctr, ks, pos + 1,
             Buffered(gmac, ct1[n + 1]), ct1)
  <2>1. s \in 1..n + 1 /\ Lawful(e, n + 1)
    BY <1>9, <1>11, <1>m
  <2>2. e.open[n + 1] = IF pos + 1 = End THEN 0 ELSE s
    BY <1>8, <1>w
  <2>3. e.now[n + 1] = ctr /\ ks = <<iv, e.k[s]>> /\ e.at[s] = L + 1
    BY <1>0, <1>8, <1>9
  <2>4. \A j \in 1..s - 1 : e.at[j] <= L
    <3>1. \A j \in 1..s - 1 : j \in 1..n
      BY <1>0
    <3> QED BY <1>0, <1>8, <3>1
  <2>5. \A j \in 1..n : e.at[j] = b.at[j] /\ e.o[j] = b.o[j]
    BY <1>8
  <2>6. \A j \in 1..n : e.at[j] <= e.at[n + 1]
    BY <1>10, <1>m
  <2>7. e.k[n + 1] = e.k[s] + (pos \div Block) /\ e.o[n + 1] = pos % Block
        /\ e.at[n + 1] = L + 1 + (pos \div Block)
    BY <1>8, <1>9, <1>q, <1>x
  <2>8. Follows(b, e, n, s, iv, L, ctr, ks, pos)
    BY <1>8, <2>1, <2>2, <2>3, <2>4, <2>5, <2>6, <2>7 DEF Follows
  <2> QED BY <1>0, <1>2, <1>L, <2>8, KeepsByte
<1>13. KsByte(ks1[1], ks1[2], pos1) = <<iv, e.k[n + 1], e.o[n + 1]>>
  <2>1. ks1[1] = iv /\ ks1[2] = b.k[s]
    BY <1>0, <1>3
  <2>2. KsByte(iv, b.k[s], pos) = <<iv, x, r>>
    BY <1>q, <1>x DEF KsByte
  <2> QED BY <1>3, <1>8, <2>1, <2>2
<1>14. Wrote(b, e, n)
  BY <1>8 DEF Wrote
<1> QED BY <1>3, <1>12, <1>13, <1>14 DEF Enters

\* A byte stored.
LEMMA KeepsStore ==
  ASSUME NEW iv, NEW hash \in Seq(Piece), NEW gmac \in Seq(Byte), NEW n \in Nat, NEW ctr \in Nat,
         NEW ks, NEW pos, NEW b, NEW ct, Keeps(b, n, iv, hash, ctr, ks, pos, gmac, ct),
         NEW ctr1, NEW ks1, NEW pos1, Refilled(iv, ctr, ks, pos, ctr1, ks1, pos1),
         NEW ct1, ct1[n + 1] \in Byte, \A j \in 1..n : ct1[j] = ct[j]
  PROVE  \E e : Enters(e, b, n, iv, hash, ctr1, ks1, pos1, gmac, ct1)
<1>1. CASE b.open[n] = 0
  BY <1>1, KeepsFirst
<1>2. CASE b.open[n] # 0
  BY <1>2, KeepsMore
<1> QED BY <1>1, <1>2

\* The book with room for m more bytes that were copied, d blocks being
\* absorbed after the first L.
Room(b, e, n, m, L, d, ctr) ==
    /\ IsBook(e, n + m) /\ Lawful(e, n)
    /\ \A j \in 1..n : /\ e.k[j] = b.k[j] /\ e.o[j] = b.o[j]
                       /\ e.at[j] = IF b.at[j] <= L THEN b.at[j] ELSE b.at[j] + d
    /\ \A j \in 0..n : e.open[j] = b.open[j] /\ e.now[j] = b.now[j]
    /\ \A q \in 1..m : /\ e.k[n + q] = ctr + ((q - 1) \div Block) /\ e.o[n + q] = (q - 1) % Block
                       /\ e.at[n + q] = L + 1 + ((q - 1) \div Block)
                       /\ e.open[n + q] = b.open[n] /\ e.now[n + q] = ctr + Blocks(q)

LEMMA BookRoom ==
  ASSUME NEW n \in Nat, NEW m \in Nat, NEW b, Law(b, n), NEW L \in Nat, NEW d \in Nat,
         NEW ctr \in Nat
  PROVE  \E e : Room(b, e, n, m, L, d, ctr)
<1>e. PICK e : e =
        [k |-> [j \in 1..n + m |-> IF j <= n THEN b.k[j] ELSE ctr + ((j - n - 1) \div Block)],
         o |-> [j \in 1..n + m |-> IF j <= n THEN b.o[j] ELSE (j - n - 1) % Block],
         at |-> [j \in 1..n + m |-> IF j <= n THEN (IF b.at[j] <= L THEN b.at[j] ELSE b.at[j] + d)
                                    ELSE L + 1 + ((j - n - 1) \div Block)],
         open |-> [j \in 0..n + m |-> IF j <= n THEN b.open[j] ELSE b.open[n]],
         now |-> [j \in 0..n + m |-> IF j <= n THEN b.now[j] ELSE ctr + Blocks(j - n)]]
  OBVIOUS
<1>1. IsBook(b, n) /\ Lawful(b, n)
  BY DEF Law
<1>2. /\ \A j \in 1..n : b.k[j] \in Nat /\ b.o[j] \in Nat /\ b.at[j] \in Nat
      /\ \A j \in 0..n : b.open[j] \in Nat /\ b.now[j] \in Nat
  BY <1>1, BookType
<1>3. /\ e.k = [j \in 1..n + m |-> IF j <= n THEN b.k[j] ELSE ctr + ((j - n - 1) \div Block)]
      /\ e.o = [j \in 1..n + m |-> IF j <= n THEN b.o[j] ELSE (j - n - 1) % Block]
      /\ e.at = [j \in 1..n + m |-> IF j <= n THEN (IF b.at[j] <= L THEN b.at[j] ELSE b.at[j] + d)
                                    ELSE L + 1 + ((j - n - 1) \div Block)]
      /\ e.open = [j \in 0..n + m |-> IF j <= n THEN b.open[j] ELSE b.open[n]]
      /\ e.now = [j \in 0..n + m |-> IF j <= n THEN b.now[j] ELSE ctr + Blocks(j - n)]
  BY <1>e
<1>4. \A j \in 1..n + m : j <= n \/ j - n - 1 \in Nat
  OBVIOUS
<1>5. \A p \in Nat : p \div Block \in Nat /\ p % Block \in Nat /\ Blocks(p) \in Nat
  <2>1. ASSUME NEW p \in Nat PROVE p \div Block \in Nat /\ p % Block \in Nat /\ Blocks(p) \in Nat
    <3>1. p \div Block \in Nat /\ p % Block \in 0..Block - 1
      BY Division
    <3>2. Block \in Nat
      BY StreamAssumption
    <3> QED BY <3>1, <3>2, BlockCount
  <2> QED BY <2>1
<1>6. \A j \in 1..n + m : j <= n => j \in 1..n
  OBVIOUS
<1>7. e.k \in [1..n + m -> Nat]
  <2>1. ASSUME NEW j \in 1..n + m
        PROVE  (IF j <= n THEN b.k[j] ELSE ctr + ((j - n - 1) \div Block)) \in Nat
    <3>1. CASE j <= n
      BY <1>2, <1>6, <3>1
    <3>2. CASE ~(j <= n)
      <4>p. PICK p : p = (j - n - 1) \div Block
        OBVIOUS
      <4>1. p \in Nat
        BY <1>4, <1>5, <3>2, <4>p
      <4> QED BY <3>2, <4>1, <4>p
    <3> QED BY <3>1, <3>2
  <2> QED BY <1>3, <2>1
<1>8. e.o \in [1..n + m -> Nat]
  <2>1. ASSUME NEW j \in 1..n + m
        PROVE  (IF j <= n THEN b.o[j] ELSE (j - n - 1) % Block) \in Nat
    BY <1>2, <1>4, <1>5, <1>6
  <2> QED BY <1>3, <2>1
<1>9. e.at \in [1..n + m -> Nat]
  <2>1. ASSUME NEW j \in 1..n + m
        PROVE  (IF j <= n THEN (IF b.at[j] <= L THEN b.at[j] ELSE b.at[j] + d)
                ELSE L + 1 + ((j - n - 1) \div Block)) \in Nat
    <3>1. CASE j <= n
      BY <1>2, <1>6, <3>1
    <3>2. CASE ~(j <= n)
      <4>p. PICK p : p = (j - n - 1) \div Block
        OBVIOUS
      <4>1. p \in Nat
        BY <1>4, <1>5, <3>2, <4>p
      <4> QED BY <3>2, <4>1, <4>p
    <3> QED BY <3>1, <3>2
  <2> QED BY <1>3, <2>1
<1>10. e.open \in [0..n + m -> Nat]
  <2>1. ASSUME NEW j \in 0..n + m
        PROVE  (IF j <= n THEN b.open[j] ELSE b.open[n]) \in Nat
    <3>1. j <= n => j \in 0..n
      OBVIOUS
    <3> QED BY <1>2, <3>1
  <2> QED BY <1>3, <2>1
<1>11. e.now \in [0..n + m -> Nat]
  <2>1. ASSUME NEW j \in 0..n + m
        PROVE  (IF j <= n THEN b.now[j] ELSE ctr + Blocks(j - n)) \in Nat
    <3>1. CASE j <= n
      BY <1>2, <3>1
    <3>2. CASE ~(j <= n)
      <4>p. PICK p : p = Blocks(j - n)
        OBVIOUS
      <4>1. j - n \in Nat
        BY <3>2
      <4>2. p \in Nat
        BY <1>5, <4>1, <4>p
      <4> QED BY <3>2, <4>2, <4>p
    <3> QED BY <3>1, <3>2
  <2> QED BY <1>3, <2>1
<1>12. IsBook(e, n + m)
  BY <1>7, <1>8, <1>9, <1>10, <1>11 DEF IsBook
<1>13. \A j \in 1..n : /\ e.k[j] = b.k[j] /\ e.o[j] = b.o[j]
                       /\ e.at[j] = IF b.at[j] <= L THEN b.at[j] ELSE b.at[j] + d
  <2>1. \A j \in 1..n : j \in 1..n + m /\ j <= n
    OBVIOUS
  <2> QED BY <1>3, <2>1
<1>14. \A j \in 0..n : e.open[j] = b.open[j] /\ e.now[j] = b.now[j]
  <2>1. \A j \in 0..n : j \in 0..n + m /\ j <= n
    OBVIOUS
  <2> QED BY <1>3, <2>1
<1>15. ASSUME NEW q \in 1..m
       PROVE  /\ e.k[n + q] = ctr + ((q - 1) \div Block) /\ e.o[n + q] = (q - 1) % Block
              /\ e.at[n + q] = L + 1 + ((q - 1) \div Block)
              /\ e.open[n + q] = b.open[n] /\ e.now[n + q] = ctr + Blocks(q)
  <2>j. PICK j : j = n + q
    OBVIOUS
  <2>1. j \in 1..n + m /\ j \in 0..n + m /\ ~(j <= n) /\ j - n - 1 = q - 1 /\ j - n = q
    BY <2>j
  <2>2. /\ e.k[j] = ctr + ((j - n - 1) \div Block) /\ e.o[j] = (j - n - 1) % Block
        /\ e.at[j] = L + 1 + ((j - n - 1) \div Block)
    BY <1>3, <2>1
  <2>3. e.open[j] = b.open[n] /\ e.now[j] = ctr + Blocks(j - n)
    BY <1>3, <2>1
  <2> QED BY <2>1, <2>2, <2>3, <2>j
<1>16. Lawful(e, n)
  <2>1. \A i, j \in 1..n : b.at[i] <= b.at[j] <=> e.at[i] <= e.at[j]
    BY <1>2, <1>13
  <2>2. SameUpTo(b, e, n)
    BY <1>13, <1>14, <2>1 DEF SameUpTo
  <2> QED BY <1>1, <2>2, SameLaw
<1>17. Room(b, e, n, m, L, d, ctr)
  BY <1>12, <1>13, <1>14, <1>15, <1>16 DEF Room
<1> QED BY <1>17

\* The buffer that is open, if there is one, is the one that waits after the
\* first L blocks.
Waits(b, n, L, ctr) ==
    /\ b.now[n] = ctr
    /\ b.open[n] = 0 => \A j \in 1..n : b.at[j] <= L
    /\ b.open[n] # 0 => /\ b.open[n] \in 1..n /\ b.at[b.open[n]] = L + 1
                        /\ \A j \in 1..b.open[n] - 1 : b.at[j] <= L

\* The next copied byte.
LEMMA RoomStep ==
  ASSUME NEW n \in Nat, NEW m \in Nat, NEW b, Law(b, n), NEW L \in Nat, NEW d \in Nat,
         NEW ctr \in Nat, Waits(b, n, L, ctr), Blocks(m) <= d,
         NEW e, Room(b, e, n, m, L, d, ctr),
         NEW q \in Nat, q < m, Lawful(e, n + q)
  PROVE  Lawful(e, n + (q + 1))
<1>i. PICK i, h, s : i = n + (q + 1) /\ h = n + q /\ s = b.open[n]
  OBVIOUS
<1>u. PICK u, r : u = q \div Block /\ r = q % Block
  OBVIOUS
<1>0. /\ i \in 1..n + m /\ h \in 0..n + m /\ i - 1 = h /\ n + m \in Nat /\ q + 1 \in 1..m
      /\ q + 1 - 1 = q /\ h \in Nat
  BY <1>i
<1>1. /\ IsBook(e, n + m) /\ Lawful(e, n)
      /\ \A j \in 1..n : /\ e.k[j] = b.k[j]
                         /\ e.at[j] = IF b.at[j] <= L THEN b.at[j] ELSE b.at[j] + d
      /\ \A j \in 0..n : e.open[j] = b.open[j] /\ e.now[j] = b.now[j]
  BY DEF Room
<1>2. \A x \in 1..m : /\ e.k[n + x] = ctr + ((x - 1) \div Block) /\ e.o[n + x] = (x - 1) % Block
                      /\ e.at[n + x] = L + 1 + ((x - 1) \div Block)
                      /\ e.open[n + x] = b.open[n] /\ e.now[n + x] = ctr + Blocks(x)
  BY DEF Room
<1>3. /\ e.k[i] = ctr + u /\ e.o[i] = r /\ e.at[i] = L + 1 + u
      /\ e.open[i] = s /\ e.now[i] = ctr + Blocks(q + 1)
  BY <1>0, <1>2, <1>i, <1>u
<1>4. /\ u \in Nat /\ r \in Nat /\ u < Blocks(m) /\ Blocks(m) \in Nat /\ u + 1 <= d
      /\ Blocks(q + 1) = u + 1
  <2>1. u \in Nat /\ r \in Nat
    <3>1. u \in Nat /\ r \in 0..Block - 1
      BY <1>u, Division
    <3>2. Block \in Nat
      BY StreamAssumption
    <3> QED BY <3>1, <3>2
  <2>2. u < Blocks(m) /\ Blocks(m) \in Nat
    <3>1. \A x \in 1..m : (x - 1) \div Block < Blocks(m)
      BY BlockCount
    <3>2. (q + 1 - 1) \div Block < Blocks(m)
      BY <1>0, <3>1
    <3> QED BY <1>0, <1>u, <3>2, BlockCount
  <2>3. Blocks(q + 1) = u + 1
    BY <1>u, NextPlace
  <2> QED BY <2>1, <2>2, <2>3
<1>5. /\ e.open[h] = s /\ e.now[h] = ctr + Blocks(q)
  <2>1. CASE q = 0
    <3>1. h = n /\ n \in 0..n /\ Blocks(q) = 0 /\ ctr + 0 = ctr
      BY <1>i, <2>1, BlocksOfWhole
    <3>2. b.now[n] = ctr
      BY DEF Waits
    <3> QED BY <1>1, <1>i, <3>1, <3>2
  <2>2. CASE q # 0
    <3>1. q \in 1..m
      BY <2>2
    <3> QED BY <1>2, <1>i, <3>1
  <2> QED BY <2>1, <2>2
<1>6. ASSUME NEW j \in 1..i - 1
      PROVE  j \in 1..n \/ \E x \in 1..q : j = n + x
  <2>1. j <= n => j \in 1..n
    OBVIOUS
  <2>2. ~(j <= n) => j - n \in 1..q /\ j = n + (j - n)
    BY <1>i
  <2> QED BY <2>1, <2>2
<1>7. ASSUME NEW x \in 1..q
      PROVE  e.at[n + x] <= e.at[i] /\ (r = 0 => e.at[n + x] # e.at[i])
  <2>v. PICK v : v = (x - 1) \div Block
    OBVIOUS
  <2>1. x \in 1..m /\ x - 1 \in Nat /\ x - 1 <= q /\ x - 1 < q
    BY <1>0
  <2>2. v \in Nat /\ v <= u /\ (r = 0 => v < u)
    BY <1>u, <2>1, <2>v, PlaceOrder
  <2>3. e.at[n + x] = L + 1 + v
    BY <1>2, <2>1, <2>v
  <2> QED BY <1>3, <1>4, <2>2, <2>3
<1>8. ASSUME NEW j \in 1..n
      PROVE  /\ b.at[j] <= L => e.at[j] <= e.at[i]
             /\ e.at[j] # e.at[i]
  <2>1. b.at[j] \in Nat
    BY BookType DEF Law
  <2> QED BY <1>1, <1>3, <1>4, <2>1
<1>9. s = 0 => \A j \in 1..i - 1 : e.at[j] <= e.at[i]
  <2>1. s = 0 => \A j \in 1..n : b.at[j] <= L
    BY <1>i DEF Waits
  <2> QED BY <1>6, <1>7, <1>8, <2>1
<1>10. ASSUME s # 0
       PROVE  /\ \A j \in 1..s - 1 : e.at[j] <= e.at[i]
              /\ e.at[i] < e.at[s] /\ e.k[s] + Wide <= e.k[i]
  <2>1. s \in 1..n /\ b.at[s] = L + 1 /\ \A j \in 1..s - 1 : b.at[j] <= L /\ j \in 1..n
    <3>1. s \in 1..n /\ b.at[s] = L + 1 /\ \A j \in 1..s - 1 : b.at[j] <= L
      BY <1>10, <1>i DEF Waits
    <3> QED BY <3>1
  <2>2. e.at[s] = L + 1 + d
    <3>1. ~(b.at[s] <= L)
      BY <2>1
    <3> QED BY <1>1, <2>1, <3>1
  <2>3. b.k[s] + Wide <= ctr /\ b.k[s] \in Nat
    <3>1. Counter(b, n) /\ b.now[n] = ctr
      BY DEF Law, Lawful, Waits
    <3>2. b.k[s] \in Nat
      BY <2>1, BookType DEF Law
    <3> QED BY <1>10, <1>i, <3>1, <3>2 DEF Counter
  <2>4. e.k[s] = b.k[s]
    BY <1>1, <2>1
  <2>5. e.k[s] + Wide <= e.k[i]
    <3>1. Wide \in Nat
      BY StreamAssumption
    <3> QED BY <1>3, <1>4, <2>3, <2>4, <3>1
  <2> QED BY <1>3, <1>4, <1>8, <2>1, <2>2, <2>5
<1>11. \/ /\ e.o[i] = 0 /\ e.k[i] = e.now[i - 1]
          /\ \A j \in 1..i - 1 : e.at[j] # e.at[i]
       \/ /\ e.o[i] > 0 /\ i # 1 /\ e.at[i] = e.at[i - 1] /\ e.k[i] = e.k[i - 1]
          /\ e.now[i - 1] = e.k[i] + 1
  <2>1. CASE r = 0
    <3>1. Blocks(q) = u
      BY <1>u, <2>1, NextPlace
    <3>2. e.k[i] = e.now[i - 1]
      BY <1>0, <1>3, <1>5, <3>1
    <3>3. \A j \in 1..i - 1 : e.at[j] # e.at[i]
      BY <1>6, <1>7, <1>8, <2>1
    <3> QED BY <1>3, <2>1, <3>2, <3>3
  <2>2. CASE r # 0
    <3>1. q - 1 \in Nat /\ (q - 1) \div Block = u /\ Blocks(q) = u + 1
      BY <1>u, <2>2, NextPlace
    <3>2. q \in 1..m /\ i - 1 = n + q /\ i # 1
      BY <1>0, <1>i, <3>1
    <3>3. e.k[i - 1] = ctr + u /\ e.at[i - 1] = L + 1 + u /\ e.now[i - 1] = ctr + Blocks(q)
      BY <1>2, <3>1, <3>2
    <3> QED BY <1>3, <1>4, <2>2, <3>1, <3>2, <3>3
  <2> QED BY <2>1, <2>2
<1>12. e.open[i] = e.open[i - 1] /\ e.now[i] = e.k[i] + 1
  BY <1>0, <1>3, <1>4, <1>5
<1>13. CopiedIn(e, i)
  BY <1>3, <1>9, <1>10, <1>11, <1>12 DEF CopiedIn
<1>14. Lawful(e, i - 1)
  BY <1>0, <1>i
<1>15. Lawful(e, i)
  BY <1>0, <1>1, <1>13, <1>14, BookCopies
<1> QED BY <1>15, <1>i

\* All of them.
LEMMA RoomLawful ==
  ASSUME NEW n \in Nat, NEW m \in Nat, NEW b, Law(b, n), NEW L \in Nat, NEW d \in Nat,
         NEW ctr \in Nat, Waits(b, n, L, ctr), Blocks(m) <= d,
         NEW e, Room(b, e, n, m, L, d, ctr)
  PROVE  Law(e, n + m)
<1>s. PICK S : S = {q \in Nat : q <= m => Lawful(e, n + q)}
  OBVIOUS
<1>1. 0 \in S
  <2>1. Lawful(e, n) /\ n + 0 = n
    BY DEF Room
  <2> QED BY <1>s, <2>1
<1>2. ASSUME NEW q \in Nat, q \in S PROVE q + 1 \in S
  <2>1. ASSUME q + 1 <= m PROVE Lawful(e, n + (q + 1))
    <3>1. q < m /\ Lawful(e, n + q)
      BY <1>2, <1>s, <2>1
    <3> QED BY <3>1, RoomStep
  <2> QED BY <1>s, <2>1
<1>3. m \in S
  BY <1>1, <1>2, SetInduction
<1>4. m <= m
  OBVIOUS
<1>5. Lawful(e, n + m) /\ IsBook(e, n + m)
  BY <1>3, <1>4, <1>s DEF Room
<1> QED BY <1>5 DEF Law

\* Blocks absorbed while a buffer may wait: m bytes of the text, or AAD.
Inserts(e, b, n, m, iv, hash, ctr, ks, pos, gmac, bytes, ct) ==
    /\ Keeps(e, n + m, iv, Joint(hash, Chunks(bytes)), ctr + Blocks(m), ks, pos, gmac, ct)
    /\ Wrote(b, e, n)
    /\ \A q \in 1..m : <<iv, e.k[n + q], e.o[n + q]>> = KsByte(iv, ctr, q - 1)

LEMMA KeepsInsert ==
  ASSUME NEW iv, NEW hash \in Seq(Piece), NEW gmac \in Seq(Byte), NEW bytes \in Seq(Byte),
         NEW n \in Nat, NEW m \in Nat, m <= Len(bytes), NEW ctr \in Nat, NEW ks, NEW pos,
         NEW b, NEW ct, Keeps(b, n, iv, hash, ctr, ks, pos, gmac, ct),
         NEW ct1, \A j \in 1..n : ct1[j] = ct[j], \A q \in 1..m : ct1[n + q] = bytes[q],
         \A q \in 1..Len(bytes) : OfAad(iv, bytes[q]) \/ q <= m
  PROVE  \E e : Inserts(e, b, n, m, iv, hash, ctr, ks, pos, gmac, bytes, ct1)
<1>L. PICK L, d, z : L = Len(hash) /\ d = Blocks(Len(bytes)) /\ z = n + m
  OBVIOUS
<1>0. /\ Law(b, n) /\ IsBook(b, n) /\ Desk(b, n, iv, L, ctr, ks, pos, gmac)
      /\ Filed(b, Joint(hash, Chunks(gmac)), iv, ct, n)
  BY <1>L DEF Keeps, Law
<1>1. L \in Nat /\ Len(bytes) \in Nat /\ d \in Nat /\ z \in Nat
  BY <1>L, BlockCount, LenProperties
<1>2. Blocks(m) <= d /\ Blocks(m) \in Nat
  <2>1. CASE m = 0
    <3>1. Blocks(m) = 0
      BY <2>1, BlocksOfWhole
    <3> QED BY <1>1, <3>1
  <2>2. CASE m # 0
    <3>x. PICK x, y : x = (m - 1) \div Block /\ y = (Len(bytes) - 1) \div Block
      OBVIOUS
    <3>1. m - 1 \in Nat /\ Len(bytes) - 1 \in Nat /\ m - 1 <= Len(bytes) - 1
          /\ m - 1 + 1 = m /\ Len(bytes) - 1 + 1 = Len(bytes)
      BY <1>1, <2>2
    <3>2. x \in Nat /\ y \in Nat /\ x <= y
      BY <3>1, <3>x, PlaceOrder
    <3>3. Blocks(m) = x + 1 /\ Blocks(Len(bytes)) = y + 1
      BY <3>1, <3>x, NextPlace
    <3> QED BY <1>L, <3>2, <3>3
  <2> QED BY <2>1, <2>2
<1>3. Waits(b, n, L, ctr)
  BY <1>0 DEF Desk, Waits
<1>4. PICK e : Room(b, e, n, m, L, d, ctr)
  BY <1>0, <1>1, BookRoom
<1>5. Law(e, z)
  BY <1>0, <1>1, <1>2, <1>3, <1>4, <1>L, RoomLawful
<1>6. /\ IsBook(e, n + m)
      /\ \A j \in 1..n : /\ e.k[j] = b.k[j] /\ e.o[j] = b.o[j]
                         /\ e.at[j] = IF b.at[j] <= L THEN b.at[j] ELSE b.at[j] + d
      /\ \A j \in 0..n : e.open[j] = b.open[j] /\ e.now[j] = b.now[j]
  BY <1>4 DEF Room
<1>7. \A x \in 1..m : /\ e.k[n + x] = ctr + ((x - 1) \div Block) /\ e.o[n + x] = (x - 1) % Block
                      /\ e.at[n + x] = L + 1 + ((x - 1) \div Block)
                      /\ e.open[n + x] = b.open[n] /\ e.now[n + x] = ctr + Blocks(x)
  BY <1>4 DEF Room
<1>8. Filed(e, Joint(Joint(hash, Chunks(bytes)), Chunks(gmac)), iv, ct1, n + m)
  <2>1. \A j \in 1..n : /\ e.at[j] = IF b.at[j] <= L THEN b.at[j] ELSE b.at[j] + d
                        /\ e.o[j] = b.o[j] /\ ct1[j] = ct[j]
    BY <1>6
  <2>2. \A q \in 1..m : /\ q <= Len(bytes)
                        /\ e.at[n + q] = L + 1 + ((q - 1) \div Block)
                        /\ e.o[n + q] = (q - 1) % Block /\ ct1[n + q] = bytes[q]
    <3>1. \A q \in 1..m : q <= Len(bytes)
      BY <1>1
    <3> QED BY <1>7, <3>1
  <2>3. Shifted(b, e, n, m, L, d, ct, ct1, bytes)
    BY <2>1, <2>2 DEF Shifted
  <2> QED BY <1>0, <1>L, <2>3, FiledInsert
<1>h. PICK h, v : h = Joint(hash, Chunks(bytes)) /\ v = L + d
  OBVIOUS
<1>9. Len(h) = v /\ v \in Nat
  <2>y. PICK y : y = Chunks(bytes)
    OBVIOUS
  <2>1. y \in Seq(Piece) /\ Len(y) = d
    BY <1>L, <2>y, ChunksType, ChunksOf
  <2>2. h = hash \o y
    BY <1>h, <2>y DEF Joint
  <2>3. Len(h) = Len(hash) + Len(y)
    BY <2>1, <2>2, JoinedPieces
  <2> QED BY <1>1, <1>L, <1>h, <2>1, <2>3
<1>10. /\ e.open[z] = b.open[n] /\ e.now[z] = ctr + Blocks(m)
  <2>1. CASE m = 0
    <3>1. Blocks(m) = 0
      BY <2>1, BlocksOfWhole
    <3>2. z = n /\ n \in 0..n /\ ctr + 0 = ctr
      BY <1>L, <2>1
    <3>3. b.now[n] = ctr
      BY <1>3 DEF Waits
    <3> QED BY <1>6, <3>1, <3>2, <3>3
  <2>2. CASE m # 0
    <3>1. m \in 1..m
      BY <2>2
    <3> QED BY <1>7, <1>L, <3>1
  <2> QED BY <2>1, <2>2
<1>11. \A j \in 1..z : j \in 1..n \/ \E x \in 1..m : j = n + x
  <2>1. ASSUME NEW j \in 1..z PROVE j \in 1..n \/ \E x \in 1..m : j = n + x
    <3>1. j <= n => j \in 1..n
      OBVIOUS
    <3>2. ~(j <= n) => j - n \in 1..m /\ j = n + (j - n)
      BY <1>L
    <3> QED BY <3>1, <3>2
  <2> QED BY <2>1
<1>12. ASSUME NEW x \in 1..m PROVE e.at[n + x] \in Nat /\ e.at[n + x] <= v
  <2>u. PICK u : u = (x - 1) \div Block
    OBVIOUS
  <2>1. u \in Nat /\ u < Blocks(m)
    <3>1. x - 1 \in Nat
      OBVIOUS
    <3> QED BY <2>u, <3>1, Division, BlockCount
  <2>2. e.at[n + x] = L + 1 + u
    BY <1>7, <2>u
  <2> QED BY <1>1, <1>2, <1>h, <2>1, <2>2
<1>13. \A j \in 1..n : b.at[j] \in Nat
  BY <1>0, BookType
<1>14. Desk(e, z, iv, v, ctr + Blocks(m), ks, pos, gmac)
  <2>1. ASSUME e.open[z] = 0
        PROVE  pos = End /\ gmac = << >> /\ \A j \in 1..z : e.at[j] <= v
    <3>1. pos = End /\ gmac = << >> /\ \A j \in 1..n : b.at[j] <= L
      BY <1>0, <1>10, <2>1 DEF Desk
    <3>2. \A j \in 1..n : e.at[j] <= v
      BY <1>1, <1>6, <1>13, <1>h, <3>1
    <3> QED BY <1>11, <1>12, <3>1, <3>2
  <2>2. ASSUME e.open[z] # 0
        PROVE  /\ e.open[z] \in 1..z /\ pos \in 1..End - 1 /\ Len(gmac) = pos
               /\ ks = <<iv, e.k[e.open[z]]>> /\ e.at[e.open[z]] = v + 1
               /\ \A j \in 1..e.open[z] - 1 : e.at[j] <= v
               /\ \E l \in 1..z : /\ Last(e, z, l) /\ e.at[l] = v + 1 + ((pos - 1) \div Block)
                                  /\ e.k[l] = e.k[e.open[z]] + ((pos - 1) \div Block)
    <3>s. PICK s : s = e.open[z]
      OBVIOUS
    <3>u. PICK u : u = (pos - 1) \div Block
      OBVIOUS
    <3>1. /\ s \in 1..n /\ pos \in 1..End - 1 /\ Len(gmac) = pos
          /\ ks = <<iv, b.k[s]>> /\ b.at[s] = L + 1 /\ \A j \in 1..s - 1 : b.at[j] <= L
      BY <1>0, <1>10, <2>2, <3>s DEF Desk
    <3>2. PICK l \in 1..n : Last(b, n, l) /\ b.at[l] = L + 1 + u /\ b.k[l] = b.k[s] + u
      BY <1>0, <1>10, <2>2, <3>s, <3>u DEF Desk
    <3>3. u \in Nat /\ s \in 1..z /\ l \in 1..z
      <4>1. pos - 1 \in Nat
        BY <3>1, EndPositive
      <4>2. u \in Nat
        BY <3>u, <4>1, Division
      <4> QED BY <1>L, <3>1, <4>2
    <3>4. e.k[s] = b.k[s] /\ e.k[l] = b.k[l]
      BY <1>6, <3>1
    <3>5. e.at[s] = v + 1
      <4>1. ~(b.at[s] <= L)
        BY <1>1, <3>1
      <4>2. e.at[s] = b.at[s] + d
        BY <1>6, <3>1, <4>1
      <4> QED BY <1>1, <1>h, <3>1, <4>2
    <3>6. e.at[l] = v + 1 + u
      <4>1. ~(b.at[l] <= L)
        BY <1>1, <3>2, <3>3
      <4> QED BY <1>1, <1>6, <1>h, <3>2, <3>3, <4>1
    <3>7. \A j \in 1..s - 1 : e.at[j] <= v
      <4>1. \A j \in 1..s - 1 : j \in 1..n
        BY <3>1
      <4>2. \A j \in 1..s - 1 : e.at[j] = b.at[j] /\ b.at[j] \in Nat /\ b.at[j] <= L
        BY <1>6, <1>13, <3>1, <4>1
      <4>3. L <= v
        BY <1>1, <1>h
      <4> QED BY <1>1, <1>9, <4>2, <4>3
    <3>8. Last(e, z, l)
      <4>1. ASSUME NEW j \in 1..n PROVE e.at[j] <= e.at[l]
        <5>1. b.at[j] <= b.at[l]
          BY <3>2 DEF Last
        <5>2. b.at[j] \in Nat /\ b.at[j] <= L + 1 + u
          BY <1>13, <3>2, <5>1
        <5>3. e.at[j] = b.at[j] \/ e.at[j] = b.at[j] + d
          BY <1>6
        <5>4. v + 1 + u = L + 1 + u + d
          BY <1>1, <1>h, <3>3
        <5> QED BY <1>1, <3>3, <3>6, <5>2, <5>3, <5>4
      <4>2. ASSUME NEW x \in 1..m PROVE e.at[n + x] <= e.at[l]
        <5>y. PICK y : y = e.at[n + x]
          OBVIOUS
        <5>1. y \in Nat /\ y <= v
          BY <1>12, <5>y
        <5>2. y <= v + 1 + u
          BY <1>9, <3>3, <5>1
        <5> QED BY <3>6, <5>2, <5>y
      <4> QED BY <1>11, <3>3, <4>1, <4>2 DEF Last
    <3> QED BY <3>1, <3>2, <3>3, <3>4, <3>5, <3>6, <3>7, <3>8, <3>s, <3>u
  <2> QED BY <1>10, <2>1, <2>2 DEF Desk
<1>15. Keeps(e, z, iv, h, ctr + Blocks(m), ks, pos, gmac, ct1)
  BY <1>5, <1>8, <1>9, <1>14, <1>L, <1>h DEF Keeps
<1>16. \A q \in 1..m : <<iv, e.k[n + q], e.o[n + q]>> = KsByte(iv, ctr, q - 1)
  BY <1>7 DEF KsByte
<1>17. Wrote(b, e, n)
  BY <1>6 DEF Wrote
<1>18. Inserts(e, b, n, m, iv, hash, ctr, ks, pos, gmac, bytes, ct1)
  BY <1>15, <1>16, <1>17, <1>L, <1>h DEF Inserts
<1> QED BY <1>18

-----------------------------------------------------------------------------
(* The sender and its book.                                                *)

\* A book with no bytes, for a message just begun.
LEMMA KeepsBegins ==
  ASSUME NEW iv, NEW ks, NEW ct
  PROVE  \E b : Keeps(b, 0, iv, << >>, 2, ks, End, << >>, ct)
<1>z. PICK z \in Nat : z = 0
  OBVIOUS
<1>b. PICK b : b = [k |-> [i \in 1..z |-> 0], o |-> [i \in 1..z |-> 0], at |-> [i \in 1..z |-> 0],
                    open |-> [i \in 0..z |-> 0], now |-> [i \in 0..z |-> 2]]
  OBVIOUS
<1>1. /\ b.k = [i \in 1..z |-> 0] /\ b.o = [i \in 1..z |-> 0] /\ b.at = [i \in 1..z |-> 0]
      /\ b.open = [i \in 0..z |-> 0] /\ b.now = [i \in 0..z |-> 2]
  BY <1>b
<1>2. IsBook(b, z)
  BY <1>1 DEF IsBook
<1>3. b.open[0] = 0 /\ b.now[0] = 2
  BY <1>1, <1>z
<1>4. \A i \in 0..z : i = 0
  BY <1>z
<1>5. \A i \in 1..z : FALSE
  BY <1>z
<1>6. Counter(b, 0) /\ Buffer(b, 0)
  BY <1>3 DEF Counter, Buffer
<1>7. Lawful(b, z)
  BY <1>4, <1>5, <1>6 DEF Lawful
<1>8. Joint(<< >>, Chunks(<< >>)) = << >>
  BY ChunksOfNothing DEF Joint
<1>9. Filed(b, << >>, iv, ct, z)
  <2>1. Placed(b, << >>, ct, z)
    BY <1>5 DEF Placed
  <2>2. Listed(b, << >>, iv, ct, z)
    <3>1. \A x, r : ~Cell(<< >>, x, r)
      BY DEF Cell
    <3> QED BY <3>1 DEF Listed
  <2> QED BY <2>1, <2>2 DEF Filed
<1>10. Desk(b, z, iv, Len(<< >>), 2, ks, End, << >>)
  BY <1>3, <1>5, <1>z DEF Desk
<1>11. Keeps(b, z, iv, << >>, 2, ks, End, << >>, ct)
  BY <1>2, <1>7, <1>8, <1>9, <1>10 DEF Keeps, Law
<1> QED BY <1>11, <1>z

\* Each byte written is the next byte of the message, under the counter and
\* at the place of its block that the book has.
KeyedByte(b, iv, ct, j) == ct[j] = [pt |-> <<iv, j>>, ks |-> <<iv, b.k[j], b.o[j]>>]
Keyed(b, n, iv, ct) == Len(ct) = n /\ \A j \in 1..n : KeyedByte(b, iv, ct, j)

TxBook(b, s) ==
    /\ Keeps(b, s.payload_len, s.iv, s.hash, s.ctr, s.tx_ks, s.tx_ks_pos, s.tx_gmac, s.out)
    /\ Keyed(b, s.payload_len, s.iv, s.out)

\* A sender whose message has a book.
Booking(s) == Wrapper(s, Byte) /\ \E b : TxBook(b, s)

LEMMA KeyedMore ==
  ASSUME NEW iv, NEW n \in Nat, NEW b, NEW e, Wrote(b, e, n), NEW out \in Seq(Byte), NEW c \in Byte,
         Keyed(b, n, iv, out), c = [pt |-> <<iv, n + 1>>, ks |-> <<iv, e.k[n + 1], e.o[n + 1]>>]
  PROVE  Keyed(e, n + 1, iv, Append(out, c))
<1>a. PICK a : a = Append(out, c)
  OBVIOUS
<1>1. Len(out) = n
  BY DEF Keyed
<1>2. Len(a) = n + 1 /\ a[n + 1] = c /\ \A j \in 1..n : a[j] = out[j]
  BY <1>1, <1>a, AppendProperties
<1>3. ASSUME NEW j \in 1..n + 1 PROVE KeyedByte(e, iv, a, j)
  <2>1. CASE j = n + 1
    BY <1>2, <2>1 DEF KeyedByte
  <2>2. CASE j \in 1..n
    <3>1. KeyedByte(b, iv, out, j)
      BY <2>2 DEF Keyed
    <3>2. a[j] = out[j] /\ e.k[j] = b.k[j] /\ e.o[j] = b.o[j]
      BY <1>2, <2>2 DEF Wrote
    <3> QED BY <3>1, <3>2 DEF KeyedByte
  <2> QED BY <2>1, <2>2
<1> QED BY <1>2, <1>3, <1>a DEF Keyed

LEMMA BookOne ==
  ASSUME NEW s, Booking(s), NEW p, p = <<s.iv, s.payload_len + 1>>,
         NEW t, t = fuse_inline_enc_8(s, p)
  PROVE  Booking(t) /\ Frame(s, t) /\ t.payload_len = s.payload_len + 1
<1>w. /\ Wrapper(s, Byte) /\ s.iv \in Nat /\ s.payload_len \in Nat /\ s.ctr \in Nat
      /\ s.hash \in Seq(Piece) /\ s.tx_gmac \in Seq(Byte) /\ s.out \in Seq(Byte)
  BY DEF Booking, Wrapper, Buffers
<1>p. p \in Text
  BY <1>w DEF Text
<1>c. PICK c : c = Cipher(s, p)
  OBVIOUS
<1>g. PICK g : g = Ready(s)
  OBVIOUS
<1>2. /\ Wrapper(t, Byte) /\ Frame(s, t) /\ c \in Byte
      /\ t.tx_ks = g.tx_ks /\ t.tx_ks_pos = g.tx_ks_pos + 1
      /\ t.ctr = g.ctr /\ t.tx_gmac = Buffered(s.tx_gmac, c)
      /\ t.payload_len = s.payload_len + 1
      /\ t.hash = s.hash \o Absorbed(s.tx_gmac, c)
      /\ t.out = Append(s.out, c)
  BY <1>c, <1>g, <1>p, <1>w, StoredByte
<1>3. t.hash = Joint(s.hash, Absorbed(s.tx_gmac, c))
  BY <1>2 DEF Joint
<1>4. t.iv = s.iv
  BY <1>2 DEF Frame
<1>5. Refilled(s.iv, s.ctr, s.tx_ks, s.tx_ks_pos, g.ctr, g.tx_ks, g.tx_ks_pos)
  <2>1. /\ s.tx_ks_pos = End =>
             g.tx_ks_pos = 0 /\ g.ctr = s.ctr + Wide /\ g.tx_ks = <<s.iv, s.ctr>>
        /\ s.tx_ks_pos # End => g = s
    BY <1>g, <1>w, ReadyToSend
  <2> QED BY <2>1 DEF Refilled
<1>n. PICK iv, n, out : iv = s.iv /\ n = s.payload_len /\ out = t.out
  OBVIOUS
<1>6. iv \in Nat /\ n \in Nat
  BY <1>n, <1>w
<1>b. PICK b : TxBook(b, s)
  BY DEF Booking
<1>7. Keeps(b, n, iv, s.hash, s.ctr, s.tx_ks, s.tx_ks_pos, s.tx_gmac, s.out) /\ Keyed(b, n, iv, s.out)
  BY <1>b, <1>n DEF TxBook
<1>8. Len(s.out) = n
  BY <1>7 DEF Keyed
<1>9. out[n + 1] = c /\ \A j \in 1..n : out[j] = s.out[j]
  BY <1>2, <1>8, <1>n, <1>w, AppendProperties
<1>10. \E e : Enters(e, b, n, iv, s.hash, g.ctr, g.tx_ks, g.tx_ks_pos, s.tx_gmac, out)
  <2>1. Refilled(iv, s.ctr, s.tx_ks, s.tx_ks_pos, g.ctr, g.tx_ks, g.tx_ks_pos)
    BY <1>5, <1>n
  <2>2. out[n + 1] \in Byte
    BY <1>2, <1>9
  <2>f. PICK hash, ctr, ks, pos, gmac, old :
          /\ hash = s.hash /\ ctr = s.ctr /\ ks = s.tx_ks /\ pos = s.tx_ks_pos
          /\ gmac = s.tx_gmac /\ old = s.out
    OBVIOUS
  <2>3. hash \in Seq(Piece) /\ gmac \in Seq(Byte) /\ ctr \in Nat
    BY <1>w, <2>f
  <2>4. /\ Keeps(b, n, iv, hash, ctr, ks, pos, gmac, old)
        /\ Refilled(iv, ctr, ks, pos, g.ctr, g.tx_ks, g.tx_ks_pos)
    BY <1>7, <2>1, <2>f
  <2>5. \A j \in 1..n : out[j] = old[j]
    BY <1>9, <2>f
  <2>6. \E e : Enters(e, b, n, iv, hash, g.ctr, g.tx_ks, g.tx_ks_pos, gmac, out)
    BY <1>6, <2>2, <2>3, <2>4, <2>5, KeepsStore
  <2> QED BY <2>6, <2>f
<1>e. PICK e : Enters(e, b, n, iv, s.hash, g.ctr, g.tx_ks, g.tx_ks_pos, s.tx_gmac, out)
  BY <1>10
<1>11. /\ Keeps(e, n + 1, iv, Joint(s.hash, Absorbed(s.tx_gmac, c)), g.ctr, g.tx_ks, g.tx_ks_pos + 1,
                Buffered(s.tx_gmac, c), out)
       /\ Wrote(b, e, n)
       /\ KsByte(g.tx_ks[1], g.tx_ks[2], g.tx_ks_pos) = <<iv, e.k[n + 1], e.o[n + 1]>>
  BY <1>9, <1>e DEF Enters
<1>12. c = [pt |-> <<iv, n + 1>>, ks |-> <<iv, e.k[n + 1], e.o[n + 1]>>]
  <2>1. c = [pt |-> p, ks |-> KsByte(g.tx_ks[1], g.tx_ks[2], g.tx_ks_pos)]
    BY <1>c, <1>g DEF Cipher
  <2>2. p = <<iv, n + 1>>
    BY <1>n
  <2> QED BY <1>11, <2>1, <2>2
<1>13. Keyed(e, n + 1, iv, Append(s.out, c))
  BY <1>2, <1>6, <1>7, <1>11, <1>12, <1>w, KeyedMore
<1>14. t.iv = iv /\ t.payload_len = n + 1 /\ t.out = out /\ out = Append(s.out, c)
  BY <1>2, <1>4, <1>n
<1>15. TxBook(e, t)
  BY <1>2, <1>3, <1>11, <1>13, <1>14 DEF TxBook
<1> QED BY <1>2, <1>15 DEF Booking

\* Stores of two, four and eight bytes.
LEMMA BookTwo ==
  ASSUME NEW s, Booking(s),
         NEW p, p = <<s.iv, s.payload_len + 1>>, NEW q, q = <<s.iv, s.payload_len + 2>>,
         NEW t, t = fuse_inline_enc_8(fuse_inline_enc_8(s, p), q)
  PROVE  Booking(t) /\ Frame(s, t) /\ t.payload_len = s.payload_len + 2
<1>u. PICK u : u = fuse_inline_enc_8(s, p)
  OBVIOUS
<1>1. Booking(u) /\ Frame(s, u) /\ u.payload_len = s.payload_len + 1
  BY <1>u, BookOne
<1>2. s.payload_len \in Nat
  BY DEF Booking, Wrapper
<1>3. q = <<u.iv, u.payload_len + 1>> /\ t = fuse_inline_enc_8(u, q)
  <2>1. s.payload_len + 1 + 1 = s.payload_len + 2
    BY <1>2
  <2> QED BY <1>1, <1>u, <2>1 DEF Frame
<1>4. Booking(t) /\ Frame(u, t) /\ t.payload_len = u.payload_len + 1
  BY <1>1, <1>3, BookOne
<1>5. s.payload_len + 1 + 1 = s.payload_len + 2
  BY <1>2
<1> QED BY <1>1, <1>4, <1>5 DEF Frame

LEMMA BookFour ==
  ASSUME NEW s, Booking(s),
         NEW ps, \A i \in 1..4 : ps[i] = <<s.iv, s.payload_len + i>>,
         NEW t, t = fuse_inline_enc_32(s, ps)
  PROVE  Booking(t) /\ Frame(s, t) /\ t.payload_len = s.payload_len + 4
<1>u. PICK u : u = fuse_inline_enc_16(s, ps)
  OBVIOUS
<1>1. Booking(u) /\ Frame(s, u) /\ u.payload_len = s.payload_len + 2
  BY <1>u, BookTwo DEF fuse_inline_enc_16
<1>2. s.payload_len \in Nat
  BY DEF Booking, Wrapper
<1>3. /\ ps[3] = <<u.iv, u.payload_len + 1>> /\ ps[4] = <<u.iv, u.payload_len + 2>>
      /\ t = fuse_inline_enc_8(fuse_inline_enc_8(u, ps[3]), ps[4])
  <2>1. s.payload_len + 2 + 1 = s.payload_len + 3 /\ s.payload_len + 2 + 2 = s.payload_len + 4
    BY <1>2
  <2>2. t = fuse_inline_enc_8(fuse_inline_enc_8(u, ps[3]), ps[4])
    BY <1>u DEF fuse_inline_enc_32
  <2> QED BY <1>1, <2>1, <2>2 DEF Frame
<1>4. Booking(t) /\ Frame(u, t) /\ t.payload_len = u.payload_len + 2
  BY <1>1, <1>3, BookTwo
<1>5. s.payload_len + 2 + 2 = s.payload_len + 4
  BY <1>2
<1> QED BY <1>1, <1>4, <1>5 DEF Frame

\* A store of any width keeps the book.
LEMMA BookStored ==
  ASSUME NEW s, Booking(s), NEW w \in {1, 2, 4, 8},
         NEW t, t = Enc(s, Plain(s.iv, s.payload_len, w))
  PROVE  Booking(t)
<1>n. s.payload_len \in Nat /\ s.iv \in Nat
  BY DEF Booking, Wrapper
<1>p. PICK ps : ps = Plain(s.iv, s.payload_len, w)
  OBVIOUS
<1>1. /\ ps \in Seq(Text) /\ Len(ps) = w /\ \A i \in 1..w : ps[i] = <<s.iv, s.payload_len + i>>
  <2>1. w \in Nat
    OBVIOUS
  <2>2. ps \in Seq(Text) /\ Len(ps) = w
    BY <1>n, <1>p, <2>1, PlainType
  <2>3. \A i \in 1..w : ps[i] = <<s.iv, s.payload_len + i>>
    BY <1>p DEF Plain
  <2> QED BY <2>2, <2>3
<1>t. t = Enc(s, ps)
  BY <1>p
<1>2. CASE w = 1
  <2>1. t = fuse_inline_enc_8(s, ps[1])
    <3>1. Len(ps) = 1
      BY <1>1, <1>2
    <3> QED BY <1>t, <3>1, EncOf
  <2>2. ps[1] = <<s.iv, s.payload_len + 1>>
    BY <1>1, <1>2
  <2> QED BY <2>1, <2>2, BookOne
<1>3. CASE w = 2
  <2>1. t = fuse_inline_enc_8(fuse_inline_enc_8(s, ps[1]), ps[2])
    <3>1. Len(ps) = 2
      BY <1>1, <1>3
    <3> QED BY <1>t, <3>1, EncOf
  <2> QED BY <1>1, <1>3, <2>1, BookTwo
<1>4. CASE w = 4
  <2>1. t = fuse_inline_enc_32(s, ps)
    <3>1. Len(ps) = 4
      BY <1>1, <1>4
    <3> QED BY <1>t, <3>1, EncOf
  <2> QED BY <1>1, <1>4, <2>1, BookFour
<1>5. CASE w = 8
  <2> PICK u, qs : u = fuse_inline_enc_32(s, ps) /\ qs = SubSeq(ps, 5, 8)
    OBVIOUS
  <2>1. t = fuse_inline_enc_32(u, qs)
    <3>1. Len(ps) = 8
      BY <1>1, <1>5
    <3> QED BY <1>t, <3>1, EncOf
  <2>2. Booking(u) /\ Frame(s, u) /\ u.payload_len = s.payload_len + 4
    BY <1>1, <1>5, BookFour
  <2>3. ASSUME NEW i \in 1..4 PROVE qs[i] = <<u.iv, u.payload_len + i>>
    <3>1. qs[i] = ps[4 + i]
      BY <1>1, <1>5, SubSeqProperties
    <3>2. ps[4 + i] = <<s.iv, s.payload_len + (4 + i)>>
      BY <1>1, <1>5
    <3>3. s.payload_len + (4 + i) = s.payload_len + 4 + i
      BY <1>n
    <3> QED BY <2>2, <3>1, <3>2, <3>3 DEF Frame
  <2> QED BY <2>1, <2>2, <2>3, BookFour
<1> QED BY <1>2, <1>3, <1>4, <1>5

\* The text d is n bytes x and m bytes y.
JoinOf(d, x, n, y, m) ==
    /\ Len(d) = n + m
    /\ \A i \in 1..n : d[i] = x[i]
    /\ \A i \in 1..m : d[n + i] = y[i]

LEMMA JoinedTexts ==
  ASSUME NEW S, NEW x \in Seq(S), NEW y \in Seq(S), NEW d, d = x \o y,
         NEW n, NEW m, n = Len(x), m = Len(y)
  PROVE  JoinOf(d, x, n, y, m)
<1>1. /\ Len(d) = Len(x) + Len(y)
      /\ \A i \in 1..Len(x) : d[i] = x[i]
      /\ \A i \in 1..Len(y) : d[Len(x) + i] = y[i]
  BY Joined
<1> QED BY <1>1 DEF JoinOf

LEMMA KeyedJoin ==
  ASSUME NEW iv, NEW n \in Nat, NEW m \in Nat, NEW b, NEW e, Wrote(b, e, n),
         NEW out \in Seq(Byte), NEW cs \in Seq(Byte), Len(cs) = m, Keyed(b, n, iv, out),
         \A q \in 1..m : cs[q] = [pt |-> <<iv, n + q>>, ks |-> <<iv, e.k[n + q], e.o[n + q]>>]
  PROVE  /\ Keyed(e, n + m, iv, out \o cs)
         /\ \A j \in 1..n : (out \o cs)[j] = out[j]
         /\ \A q \in 1..m : (out \o cs)[n + q] = cs[q]
<1>a. PICK a : a = out \o cs
  OBVIOUS
<1>1. Len(out) = n
  BY DEF Keyed
<1>2. Len(a) = n + m /\ (\A j \in 1..n : a[j] = out[j]) /\ \A q \in 1..m : a[n + q] = cs[q]
  <2>1. JoinOf(a, out, n, cs, m)
    BY <1>1, <1>a, JoinedTexts
  <2> QED BY <2>1 DEF JoinOf
<1>3. ASSUME NEW j \in 1..n + m PROVE KeyedByte(e, iv, a, j)
  <2>1. CASE j \in 1..n
    <3>1. KeyedByte(b, iv, out, j)
      BY <2>1 DEF Keyed
    <3>2. a[j] = out[j] /\ e.k[j] = b.k[j] /\ e.o[j] = b.o[j]
      BY <1>2, <2>1 DEF Wrote
    <3> QED BY <3>1, <3>2 DEF KeyedByte
  <2>2. CASE j > n
    <3>q. PICK q : q = j - n
      OBVIOUS
    <3>1. q \in 1..m /\ j = n + q
      BY <2>2, <3>q
    <3> QED BY <1>2, <3>1 DEF KeyedByte
  <2> QED BY <2>1, <2>2
<1> QED BY <1>2, <1>3, <1>a DEF Keyed

\* A copy keeps the book, wherever it comes.
LEMMA BookProcessed ==
  ASSUME NEW s, Booking(s), NEW m \in Nat,
         NEW t, t = process_fused(s, Plain(s.iv, s.payload_len, m))
  PROVE  Booking(t)
<1>n. PICK iv, n, ctr, hash, gmac, old, ks, pos :
        /\ iv = s.iv /\ n = s.payload_len /\ ctr = s.ctr /\ hash = s.hash
        /\ gmac = s.tx_gmac /\ old = s.out /\ ks = s.tx_ks /\ pos = s.tx_ks_pos
  OBVIOUS
<1>1. /\ iv \in Nat /\ n \in Nat /\ ctr \in Nat /\ hash \in Seq(Piece) /\ gmac \in Seq(Byte)
      /\ old \in Seq(Byte)
  BY <1>n DEF Booking, Wrapper, Buffers
<1>w. Wrapper(s, Byte)
  BY DEF Booking
<1>p. PICK ps : ps = Plain(iv, n, m)
  OBVIOUS
<1>2. ps \in Seq(Text) /\ Len(ps) = m /\ \A i \in 1..m : ps[i] = <<iv, n + i>>
  <2>1. ps \in Seq(Text) /\ Len(ps) = m
    BY <1>1, <1>p, PlainType
  <2>2. \A i \in 1..m : ps[i] = <<iv, n + i>>
    BY <1>p DEF Plain
  <2> QED BY <2>1, <2>2
<1>c. PICK cs : cs = CipherText(s, ps)
  OBVIOUS
<1>3. /\ Wrapper(t, Byte) /\ Frame(s, t) /\ t.ctr = s.ctr + Blocks(Len(ps))
      /\ t.tx_ks = s.tx_ks /\ t.tx_ks_pos = s.tx_ks_pos /\ t.tx_gmac = s.tx_gmac
      /\ t.out = s.out \o cs
      /\ t.hash = s.hash \o Chunks(cs)
      /\ t.payload_len = s.payload_len + Len(ps)
  <2>1. t = process_fused(s, ps)
    BY <1>n, <1>p
  <2>2. ps \in Seq(Text)
    BY <1>2
  <2>3. /\ Wrapper(t, Byte) /\ Frame(s, t) /\ t.ctr = s.ctr + Blocks(Len(ps))
        /\ t.tx_ks = s.tx_ks /\ t.tx_ks_pos = s.tx_ks_pos /\ t.tx_gmac = s.tx_gmac
        /\ t.out = s.out \o CipherText(s, ps)
        /\ t.hash = s.hash \o Chunks(CipherText(s, ps))
        /\ t.payload_len = s.payload_len + Len(ps)
    BY <1>w, <2>1, <2>2, ProcessedType
  <2> QED BY <1>c, <2>3
<1>4. /\ t.iv = iv /\ t.payload_len = n + m /\ t.out = old \o cs /\ t.ctr = ctr + Blocks(m)
      /\ t.hash = Joint(hash, Chunks(cs)) /\ t.tx_ks = ks /\ t.tx_ks_pos = pos /\ t.tx_gmac = gmac
  BY <1>2, <1>3, <1>n DEF Frame, Joint
<1>5. /\ cs \in Seq(Byte) /\ Len(cs) = m
      /\ \A q \in 1..m : cs[q] = [pt |-> <<iv, n + q>>, ks |-> KsByte(iv, ctr, q - 1)]
  <2>1. cs \in Seq(Byte)
    BY <1>1, <1>2, <1>c, <1>n, CipherTextType
  <2>2. DOMAIN ps = 1..m
    BY <1>2, LenProperties
  <2>3. cs = [i \in 1..m |-> [pt |-> ps[i], ks |-> KsByte(iv, ctr, i - 1)]]
    BY <1>c, <1>n, <2>2 DEF CipherText
  <2>4. DOMAIN cs = 1..m /\ \A q \in 1..m : cs[q] = [pt |-> ps[q], ks |-> KsByte(iv, ctr, q - 1)]
    BY <2>3
  <2>5. Len(cs) = m
    BY <2>1, <2>4, LenProperties
  <2> QED BY <1>2, <2>1, <2>4, <2>5
<1>b. PICK b : TxBook(b, s)
  BY DEF Booking
<1>6. Keeps(b, n, iv, hash, ctr, ks, pos, gmac, old) /\ Keyed(b, n, iv, old)
  BY <1>b, <1>n DEF TxBook
<1>o. PICK out : out = old \o cs
  OBVIOUS
<1>7. (\A j \in 1..n : out[j] = old[j]) /\ \A q \in 1..m : out[n + q] = cs[q]
  <2>1. Len(old) = n
    BY <1>6 DEF Keyed
  <2>2. JoinOf(out, old, n, cs, m)
    BY <1>1, <1>5, <1>o, <2>1, JoinedTexts
  <2> QED BY <2>2 DEF JoinOf
<1>8. \E e : Inserts(e, b, n, m, iv, hash, ctr, ks, pos, gmac, cs, out)
  <2>1. m <= Len(cs) /\ \A q \in 1..Len(cs) : OfAad(iv, cs[q]) \/ q <= m
    BY <1>5
  <2> QED BY <1>1, <1>5, <1>6, <1>7, <2>1, KeepsInsert
<1>e. PICK e : Inserts(e, b, n, m, iv, hash, ctr, ks, pos, gmac, cs, out)
  BY <1>8
<1>9. /\ Keeps(e, n + m, iv, Joint(hash, Chunks(cs)), ctr + Blocks(m), ks, pos, gmac, out)
      /\ Wrote(b, e, n)
      /\ \A q \in 1..m : <<iv, e.k[n + q], e.o[n + q]>> = KsByte(iv, ctr, q - 1)
  BY <1>e DEF Inserts
<1>10. Keyed(e, n + m, iv, out)
  <2>1. \A q \in 1..m : cs[q] = [pt |-> <<iv, n + q>>, ks |-> <<iv, e.k[n + q], e.o[n + q]>>]
    BY <1>5, <1>9
  <2> QED BY <1>1, <1>5, <1>6, <1>9, <1>o, <2>1, KeyedJoin
<1>11. TxBook(e, t)
  BY <1>4, <1>9, <1>10, <1>o DEF TxBook
<1> QED BY <1>3, <1>11 DEF Booking

LEMMA BookCopied ==
  ASSUME NEW s, Booking(s), NEW m \in Nat,
         NEW t, t = fuse_inline_enc_memcpy(s, Plain(s.iv, s.payload_len, m))
  PROVE  Booking(t)
<1>1. CASE t = process_fused(s, Plain(s.iv, s.payload_len, m))
  BY <1>1, BookProcessed
<1>2. CASE t = [s EXCEPT !.overrun = TRUE]
  <2>v. PICK v : v = TRUE
    OBVIOUS
  <2>w. Wrapper(s, Byte)
    BY DEF Booking
  <2>1. t = [s EXCEPT !.overrun = v]
    BY <1>2, <2>v
  <2>2. /\ IsWrapper(t) /\ t.overrun = v
        /\ t.on = s.on /\ t.iv = s.iv /\ t.ctr = s.ctr /\ t.hash = s.hash
        /\ t.aad_len = s.aad_len /\ t.payload_len = s.payload_len
        /\ t.tx_ks = s.tx_ks /\ t.tx_ks_pos = s.tx_ks_pos /\ t.tx_gmac = s.tx_gmac
        /\ t.rx_ks = s.rx_ks /\ t.rx_ks_pos = s.rx_ks_pos /\ t.rx_gmac = s.rx_gmac
        /\ t.out = s.out
    BY <2>1, <2>w DEF Wrapper, IsWrapper
  <2>3. Wrapper(t, Byte)
    BY <2>2, <2>v, <2>w DEF Wrapper
  <2>b. PICK b : TxBook(b, s)
    BY DEF Booking
  <2>4. TxBook(b, t)
    BY <2>2, <2>b DEF TxBook
  <2> QED BY <2>3, <2>4 DEF Booking
<1> QED BY <1>1, <1>2 DEF fuse_inline_enc_memcpy

\* The additional data goes into the blocks between what is absorbed and what
\* waits in the buffer, and no byte of the text with it.
LEMMA BookAad ==
  ASSUME NEW s, Booking(s), NEW m \in Nat, NEW from \in Nat,
         NEW t, t = fuse_update_enc(s, Aad(s.iv, from, m))
  PROVE  Booking(t)
<1>n. PICK iv, n, ctr, hash, gmac, old, ks, pos, bytes :
        /\ iv = s.iv /\ n = s.payload_len /\ ctr = s.ctr /\ hash = s.hash
        /\ gmac = s.tx_gmac /\ old = s.out /\ ks = s.tx_ks /\ pos = s.tx_ks_pos
        /\ bytes = Aad(s.iv, from, m)
  OBVIOUS
<1>1. /\ iv \in Nat /\ n \in Nat /\ ctr \in Nat /\ hash \in Seq(Piece) /\ gmac \in Seq(Byte)
      /\ old \in Seq(Byte) /\ Wrapper(s, Byte)
  BY <1>n DEF Booking, Wrapper, Buffers
<1>2. bytes \in Seq(Byte) /\ Len(bytes) = m
  BY <1>1, <1>n, AadBytes
<1>3. \A q \in 1..m : OfAad(iv, bytes[q])
  BY <1>n DEF Aad, OfAad
<1>4. /\ Wrapper(t, Byte) /\ t.hash = s.hash \o Chunks(bytes) /\ t.iv = s.iv /\ t.ctr = s.ctr
      /\ t.out = s.out /\ t.payload_len = s.payload_len
      /\ t.tx_ks = s.tx_ks /\ t.tx_ks_pos = s.tx_ks_pos /\ t.tx_gmac = s.tx_gmac
  <2>0. Wrapper(s, Byte) /\ bytes \in Seq(Byte)
    BY <1>1, <1>2
  <2>1. t = fuse_update_enc(s, bytes)
    BY <1>n
  <2>2. PICK v : /\ v = fuse_update_enc(s, bytes) /\ Wrapper(v, Byte)
                /\ v.hash = s.hash \o Chunks(bytes) /\ v.iv = s.iv /\ v.ctr = s.ctr
                /\ v.out = s.out /\ v.payload_len = s.payload_len
                /\ v.tx_ks = s.tx_ks /\ v.tx_ks_pos = s.tx_ks_pos /\ v.tx_gmac = s.tx_gmac
    BY <2>0, AadType
  <2>3. t = v
    BY <2>1, <2>2
  <2> QED BY <2>2, <2>3
<1>b. PICK b : TxBook(b, s)
  BY DEF Booking
<1>5. Keeps(b, n, iv, hash, ctr, ks, pos, gmac, old) /\ Keyed(b, n, iv, old)
  BY <1>b, <1>n DEF TxBook
<1>z. PICK z \in Nat : z = 0
  OBVIOUS
<1>6. \E e : Inserts(e, b, n, z, iv, hash, ctr, ks, pos, gmac, bytes, old)
  <2>1. /\ z <= Len(bytes) /\ \A q \in 1..Len(bytes) : OfAad(iv, bytes[q]) \/ q <= z
        /\ \A q \in 1..z : old[n + q] = bytes[q]
        /\ \A j \in 1..n : old[j] = old[j]
    BY <1>2, <1>3, <1>z
  <2> QED BY <1>1, <1>2, <1>5, <2>1, KeepsInsert
<1>e. PICK e : Inserts(e, b, n, z, iv, hash, ctr, ks, pos, gmac, bytes, old)
  BY <1>6
<1>7. /\ Keeps(e, n + z, iv, Joint(hash, Chunks(bytes)), ctr + Blocks(z), ks, pos, gmac, old)
      /\ Wrote(b, e, n)
  BY <1>e DEF Inserts
<1>8. n + z = n /\ ctr + Blocks(z) = ctr
  <2>1. Blocks(0) = 0
    BY <1>z, BlocksOfWhole
  <2> QED BY <1>1, <1>z, <2>1
<1>9. Keyed(e, n, iv, old)
  <2>1. \A j \in 1..n : KeyedByte(b, iv, old, j) => KeyedByte(e, iv, old, j)
    BY <1>7 DEF Wrote, KeyedByte
  <2> QED BY <1>5, <2>1 DEF Keyed
<1>10. TxBook(e, t)
  BY <1>4, <1>7, <1>8, <1>9, <1>n DEF TxBook, Joint
<1> QED BY <1>4, <1>10 DEF Booking

\* A message begins with an empty book.
LEMMA BookBegins ==
  ASSUME NEW s, Wrapper(s, Byte), NEW iv \in Nat, NEW t, t = fuse_init(s, iv)
  PROVE  Booking(t)
<1>0. Wrapper(t, Byte)
  BY InitType
<1>1. t.iv = iv /\ t.ctr = 2
  BY InitType
<1>2. t.hash = << >> /\ t.out = << >>
  BY InitType
<1>3. t.payload_len = 0
  BY InitType
<1>4. t.tx_ks_pos = End
  BY InitType
<1>5. t.tx_gmac = << >>
  BY InitType
<1>6. PICK b : Keeps(b, 0, iv, << >>, 2, t.tx_ks, End, << >>, << >>)
  BY KeepsBegins
<1>7. Keyed(b, 0, iv, << >>)
  BY DEF Keyed
<1>8. TxBook(b, t)
  BY <1>1, <1>2, <1>3, <1>4, <1>5, <1>6, <1>7 DEF TxBook
<1> QED BY <1>0, <1>8 DEF Booking

-----------------------------------------------------------------------------
(* The books of the messages on the wire.                                  *)

\* A message as the wire holds it, with its book.
MailBook(b, m) ==
    /\ Law(b, Len(m.ct)) /\ Filed(b, m.tag.hash, m.iv, m.ct, Len(m.ct))
    /\ Keyed(b, Len(m.ct), m.iv, m.ct)
Booked(m) == \E b : MailBook(b, m)

\* The message being made has a book, and so has each that was made.
IBooking == tx.on => Booking(tx)
IBooked == \A i \in 1..Len(wire) : wire[i].iv = i /\ Booked(wire[i])

LEMMA BookingNext == ASSUME IStream, IBooking, [Next]_vars PROVE IBooking'
<1>0. /\ Wrapper(tx, Byte) /\ tx.aad_len \in Nat /\ Len(wire) \in Nat
  BY LenProperties DEF IStream, ISender, IWire, Sender, Wrapper
<1>1. CASE TxInit
  <2>1. tx' = fuse_init(tx, Len(wire) + 1) /\ Len(wire) + 1 \in Nat
    BY <1>0, <1>1 DEF TxInit
  <2>2. Booking(tx')
    BY <1>0, <2>1, BookBegins
  <2> QED BY <2>2 DEF IBooking
<1>2. ASSUME NEW n \in AadLens, TxAad(n) PROVE Booking(tx')
  <2>1. n \in Nat /\ Booking(tx) /\ tx' = fuse_update_enc(tx, Aad(tx.iv, tx.aad_len, n))
    BY <1>2, StreamAssumption DEF TxAad, IBooking
  <2> QED BY <1>0, <2>1, BookAad
<1>3. ASSUME NEW w \in Widths, TxStore(w) PROVE Booking(tx')
  <2>1. w \in {1, 2, 4, 8} /\ Booking(tx) /\ tx' = Enc(tx, Plain(tx.iv, tx.payload_len, w))
    BY <1>3, StreamAssumption DEF TxStore, IBooking
  <2> QED BY <2>1, BookStored
<1>4. ASSUME NEW n \in Copies, TxCopy(n) PROVE Booking(tx')
  <2>1. /\ n \in Nat /\ Booking(tx)
        /\ tx' = fuse_inline_enc_memcpy(tx, Plain(tx.iv, tx.payload_len, n))
    BY <1>4, StreamAssumption DEF TxCopy, IBooking
  <2> QED BY <2>1, BookCopied
<1>5. CASE TxFinalize
  <2>1. tx' = Ended(tx, tx.tx_gmac) /\ tx.tx_gmac \in Seq(Byte)
    BY <1>0, <1>5 DEF TxFinalize, fuse_finalize_enc, Ended, Wrapper, Buffers
  <2>2. ~tx'.on
    BY <1>0, <2>1, Closed
  <2> QED BY <2>2 DEF IBooking
<1>6. CASE UNCHANGED tx
  BY <1>6 DEF IBooking
<1>7. CASE \/ \E n \in AadLens : TxAad(n)
           \/ \E w \in Widths : TxStore(w)
           \/ \E n \in Copies : TxCopy(n)
  BY <1>2, <1>3, <1>4, <1>7 DEF IBooking
<1> QED BY <1>1, <1>5, <1>6, <1>7
        DEF Next, vars, RxInit, RxAad, RxStore, RxCopy, RxVerify

\* A message is finalized with its book.
LEMMA SentBooked ==
  ASSUME NEW s, Booking(s), NEW o,
         NEW m, m = [iv |-> s.iv, aad_len |-> s.aad_len, ct |-> s.out,
                     tag |-> TagOf(s, s.tx_gmac), ordered |-> o]
  PROVE  m.iv = s.iv /\ Booked(m)
<1>1. m.iv = s.iv /\ m.ct = s.out /\ m.tag = TagOf(s, s.tx_gmac)
  OBVIOUS
<1>2. m.tag.hash = Joint(s.hash, Chunks(s.tx_gmac))
  BY <1>1 DEF TagOf, Joint
<1>b. PICK b : TxBook(b, s)
  BY DEF Booking
<1>3. /\ Law(b, s.payload_len)
      /\ Filed(b, Joint(s.hash, Chunks(s.tx_gmac)), s.iv, s.out, s.payload_len)
      /\ Keyed(b, s.payload_len, s.iv, s.out)
  BY <1>b DEF TxBook, Keeps
<1>4. Len(s.out) = s.payload_len
  BY <1>3 DEF Keyed
<1>5. MailBook(b, m)
  BY <1>1, <1>2, <1>3, <1>4 DEF MailBook
<1> QED BY <1>1, <1>5 DEF Booked

LEMMA BookedNext == ASSUME IStream, IBooking, IBooked, [Next]_vars PROVE IBooked'
<1>0. wire \in Seq(Mail) /\ Len(wire) \in Nat /\ (tx.on => tx.iv = Len(wire) + 1)
  BY LenProperties DEF IStream, ISender, IWire, Current
<1>1. CASE TxFinalize
  <2>m. PICK m : m = [iv |-> tx.iv, aad_len |-> tx.aad_len, ct |-> tx.out,
                      tag |-> TagOf(tx, tx.tx_gmac), ordered |-> txCalls.ordered]
    OBVIOUS
  <2>1. wire' = Append(wire, m) /\ tx.on
    BY <1>1, <2>m DEF TxFinalize
  <2>2. m.iv = Len(wire) + 1 /\ Booked(m)
    <3>1. Booking(tx)
      BY <2>1 DEF IBooking
    <3>2. m.iv = tx.iv /\ Booked(m)
      BY <2>m, <3>1, SentBooked
    <3> QED BY <1>0, <2>1, <3>2
  <2>3. /\ Len(wire') = Len(wire) + 1 /\ wire'[Len(wire) + 1] = m
        /\ \A i \in 1..Len(wire) : wire'[i] = wire[i]
    <3>1. wire \in Seq(Mail \cup {m}) /\ m \in Mail \cup {m}
      BY <1>0, SeqMonotonic
    <3> QED BY <2>1, <3>1, AppendProperties
  <2>4. ASSUME NEW i \in 1..Len(wire') PROVE wire'[i].iv = i /\ Booked(wire'[i])
    <3>1. CASE i \in 1..Len(wire)
      BY <2>3, <3>1 DEF IBooked
    <3>2. CASE i = Len(wire) + 1
      BY <2>2, <2>3, <3>2
    <3> QED BY <1>0, <2>3, <3>1, <3>2
  <2> QED BY <2>4 DEF IBooked
<1>2. CASE UNCHANGED wire
  BY <1>2 DEF IBooked
<1> QED BY <1>1, <1>2
        DEF Next, vars, TxInit, TxAad, TxStore, TxCopy, RxInit, RxAad, RxStore, RxCopy, RxVerify

-----------------------------------------------------------------------------
(* The receiver and its book.                                              *)

\* The blocks a receiver has absorbed, and those that wait.
Hashed(s) == Joint(s.hash, Chunks(s.rx_gmac))

\* Byte j was opened with the keystream that the book has for it.
OpenedByte(b, iv, ct, out, j) == out[j] = Opened(ct[j], <<iv, b.k[j], b.o[j]>>)

RxBook(b, s, ct) ==
    /\ Keeps(b, s.payload_len, s.iv, s.hash, s.ctr, s.rx_ks, s.rx_ks_pos, s.rx_gmac, ct)
    /\ Len(s.out) = s.payload_len
    /\ \A j \in 1..s.payload_len : OpenedByte(b, s.iv, ct, s.out, j)

\* A byte of another message is among what is hashed.
Foreign(s) == \E x, r : Cell(Hashed(s), x, r) /\ Hashed(s)[x][r].pt[1] # s.iv

\* A receiver never sends, and reads a byte of keystream for each byte it
\* keeps.
Reader(s) ==
    /\ Wrapper(s, Text) /\ s.tx_gmac = << >> /\ s.tx_ks_pos = End
    /\ s.rx_ks_pos = IF Len(s.rx_gmac) = 0 THEN End ELSE Len(s.rx_gmac)

\* The bytes that wait are of messages up to the i-th.
Seen(s, i) == \A x \in 1..Len(s.rx_gmac) : s.rx_gmac[x].pt[1] <= i

Reads(s, ct, i) == Reader(s) /\ Seen(s, i) /\ (Foreign(s) \/ \E b : RxBook(b, s, ct))

LEMMA BufferedBlocks ==
  ASSUME NEW hash \in Seq(Piece), NEW gmac \in Seq(Byte), NEW c \in Byte
  PROVE  Joint(Joint(hash, Absorbed(gmac, c)), Chunks(Buffered(gmac, c))) =
             Joint(hash, Chunks(Append(gmac, c)))
<1>d. PICK d : d = Chunks(Append(gmac, c))
  OBVIOUS
<1>1. d \in Seq(Piece)
  <2>1. Append(gmac, c) \in Seq(Byte)
    BY AppendProperties
  <2> QED BY <1>d, <2>1, ChunksType
<1>2. CASE Len(gmac) + 1 = End
  <2>1. Absorbed(gmac, c) = d /\ Buffered(gmac, c) = << >>
    BY <1>2, <1>d DEF Absorbed, Buffered
  <2>2. Joint(hash, d) \in Seq(Piece)
    BY <1>1, ConcatProperties DEF Joint
  <2>3. Joint(Joint(hash, d), << >>) = Joint(hash, d)
    BY <2>2, ConcatEmptySeq DEF Joint
  <2> QED BY <1>d, <2>1, <2>3, ChunksOfNothing
<1>3. CASE Len(gmac) + 1 # End
  <2>1. Absorbed(gmac, c) = << >> /\ Buffered(gmac, c) = Append(gmac, c)
    BY <1>3 DEF Absorbed, Buffered
  <2>2. Joint(hash, << >>) = hash
    BY ConcatEmptySeq DEF Joint
  <2> QED BY <2>1, <2>2
<1> QED BY <1>2, <1>3

\* A byte of another message stays among what is hashed when one is read.
LEMMA ForeignStore ==
  ASSUME NEW s, Wrapper(s, Text), Foreign(s), NEW c \in Byte, NEW t, t.iv = s.iv,
         t.hash = Joint(s.hash, Absorbed(s.rx_gmac, c)), t.rx_gmac = Buffered(s.rx_gmac, c)
  PROVE  Foreign(t)
<1>f. PICK hash, gmac, V, W, X, R :
        /\ hash = s.hash /\ gmac = s.rx_gmac /\ V = Joint(hash, Chunks(gmac))
        /\ W = Joint(hash, Chunks(Append(gmac, c)))
        /\ X = Len(hash) + 1 + (Len(gmac) \div Block) /\ R = (Len(gmac) % Block) + 1
  OBVIOUS
<1>1. hash \in Seq(Piece) /\ gmac \in Seq(Byte)
  BY <1>f DEF Wrapper, Buffers
<1>2. \A x, r : Cell(V, x, r) => Cell(W, x, r) /\ W[x][r] = V[x][r]
  BY <1>1, <1>f, BufferCells
<1>3. Hashed(s) = V
  BY <1>f DEF Hashed
<1>4. Hashed(t) = W
  BY <1>1, <1>f, BufferedBlocks DEF Hashed
<1>5. PICK x, r : Cell(V, x, r) /\ V[x][r].pt[1] # s.iv
  BY <1>3 DEF Foreign
<1>6. Cell(W, x, r) /\ W[x][r].pt[1] # t.iv
  BY <1>2, <1>5
<1> QED BY <1>4, <1>6 DEF Foreign

\* Or when blocks are absorbed in front of those that wait.
LEMMA ForeignInsert ==
  ASSUME NEW s, Wrapper(s, Text), Foreign(s), NEW d \in Seq(Piece), NEW t, t.iv = s.iv,
         t.hash = Joint(s.hash, d), t.rx_gmac = s.rx_gmac
  PROVE  Foreign(t)
<1>f. PICK hash, gmac, g, V, W, L :
        /\ hash = s.hash /\ gmac = s.rx_gmac /\ g = Chunks(gmac) /\ V = Joint(hash, g)
        /\ W = Joint(Joint(hash, d), g) /\ L = Len(hash)
  OBVIOUS
<1>1. hash \in Seq(Piece) /\ gmac \in Seq(Byte)
  BY <1>f DEF Wrapper, Buffers
<1>2. g \in Seq(Piece)
  BY <1>1, <1>f, ChunksType
<1>3. Inserted(V, W, L, d)
  BY <1>1, <1>2, <1>f, InsertedCells
<1>4. Hashed(s) = V /\ Hashed(t) = W
  BY <1>f DEF Hashed
<1>5. PICK x, r : Cell(V, x, r) /\ V[x][r].pt[1] # s.iv
  BY <1>4 DEF Foreign
<1>6. \E y : Cell(W, y, r) /\ W[y] = V[x]
  BY <1>3, <1>5 DEF Inserted
<1>7. PICK y : Cell(W, y, r) /\ W[y] = V[x]
  BY <1>6
<1>8. Cell(W, y, r) /\ W[y][r].pt[1] # t.iv
  BY <1>5, <1>7
<1> QED BY <1>4, <1>8 DEF Foreign

\* A byte read keeps the positions together, and waits or is absorbed.
LEMMA ReaderStore ==
  ASSUME NEW s, Reader(s), NEW i, Seen(s, i), NEW c \in Byte, c.pt[1] <= i,
         NEW t, Wrapper(t, Text), t.tx_gmac = s.tx_gmac, t.tx_ks_pos = s.tx_ks_pos,
         t.rx_ks_pos = (IF s.rx_ks_pos = End THEN 0 ELSE s.rx_ks_pos) + 1,
         t.rx_gmac = Buffered(s.rx_gmac, c)
  PROVE  Reader(t) /\ Seen(t, i)
<1>g. PICK gmac, a : gmac = s.rx_gmac /\ a = Append(gmac, c)
  OBVIOUS
<1>1. gmac \in Seq(Byte) /\ Len(gmac) < End /\ Len(gmac) \in Nat
  BY <1>g, LenProperties DEF Reader, Wrapper, Buffers
<1>2. /\ Len(a) = Len(gmac) + 1 /\ a[Len(gmac) + 1] = c
      /\ \A x \in 1..Len(gmac) : a[x] = gmac[x]
  BY <1>1, <1>g, AppendProperties
<1>3. t.rx_gmac = IF Len(gmac) + 1 = End THEN << >> ELSE a
  BY <1>g DEF Buffered
<1>4. Len(t.rx_gmac) = IF Len(gmac) + 1 = End THEN 0 ELSE Len(gmac) + 1
  BY <1>2, <1>3
<1>5. s.rx_ks_pos = IF Len(gmac) = 0 THEN End ELSE Len(gmac)
  BY <1>g DEF Reader
<1>6. t.rx_ks_pos = IF Len(t.rx_gmac) = 0 THEN End ELSE Len(t.rx_gmac)
  <2>1. t.rx_ks_pos = Len(gmac) + 1
    BY <1>1, <1>5
  <2> QED BY <1>1, <1>4, <2>1
<1>7. Reader(t)
  BY <1>6 DEF Reader
<1>8. ASSUME NEW x \in 1..Len(t.rx_gmac) PROVE t.rx_gmac[x].pt[1] <= i
  <2>1. Len(gmac) + 1 # End /\ t.rx_gmac = a
    BY <1>3, <1>4
  <2>2. x \in 1..Len(gmac) + 1
    BY <1>4, <2>1
  <2>3. CASE x = Len(gmac) + 1
    BY <1>2, <2>1, <2>3
  <2>4. CASE x \in 1..Len(gmac)
    BY <1>2, <1>g, <2>1, <2>4 DEF Seen
  <2> QED BY <1>1, <2>2, <2>3, <2>4
<1> QED BY <1>7, <1>8 DEF Seen

\* What reading a byte does to the fields of the wrapper.
ReadInto(s, c, t, ctr1, ks1, pos1) ==
    /\ Wrapper(t, Text) /\ Frame(s, t)
    /\ t.tx_gmac = s.tx_gmac /\ t.tx_ks_pos = s.tx_ks_pos
    /\ t.rx_ks = ks1 /\ t.ctr = ctr1 /\ t.rx_ks_pos = pos1 + 1
    /\ t.rx_gmac = Buffered(s.rx_gmac, c)
    /\ t.hash = Joint(s.hash, Absorbed(s.rx_gmac, c))
    /\ t.payload_len = s.payload_len + 1
    /\ t.out = Append(s.out, Opened(c, KsByte(ks1[1], ks1[2], pos1)))

\* One byte read.
LEMMA ReadByte ==
  ASSUME NEW s, Wrapper(s, Text), NEW c \in Byte, NEW t, t = fuse_inline_dec_8(s, c),
         NEW ctr1, NEW ks1, NEW pos1,
         ks1 = (IF s.rx_ks_pos = End THEN <<s.iv, s.ctr>> ELSE s.rx_ks),
         ctr1 = (IF s.rx_ks_pos = End THEN s.ctr + Wide ELSE s.ctr),
         pos1 = (IF s.rx_ks_pos = End THEN 0 ELSE s.rx_ks_pos)
  PROVE  ReadInto(s, c, t, ctr1, ks1, pos1)
<1>1. /\ Wrapper(t, Text) /\ Frame(s, t)
      /\ t.tx_gmac = s.tx_gmac /\ t.tx_ks_pos = s.tx_ks_pos
      /\ t.rx_ks = ks1 /\ t.ctr = ctr1 /\ t.rx_ks_pos = pos1 + 1
      /\ t.rx_gmac = Buffered(s.rx_gmac, c)
      /\ t.hash = s.hash \o Absorbed(s.rx_gmac, c)
      /\ t.payload_len = s.payload_len + 1
      /\ TookByte(s, c, t)
  <2>1. /\ Wrapper(t, Text) /\ Frame(s, t) /\ TookByte(s, c, t)
        /\ t.tx_gmac = s.tx_gmac /\ t.tx_ks_pos = s.tx_ks_pos
        /\ t.rx_gmac = Buffered(s.rx_gmac, c)
        /\ t.hash = s.hash \o Absorbed(s.rx_gmac, c)
        /\ t.payload_len = s.payload_len + 1
    BY LoadedByte
  <2>2. t.rx_ks = ks1 /\ t.ctr = ctr1 /\ t.rx_ks_pos = pos1 + 1
    BY LoadedByte
  <2> QED BY <2>1, <2>2
<1> QED BY <1>1 DEF ReadInto, TookByte, Joint

LEMMA ReadOne ==
  ASSUME NEW s, NEW ct, NEW i, Reads(s, ct, i), NEW c \in Byte, c = ct[s.payload_len + 1],
         c.pt[1] <= i, NEW t, t = fuse_inline_dec_8(s, c)
  PROVE  Reads(t, ct, i) /\ Frame(s, t) /\ t.payload_len = s.payload_len + 1
<1>w. Reader(s) /\ Seen(s, i) /\ Wrapper(s, Text)
  BY DEF Reads, Reader
<1>x. Wrapper(s, Text)
  BY <1>w
<1>p. PICK ctr1, ks1, pos1 :
        /\ ks1 = (IF s.rx_ks_pos = End THEN <<s.iv, s.ctr>> ELSE s.rx_ks)
        /\ ctr1 = (IF s.rx_ks_pos = End THEN s.ctr + Wide ELSE s.ctr)
        /\ pos1 = (IF s.rx_ks_pos = End THEN 0 ELSE s.rx_ks_pos)
  OBVIOUS
<1>1. /\ Wrapper(t, Text) /\ Frame(s, t)
      /\ t.tx_gmac = s.tx_gmac /\ t.tx_ks_pos = s.tx_ks_pos
      /\ t.rx_ks = ks1 /\ t.ctr = ctr1 /\ t.rx_ks_pos = pos1 + 1
      /\ t.rx_gmac = Buffered(s.rx_gmac, c)
      /\ t.hash = Joint(s.hash, Absorbed(s.rx_gmac, c))
      /\ t.payload_len = s.payload_len + 1
      /\ t.out = Append(s.out, Opened(c, KsByte(ks1[1], ks1[2], pos1)))
  <2>1. ReadInto(s, c, t, ctr1, ks1, pos1)
    BY <1>p, <1>x, ReadByte
  <2> QED BY <2>1, Zenon DEF ReadInto
<1>2. t.hash = Joint(s.hash, Absorbed(s.rx_gmac, c)) /\ t.iv = s.iv
  BY <1>1 DEF Frame
<1>3. t.out = Append(s.out, Opened(c, KsByte(ks1[1], ks1[2], pos1)))
  BY <1>1
<1>4. Reader(t) /\ Seen(t, i)
  BY <1>1, <1>p, <1>w, ReaderStore
<1>5. CASE Foreign(s)
  <2>1. Foreign(t)
    BY <1>1, <1>2, <1>5, <1>w, ForeignStore
  <2> QED BY <1>1, <1>4, <2>1 DEF Reads
<1>6. CASE \E b : RxBook(b, s, ct)
  <2>b. PICK b : RxBook(b, s, ct)
    BY <1>6
  <2>f. PICK iv, n, hash, ctr, ks, pos, gmac, old, out :
          /\ iv = s.iv /\ n = s.payload_len /\ hash = s.hash /\ ctr = s.ctr /\ ks = s.rx_ks
          /\ pos = s.rx_ks_pos /\ gmac = s.rx_gmac /\ old = s.out /\ out = t.out
    OBVIOUS
  <2>1. /\ n \in Nat /\ ctr \in Nat /\ hash \in Seq(Piece) /\ gmac \in Seq(Byte) /\ old \in Seq(Text)
        /\ ct[n + 1] \in Byte /\ ct[n + 1] = c
    BY <1>w, <2>f DEF Wrapper, Buffers
  <2>2. /\ Keeps(b, n, iv, hash, ctr, ks, pos, gmac, ct) /\ Len(old) = n
        /\ \A j \in 1..n : OpenedByte(b, iv, ct, old, j)
    BY <2>b, <2>f DEF RxBook
  <2>3. Refilled(iv, ctr, ks, pos, ctr1, ks1, pos1)
    BY <1>p, <2>f DEF Refilled
  <2>4. \E e : Enters(e, b, n, iv, hash, ctr1, ks1, pos1, gmac, ct)
    BY <2>1, <2>2, <2>3, KeepsStore
  <2>e. PICK e : Enters(e, b, n, iv, hash, ctr1, ks1, pos1, gmac, ct)
    BY <2>4
  <2>5. /\ Keeps(e, n + 1, iv, Joint(hash, Absorbed(gmac, c)), ctr1, ks1, pos1 + 1,
                 Buffered(gmac, c), ct)
        /\ Wrote(b, e, n)
        /\ KsByte(ks1[1], ks1[2], pos1) = <<iv, e.k[n + 1], e.o[n + 1]>>
    BY <2>1, <2>e DEF Enters
  <2>o. PICK x : x = Opened(c, KsByte(ks1[1], ks1[2], pos1))
    OBVIOUS
  <2>6. /\ out = Append(old, x) /\ x \in Text
    <3>1. out = Append(old, x)
      BY <1>3, <2>f, <2>o
    <3>2. x \in Text
      BY <2>o DEF Opened, Garbage, Byte, Text
    <3> QED BY <3>1, <3>2
  <2>7. Len(out) = n + 1 /\ out[n + 1] = x /\ \A j \in 1..n : out[j] = old[j]
    BY <2>1, <2>2, <2>6, AppendProperties
  <2>8. ASSUME NEW j \in 1..n + 1 PROVE OpenedByte(e, iv, ct, out, j)
    <3>1. CASE j = n + 1
      BY <2>1, <2>5, <2>7, <2>o, <3>1 DEF OpenedByte
    <3>2. CASE j \in 1..n
      <4>1. OpenedByte(b, iv, ct, old, j)
        BY <2>2, <3>2
      <4>2. out[j] = old[j] /\ e.k[j] = b.k[j] /\ e.o[j] = b.o[j]
        BY <2>5, <2>7, <3>2 DEF Wrote
      <4> QED BY <4>1, <4>2 DEF OpenedByte
    <3> QED BY <2>1, <3>1, <3>2
  <2>9. /\ t.payload_len = n + 1 /\ t.iv = iv /\ t.hash = Joint(hash, Absorbed(gmac, c))
        /\ t.ctr = ctr1 /\ t.rx_ks = ks1 /\ t.rx_ks_pos = pos1 + 1
        /\ t.rx_gmac = Buffered(gmac, c) /\ t.out = out
    BY <1>1, <1>2, <2>f
  <2>10. RxBook(e, t, ct)
    BY <2>5, <2>7, <2>8, <2>9 DEF RxBook
  <2> QED BY <1>1, <1>4, <2>10 DEF Reads
<1> QED BY <1>5, <1>6 DEF Reads

\* The next byte of a text, of one of the messages up to the i-th.
IsNext(c, ct, x, i) == c \in Byte /\ c = ct[x] /\ c.pt[1] <= i

\* Stores of two, four and eight bytes read.
LEMMA ReadTwo ==
  ASSUME NEW s, NEW ct, NEW i, Reads(s, ct, i), NEW c, NEW d, NEW n, n = s.payload_len,
         IsNext(c, ct, n + 1, i), IsNext(d, ct, n + 2, i),
         NEW t, t = fuse_inline_dec_8(fuse_inline_dec_8(s, c), d)
  PROVE  Reads(t, ct, i) /\ Frame(s, t) /\ t.payload_len = n + 2
<1>u. PICK u : u = fuse_inline_dec_8(s, c)
  OBVIOUS
<1>1. Reads(u, ct, i) /\ Frame(s, u) /\ u.payload_len = n + 1
  BY <1>u, ReadOne DEF IsNext
<1>2. n \in Nat
  BY DEF Reads, Reader, Wrapper
<1>3. n + 1 + 1 = n + 2
  BY <1>2
<1>4. /\ d \in Byte /\ d = ct[u.payload_len + 1] /\ d.pt[1] <= i
      /\ t = fuse_inline_dec_8(u, d)
  BY <1>1, <1>3, <1>u DEF IsNext
<1>5. Reads(t, ct, i) /\ Frame(u, t) /\ t.payload_len = u.payload_len + 1
  BY <1>1, <1>4, ReadOne
<1> QED BY <1>1, <1>3, <1>5 DEF Frame

LEMMA ReadFour ==
  ASSUME NEW s, NEW ct, NEW i, Reads(s, ct, i), NEW cs, NEW n, n = s.payload_len,
         \A q \in 1..4 : IsNext(cs[q], ct, n + q, i),
         NEW t, t = fuse_inline_dec_32(s, cs)
  PROVE  Reads(t, ct, i) /\ Frame(s, t) /\ t.payload_len = n + 4
<1>u. PICK u : u = fuse_inline_dec_8(fuse_inline_dec_8(s, cs[1]), cs[2])
  OBVIOUS
<1>m. PICK m : m = n + 2
  OBVIOUS
<1>2. n \in Nat
  BY DEF Reads, Reader, Wrapper
<1>3. m + 1 = n + 3 /\ m + 2 = n + 4
  BY <1>2, <1>m
<1>4. /\ IsNext(cs[1], ct, n + 1, i) /\ IsNext(cs[2], ct, n + 2, i)
      /\ IsNext(cs[3], ct, n + 3, i) /\ IsNext(cs[4], ct, n + 4, i)
  OBVIOUS
<1>1. Reads(u, ct, i) /\ Frame(s, u) /\ u.payload_len = m
  BY <1>4, <1>m, <1>u, ReadTwo
<1>5. /\ IsNext(cs[3], ct, m + 1, i) /\ IsNext(cs[4], ct, m + 2, i)
      /\ t = fuse_inline_dec_8(fuse_inline_dec_8(u, cs[3]), cs[4])
  BY <1>3, <1>4, <1>u DEF fuse_inline_dec_32, fuse_inline_dec_16
<1>6. Reads(t, ct, i) /\ Frame(u, t) /\ t.payload_len = m + 2
  BY <1>1, <1>5, ReadTwo
<1> QED BY <1>1, <1>3, <1>6 DEF Frame

\* A store of any width, read.
LEMMA ReadStored ==
  ASSUME NEW s, NEW ct, NEW i, Reads(s, ct, i), NEW cs \in Seq(Byte), Len(cs) \in {1, 2, 4, 8},
         NEW n, n = s.payload_len, \A q \in 1..Len(cs) : IsNext(cs[q], ct, n + q, i),
         NEW t, t = Dec(s, cs)
  PROVE  Reads(t, ct, i) /\ Frame(s, t)
<1>1. CASE Len(cs) = 1
  <2>1. t = fuse_inline_dec_8(s, cs[1]) /\ 1 \in 1..Len(cs)
    BY <1>1, DecOf
  <2>2. IsNext(cs[1], ct, n + 1, i)
    BY <2>1
  <2> QED BY <2>1, <2>2, ReadOne DEF IsNext
<1>2. CASE Len(cs) = 2
  <2>1. t = fuse_inline_dec_8(fuse_inline_dec_8(s, cs[1]), cs[2]) /\ 1 \in 1..Len(cs) /\ 2 \in 1..Len(cs)
    BY <1>2, DecOf
  <2>2. IsNext(cs[1], ct, n + 1, i) /\ IsNext(cs[2], ct, n + 2, i)
    BY <2>1
  <2> QED BY <2>1, <2>2, ReadTwo
<1>3. CASE Len(cs) = 4
  <2>1. t = fuse_inline_dec_32(s, cs) /\ \A q \in 1..4 : q \in 1..Len(cs)
    BY <1>3, DecOf
  <2>2. \A q \in 1..4 : IsNext(cs[q], ct, n + q, i)
    BY <2>1
  <2> QED BY <2>1, <2>2, ReadFour
<1>4. CASE Len(cs) = 8
  <2>u. PICK u, bs, m : u = fuse_inline_dec_32(s, cs) /\ bs = SubSeq(cs, 5, 8) /\ m = n + 4
    OBVIOUS
  <2>n. n \in Nat
    BY DEF Reads, Reader, Wrapper
  <2>1. t = fuse_inline_dec_32(u, bs)
    BY <1>4, <2>u, DecOf
  <2>2. \A q \in 1..4 : q \in 1..Len(cs) /\ 4 + q \in 1..Len(cs)
    BY <1>4
  <2>3. \A q \in 1..4 : IsNext(cs[q], ct, n + q, i)
    BY <2>2
  <2>4. Reads(u, ct, i) /\ Frame(s, u) /\ u.payload_len = m
    BY <2>3, <2>u, ReadFour
  <2>5. \A q \in 1..4 : bs[q] = cs[4 + q]
    <3>1. \A q \in 1..Len(cs) : cs[q] \in Byte
      BY ElementOfSeq
    <3> QED BY <1>4, <2>u, <3>1, SubSeqProperties
  <2>6. ASSUME NEW q \in 1..4 PROVE IsNext(bs[q], ct, m + q, i)
    <3>x. PICK x, y, c : x = n + (4 + q) /\ y = m + q /\ c = cs[4 + q]
      OBVIOUS
    <3>1. IsNext(c, ct, x, i)
      BY <2>2, <3>x
    <3>2. x = y
      BY <2>n, <2>u, <3>x
    <3>3. bs[q] = c
      BY <2>5, <3>x
    <3> QED BY <3>1, <3>2, <3>3, <3>x
  <2>7. Reads(t, ct, i) /\ Frame(u, t)
    BY <2>1, <2>4, <2>6, ReadFour
  <2> QED BY <2>4, <2>7 DEF Frame
<1> QED BY <1>1, <1>2, <1>3, <1>4

\* A copy, read.
LEMMA ReadCopied ==
  ASSUME NEW s, NEW ct, NEW i, Reads(s, ct, i), NEW cs \in Seq(Byte), NEW m \in Nat, Len(cs) = m,
         NEW n, n = s.payload_len, \A q \in 1..m : IsNext(cs[q], ct, n + q, i),
         NEW t, t = fuse_inline_dec_memcpy(s, cs)
  PROVE  Reads(t, ct, i) /\ t.on = s.on /\ t.iv = s.iv
<1>w. Reader(s) /\ Seen(s, i) /\ Wrapper(s, Text) /\ s.tx_gmac = << >> /\ s.tx_ks_pos = End
  BY DEF Reads, Reader
<1>0. DecryptedInto(s, cs, t)
  BY <1>w, WholeCopy
<1>1. /\ Wrapper(t, Text) /\ t.on = s.on /\ t.iv = s.iv
      /\ t.tx_gmac = s.tx_gmac /\ t.tx_ks_pos = s.tx_ks_pos
      /\ t.rx_gmac = s.rx_gmac /\ t.rx_ks_pos = s.rx_ks_pos /\ t.rx_ks = s.rx_ks
      /\ t.hash = s.hash \o Chunks(cs) /\ t.ctr = s.ctr + Blocks(Len(cs))
      /\ t.payload_len = s.payload_len + Len(cs)
      /\ TookCopy(s, cs, t)
  BY <1>0 DEF DecryptedInto
<1>2. t.hash = Joint(s.hash, Chunks(cs)) /\ Chunks(cs) \in Seq(Piece)
  BY <1>1, ChunksType DEF Joint
<1>3. Reader(t) /\ Seen(t, i)
  BY <1>1, <1>w DEF Reader, Seen
<1>4. CASE Foreign(s)
  <2>1. Foreign(t)
    BY <1>1, <1>2, <1>4, <1>w, ForeignInsert
  <2> QED BY <1>1, <1>3, <2>1 DEF Reads
<1>5. CASE \E b : RxBook(b, s, ct)
  <2>b. PICK b : RxBook(b, s, ct)
    BY <1>5
  <2>f. PICK iv, hash, ctr, ks, pos, gmac, old, out, ps :
          /\ iv = s.iv /\ hash = s.hash /\ ctr = s.ctr /\ ks = s.rx_ks
          /\ pos = s.rx_ks_pos /\ gmac = s.rx_gmac /\ old = s.out /\ out = t.out
          /\ ps = [q \in DOMAIN cs |-> Opened(cs[q], KsByte(s.iv, s.ctr, q - 1))]
    OBVIOUS
  <2>1. /\ n \in Nat /\ ctr \in Nat /\ hash \in Seq(Piece) /\ gmac \in Seq(Byte) /\ old \in Seq(Text)
    BY <1>w, <2>f DEF Wrapper, Buffers
  <2>2. /\ Keeps(b, n, iv, hash, ctr, ks, pos, gmac, ct) /\ Len(old) = n
        /\ \A j \in 1..n : OpenedByte(b, iv, ct, old, j)
    BY <2>b, <2>f DEF RxBook
  <2>3. \E e : Inserts(e, b, n, m, iv, hash, ctr, ks, pos, gmac, cs, ct)
    <3>1. /\ m <= Len(cs) /\ \A q \in 1..Len(cs) : OfAad(iv, cs[q]) \/ q <= m
          /\ \A j \in 1..n : ct[j] = ct[j]
      OBVIOUS
    <3>2. \A q \in 1..m : ct[n + q] = cs[q]
      BY DEF IsNext
    <3> QED BY <2>1, <2>2, <3>1, <3>2, KeepsInsert
  <2>e. PICK e : Inserts(e, b, n, m, iv, hash, ctr, ks, pos, gmac, cs, ct)
    BY <2>3
  <2>4. /\ Keeps(e, n + m, iv, Joint(hash, Chunks(cs)), ctr + Blocks(m), ks, pos, gmac, ct)
        /\ Wrote(b, e, n)
        /\ \A q \in 1..m : <<iv, e.k[n + q], e.o[n + q]>> = KsByte(iv, ctr, q - 1)
    BY <2>e DEF Inserts
  <2>5. /\ DOMAIN cs = 1..m /\ \A q \in 1..m : cs[q] \in Byte
    BY LenProperties DEF IsNext
  <2>6. ps = [q \in 1..m |-> Opened(cs[q], KsByte(iv, ctr, q - 1))]
    BY <2>5, <2>f
  <2>7. /\ ps \in Seq(Text) /\ Len(ps) = m
        /\ \A q \in 1..m : ps[q] = Opened(cs[q], KsByte(iv, ctr, q - 1))
    <3>1. \A q \in 1..m : Opened(cs[q], KsByte(iv, ctr, q - 1)) \in Text
      BY <2>5 DEF Opened, Garbage, Byte, Text
    <3>2. ps \in [1..m -> Text]
      BY <2>6, <3>1
    <3>3. ps \in Seq(Text)
      BY <3>2, SeqDef
    <3>4. Len(ps) = m
      BY <2>6, <3>3, LenProperties
    <3> QED BY <2>6, <3>3, <3>4
  <2>8. out = old \o ps
    BY <1>1, <2>f DEF TookCopy
  <2>9. Len(out) = n + m /\ (\A j \in 1..n : out[j] = old[j]) /\ \A q \in 1..m : out[n + q] = ps[q]
    <3>1. JoinOf(out, old, n, ps, m)
      BY <2>1, <2>2, <2>7, <2>8, JoinedTexts
    <3> QED BY <3>1 DEF JoinOf
  <2>10. ASSUME NEW j \in 1..n + m PROVE OpenedByte(e, iv, ct, out, j)
    <3>1. CASE j \in 1..n
      <4>1. OpenedByte(b, iv, ct, old, j)
        BY <2>2, <3>1
      <4>2. out[j] = old[j] /\ e.k[j] = b.k[j] /\ e.o[j] = b.o[j]
        BY <2>4, <2>9, <3>1 DEF Wrote
      <4> QED BY <4>1, <4>2 DEF OpenedByte
    <3>2. CASE j > n
      <4>q. PICK q : q = j - n
        OBVIOUS
      <4>1. q \in 1..m /\ j = n + q
        BY <2>1, <3>2, <4>q
      <4>2. ct[n + q] = cs[q]
        BY <4>1 DEF IsNext
      <4>3. out[n + q] = Opened(cs[q], <<iv, e.k[n + q], e.o[n + q]>>)
        BY <2>4, <2>7, <2>9, <4>1
      <4> QED BY <4>1, <4>2, <4>3 DEF OpenedByte
    <3> QED BY <2>1, <3>1, <3>2
  <2>11. /\ t.payload_len = n + m /\ t.iv = iv /\ t.hash = Joint(hash, Chunks(cs))
         /\ t.ctr = ctr + Blocks(m) /\ t.rx_ks = ks /\ t.rx_ks_pos = pos
         /\ t.rx_gmac = gmac /\ t.out = out
    BY <1>1, <1>2, <2>f
  <2>12. RxBook(e, t, ct)
    BY <2>4, <2>9, <2>10, <2>11 DEF RxBook
  <2> QED BY <1>1, <1>3, <2>12 DEF Reads
<1> QED BY <1>4, <1>5 DEF Reads

\* The additional data, read.
LEMMA ReadAad ==
  ASSUME NEW s, NEW ct, NEW i, Reads(s, ct, i), NEW m \in Nat, NEW from \in Nat,
         NEW t, t = fuse_update_enc(s, Aad(s.iv, from, m))
  PROVE  Reads(t, ct, i) /\ t.on = s.on /\ t.iv = s.iv
<1>w. Reader(s) /\ Seen(s, i) /\ Wrapper(s, Text)
  BY DEF Reads, Reader
<1>n. PICK iv, n, ctr, hash, gmac, ks, pos, bytes :
        /\ iv = s.iv /\ n = s.payload_len /\ ctr = s.ctr /\ hash = s.hash
        /\ gmac = s.rx_gmac /\ ks = s.rx_ks /\ pos = s.rx_ks_pos
        /\ bytes = Aad(s.iv, from, m)
  OBVIOUS
<1>1. iv \in Nat /\ n \in Nat /\ ctr \in Nat /\ hash \in Seq(Piece) /\ gmac \in Seq(Byte)
  BY <1>n, <1>w DEF Wrapper, Buffers
<1>2. bytes \in Seq(Byte) /\ Len(bytes) = m
  BY <1>1, <1>n, AadBytes
<1>3. \A q \in 1..m : OfAad(iv, bytes[q])
  BY <1>n DEF Aad, OfAad
<1>4. /\ Wrapper(t, Text) /\ t.hash = s.hash \o Chunks(bytes) /\ t.iv = s.iv /\ t.ctr = s.ctr
      /\ t.out = s.out /\ t.payload_len = s.payload_len /\ t.on = s.on
      /\ t.tx_ks_pos = s.tx_ks_pos /\ t.tx_gmac = s.tx_gmac
      /\ t.rx_ks = s.rx_ks /\ t.rx_ks_pos = s.rx_ks_pos /\ t.rx_gmac = s.rx_gmac
  <2>0. Wrapper(s, Text) /\ bytes \in Seq(Byte)
    BY <1>2, <1>w
  <2>1. t = fuse_update_enc(s, bytes)
    BY <1>n
  <2>2. PICK v : /\ v = fuse_update_enc(s, bytes) /\ Wrapper(v, Text)
                /\ v.hash = s.hash \o Chunks(bytes) /\ v.iv = s.iv /\ v.ctr = s.ctr
                /\ v.out = s.out /\ v.payload_len = s.payload_len /\ v.on = s.on
                /\ v.tx_ks_pos = s.tx_ks_pos /\ v.tx_gmac = s.tx_gmac
                /\ v.rx_ks = s.rx_ks /\ v.rx_ks_pos = s.rx_ks_pos /\ v.rx_gmac = s.rx_gmac
    BY <2>0, AadType
  <2>3. t = v
    BY <2>1, <2>2
  <2> QED BY <2>2, <2>3
<1>5. Reader(t) /\ Seen(t, i)
  BY <1>4, <1>w DEF Reader, Seen
<1>6. t.hash = Joint(s.hash, Chunks(bytes)) /\ Chunks(bytes) \in Seq(Piece)
  BY <1>2, <1>4, ChunksType DEF Joint
<1>7. CASE Foreign(s)
  <2>1. Foreign(t)
    BY <1>4, <1>6, <1>7, <1>w, ForeignInsert
  <2> QED BY <1>4, <1>5, <2>1 DEF Reads
<1>8. CASE \E b : RxBook(b, s, ct)
  <2>b. PICK b : RxBook(b, s, ct)
    BY <1>8
  <2>1. /\ Keeps(b, n, iv, hash, ctr, ks, pos, gmac, ct) /\ Len(s.out) = n
        /\ \A j \in 1..n : OpenedByte(b, iv, ct, s.out, j)
    BY <1>n, <2>b DEF RxBook
  <2>z. PICK z \in Nat : z = 0
    OBVIOUS
  <2>2. \E e : Inserts(e, b, n, z, iv, hash, ctr, ks, pos, gmac, bytes, ct)
    <3>1. /\ z <= Len(bytes) /\ \A q \in 1..Len(bytes) : OfAad(iv, bytes[q]) \/ q <= z
          /\ \A q \in 1..z : ct[n + q] = bytes[q]
          /\ \A j \in 1..n : ct[j] = ct[j]
      BY <1>2, <1>3, <2>z
    <3> QED BY <1>1, <1>2, <2>1, <3>1, KeepsInsert
  <2>e. PICK e : Inserts(e, b, n, z, iv, hash, ctr, ks, pos, gmac, bytes, ct)
    BY <2>2
  <2>3. /\ Keeps(e, n + z, iv, Joint(hash, Chunks(bytes)), ctr + Blocks(z), ks, pos, gmac, ct)
        /\ Wrote(b, e, n)
    BY <2>e DEF Inserts
  <2>4. n + z = n /\ ctr + Blocks(z) = ctr
    <3>1. Blocks(0) = 0
      BY <2>z, BlocksOfWhole
    <3> QED BY <1>1, <2>z, <3>1
  <2>5. \A j \in 1..n : OpenedByte(e, iv, ct, s.out, j)
    BY <2>1, <2>3 DEF Wrote, OpenedByte
  <2>6. RxBook(e, t, ct)
    BY <1>4, <1>6, <1>n, <2>1, <2>3, <2>4, <2>5 DEF RxBook
  <2> QED BY <1>4, <1>5, <2>6 DEF Reads
<1> QED BY <1>7, <1>8 DEF Reads

\* A message begins with an empty book, unless bytes of an earlier one wait.
LEMMA ReadBegins ==
  ASSUME NEW s, Reader(s), NEW ct, NEW iv \in Nat, NEW i \in Nat, Seen(s, i), i < iv,
         NEW t, t = fuse_init(s, iv)
  PROVE  Reads(t, ct, iv) /\ t.on /\ t.iv = iv
<1>w. Wrapper(s, Text)
  BY DEF Reader
<1>0. Wrapper(t, Text) /\ t.iv = iv /\ t.on
  BY <1>w, InitType
<1>1. t.ctr = 2 /\ t.hash = << >>
  BY <1>w, InitType
<1>2. t.out = << >> /\ t.payload_len = 0
  BY <1>w, InitType
<1>3. t.tx_ks_pos = End
  BY <1>w, InitType
<1>4. t.tx_gmac = << >>
  BY <1>w, InitType
<1>5. t.rx_ks_pos = s.rx_ks_pos /\ t.rx_gmac = s.rx_gmac
  BY <1>w, InitType
<1>6. Reader(t)
  BY <1>0, <1>3, <1>4, <1>5 DEF Reader
<1>g. PICK gmac : gmac = s.rx_gmac
  OBVIOUS
<1>7. gmac \in Seq(Byte) /\ Len(gmac) \in Nat /\ \A x \in 1..Len(gmac) : gmac[x] \in Byte
  BY <1>g, <1>w, ElementOfSeq, LenProperties DEF Wrapper, Buffers
<1>8. \A x \in 1..Len(gmac) : gmac[x].pt[1] \in Nat /\ gmac[x].pt[1] <= i
  BY <1>7, <1>g DEF Seen, Byte
<1>9. Seen(t, iv)
  <2>1. \A x \in 1..Len(gmac) : gmac[x].pt[1] <= iv
    BY <1>8
  <2> QED BY <1>5, <1>g, <2>1 DEF Seen
<1>10. CASE Len(gmac) = 0
  <2>1. gmac = << >> /\ t.rx_ks_pos = End
    BY <1>5, <1>7, <1>10, <1>g, EmptySeq DEF Reader
  <2>2. PICK b : Keeps(b, 0, iv, << >>, 2, t.rx_ks, End, << >>, ct)
    BY KeepsBegins
  <2>3. Len(<< >>) = 0 /\ \A j \in 1..0 : OpenedByte(b, iv, ct, << >>, j)
    OBVIOUS
  <2>4. RxBook(b, t, ct)
    BY <1>0, <1>1, <1>2, <1>5, <1>g, <2>1, <2>2, <2>3 DEF RxBook
  <2> QED BY <1>0, <1>6, <1>9, <2>4 DEF Reads
<1>11. CASE Len(gmac) # 0
  <2>p. PICK p, x, r : p = 0 /\ x = (p \div Block) + 1 /\ r = (p % Block) + 1
    OBVIOUS
  <2>1. p \in 0..Len(gmac) - 1 /\ p + 1 = 1 /\ 1 \in 1..Len(gmac)
    BY <1>7, <1>11, <2>p
  <2>2. Cell(Chunks(gmac), x, r) /\ Chunks(gmac)[x][r] = gmac[1]
    BY <1>7, <2>1, <2>p, ByteInChunk
  <2>3. Hashed(t) = Chunks(gmac)
    <3>1. Chunks(gmac) \in Seq(Piece)
      BY <1>7, ChunksType
    <3> QED BY <1>1, <1>5, <1>g, <3>1, ConcatEmptySeq DEF Hashed, Joint
  <2>4. gmac[1].pt[1] # iv
    BY <1>8, <2>1
  <2>5. Foreign(t)
    BY <1>0, <2>2, <2>3, <2>4 DEF Foreign
  <2> QED BY <1>0, <1>6, <1>9, <2>5 DEF Reads
<1> QED BY <1>10, <1>11

-----------------------------------------------------------------------------
(* The receiver's steps, and its book.                                     *)

\* The bytes that wait at a receiver are of the messages it has opened, or of
\* the one it is on; of that one it has a book, unless a byte of another is
\* among what it has hashed.
IReader ==
    /\ Reader(rx)
    /\ ~rx.on => Seen(rx, Len(got))
    /\ rx.on => rx.iv = Len(got) + 1 /\ Reads(rx, Incoming.ct, Len(got) + 1)

\* Every byte of a message is of its IV.
LEMMA OwnBytes ==
  ASSUME NEW m, Booked(m), NEW j \in 1..Len(m.ct)
  PROVE  m.ct[j].pt = <<m.iv, j>> /\ m.ct[j].ks[1] = m.iv
<1>b. PICK b : MailBook(b, m)
  BY DEF Booked
<1>1. KeyedByte(b, m.iv, m.ct, j)
  BY <1>b DEF MailBook, Keyed
<1>c. PICK c, iv, k, o : c = m.ct[j] /\ iv = m.iv /\ k = b.k[j] /\ o = b.o[j]
  OBVIOUS
<1>2. c = [pt |-> <<iv, j>>, ks |-> <<iv, k, o>>]
  BY <1>1, <1>c DEF KeyedByte
<1>3. c.pt = <<iv, j>> /\ c.ks[1] = iv
  BY <1>2
<1> QED BY <1>3, <1>c

\* A byte of a window is a byte of the text.
LEMMA ByteOfWindow ==
  ASSUME NEW ct \in Seq(Byte), NEW n \in Nat, NEW k \in Nat, n + k <= Len(ct),
         NEW cs, cs = SubSeq(ct, n + 1, n + k), NEW q \in 1..k
  PROVE  n + q \in 1..Len(ct) /\ cs[q] = ct[n + q] /\ cs[q] \in Byte
<1>v. PICK v : v = n + k
  OBVIOUS
<1>1. v \in Nat /\ n <= v /\ v <= Len(ct) /\ q \in 1..v - n /\ cs = SubSeq(ct, n + 1, v)
  BY <1>v
<1>2. \A p \in 1..v - n : SubSeq(ct, n + 1, v)[p] = ct[n + p]
  BY <1>1, Window
<1>3. cs[q] = ct[n + q]
  BY <1>1, <1>2
<1>4. n + q \in 1..Len(ct)
  BY LenProperties
<1> QED BY <1>3, <1>4, ElementOfSeq

\* The next bytes of the message that is read.
LEMMA BytesRead ==
  ASSUME IStream, IBooked, rx.on, NEW k \in Nat, k <= Left,
         NEW cs, cs = NextBytes(k), NEW n, n = rx.payload_len
  PROVE  /\ cs \in Seq(Byte) /\ Len(cs) = k
         /\ \A q \in 1..k : IsNext(cs[q], Incoming.ct, n + q, Len(got) + 1)
<1>1. cs \in Seq(Byte) /\ Len(cs) = k
  BY BytesTaken
<1>2. /\ IWire /\ IReceiver /\ Len(got) < Len(wire) /\ n \in Nat
      /\ Len(got) + 1 \in 1..Len(wire)
  BY LenProperties DEF IStream, IReceiver, IWire, Wrapper
<1>m. PICK m, ct, i : m = Incoming /\ ct = Incoming.ct /\ i = Len(got) + 1
  OBVIOUS
<1>3. m.iv = i /\ Booked(m) /\ m.ct = ct
  BY <1>2, <1>m DEF IBooked, Incoming
<1>4. i \in Nat
  BY <1>2, <1>m
<1>5. ct \in Seq(Byte) /\ Len(ct) \in Nat
  BY <1>2, <1>m, Arrived, LenProperties
<1>6. n + k <= Len(ct)
  BY <1>2, <1>5, <1>m DEF Left
<1>7. cs = SubSeq(ct, n + 1, n + k)
  BY <1>m DEF NextBytes
<1>8. ASSUME NEW q \in 1..k PROVE IsNext(cs[q], ct, n + q, i)
  <2>1. n + q \in 1..Len(ct) /\ cs[q] = ct[n + q] /\ cs[q] \in Byte
    <3>1. ct \in Seq(Byte) /\ n \in Nat /\ n + k <= Len(ct)
      BY <1>2, <1>5, <1>6
    <3> QED BY <3>1, <1>7, ByteOfWindow
  <2>5. ct[n + q].pt = <<i, n + q>>
    BY <1>3, <2>1, OwnBytes
  <2>6. cs[q].pt[1] = i
    BY <2>1, <2>5
  <2> QED BY <1>4, <2>1, <2>6 DEF IsNext
<1> QED BY <1>1, <1>8, <1>m

LEMMA TakingBegins ==
  ASSUME IStream, IBooked, IReader, RxInit
  PROVE  IReader'
<1>0. /\ ~rx.on /\ Len(got) < Len(wire) /\ UNCHANGED <<wire, got>>
      /\ rx' = fuse_init(rx, Incoming.iv) /\ Reader(rx) /\ Seen(rx, Len(got))
  BY DEF RxInit, IReader
<1>1. Len(got) + 1 \in 1..Len(wire) /\ Len(got) \in Nat
  BY <1>0, LenProperties DEF IStream, IReceiver, IWire
<1>2. Incoming.iv = Len(got) + 1 /\ Incoming' = Incoming
  BY <1>0, <1>1 DEF IBooked, Incoming
<1>i. PICK i, iv, ct : i = Len(got) /\ iv = Len(got) + 1 /\ ct = Incoming.ct
  OBVIOUS
<1>3. i \in Nat /\ iv \in Nat /\ i < iv /\ Seen(rx, i) /\ rx' = fuse_init(rx, iv)
  BY <1>0, <1>1, <1>2, <1>i
<1>4. Reads(rx', ct, iv) /\ rx'.on /\ rx'.iv = iv
  BY <1>0, <1>3, ReadBegins
<1>5. Reader(rx')
  BY <1>4 DEF Reads
<1> QED BY <1>0, <1>2, <1>4, <1>5, <1>i DEF IReader

LEMMA TakingAad ==
  ASSUME IStream, IBooked, IReader, RxAad
  PROVE  IReader'
<1>0. /\ rx.on /\ UNCHANGED <<wire, got>> /\ Len(got) < Len(wire)
      /\ rx' = fuse_update_enc(rx, Aad(rx.iv, 0, Incoming.aad_len))
      /\ rx.iv = Len(got) + 1 /\ Reads(rx, Incoming.ct, Len(got) + 1)
  BY DEF RxAad, IReader, fuse_update_dec, IStream, IReceiver
<1>1. Incoming.aad_len \in Nat /\ Incoming' = Incoming
  BY <1>0, Arrived DEF IStream, Incoming
<1>i. PICK i, m, ct, o : i = Len(got) + 1 /\ m = Incoming.aad_len /\ ct = Incoming.ct /\ o = 0
  OBVIOUS
<1>2. m \in Nat /\ o \in Nat /\ rx' = fuse_update_enc(rx, Aad(rx.iv, o, m)) /\ Reads(rx, ct, i)
  BY <1>0, <1>1, <1>i
<1>3. Reads(rx', ct, i) /\ rx'.on = rx.on /\ rx'.iv = rx.iv
  BY <1>2, ReadAad
<1>4. Reader(rx')
  BY <1>3 DEF Reads
<1> QED BY <1>0, <1>1, <1>3, <1>4, <1>i DEF IReader

LEMMA TakingStore ==
  ASSUME IStream, IBooked, IReader, NEW w \in Widths, RxStore(w)
  PROVE  IReader'
<1>w. w \in {1, 2, 4, 8} /\ w \in Nat
  BY StreamAssumption
<1>0. /\ rx.on /\ UNCHANGED <<wire, got>> /\ w <= Left
      /\ rx' = Dec(rx, NextBytes(w))
      /\ rx.iv = Len(got) + 1 /\ Reads(rx, Incoming.ct, Len(got) + 1)
  BY DEF RxStore, IReader
<1>1. Incoming' = Incoming
  BY <1>0 DEF Incoming
<1>i. PICK i, cs, ct, n : i = Len(got) + 1 /\ cs = NextBytes(w) /\ ct = Incoming.ct /\ n = rx.payload_len
  OBVIOUS
<1>2. cs \in Seq(Byte) /\ Len(cs) = w /\ \A q \in 1..w : IsNext(cs[q], ct, n + q, i)
  BY <1>0, <1>i, <1>w, BytesRead
<1>3. Reads(rx, ct, i) /\ rx' = Dec(rx, cs) /\ Len(cs) \in {1, 2, 4, 8}
      /\ \A q \in 1..Len(cs) : IsNext(cs[q], ct, n + q, i)
  BY <1>0, <1>2, <1>i, <1>w
<1>4. Reads(rx', ct, i) /\ Frame(rx, rx')
  BY <1>2, <1>3, <1>i, ReadStored
<1>5. Reader(rx') /\ rx'.on = rx.on /\ rx'.iv = rx.iv
  BY <1>4 DEF Reads, Frame
<1> QED BY <1>0, <1>1, <1>4, <1>5, <1>i DEF IReader

LEMMA TakingCopy ==
  ASSUME IStream, IBooked, IReader, NEW k \in Copies, RxCopy(k)
  PROVE  IReader'
<1>k. k \in Nat
  BY StreamAssumption
<1>0. /\ rx.on /\ UNCHANGED <<wire, got>> /\ k <= Left
      /\ rx' = fuse_inline_dec_memcpy(rx, NextBytes(k))
      /\ rx.iv = Len(got) + 1 /\ Reads(rx, Incoming.ct, Len(got) + 1)
  BY DEF RxCopy, IReader
<1>1. Incoming' = Incoming
  BY <1>0 DEF Incoming
<1>i. PICK i, cs, ct, n : i = Len(got) + 1 /\ cs = NextBytes(k) /\ ct = Incoming.ct /\ n = rx.payload_len
  OBVIOUS
<1>2. cs \in Seq(Byte) /\ Len(cs) = k /\ \A q \in 1..k : IsNext(cs[q], ct, n + q, i)
  BY <1>0, <1>i, <1>k, BytesRead
<1>3. Reads(rx, ct, i) /\ rx' = fuse_inline_dec_memcpy(rx, cs)
  BY <1>0, <1>i
<1>4. Reads(rx', ct, i) /\ rx'.on = rx.on /\ rx'.iv = rx.iv
  BY <1>2, <1>3, <1>i, <1>k, ReadCopied
<1>5. Reader(rx')
  BY <1>4 DEF Reads
<1> QED BY <1>0, <1>1, <1>4, <1>5, <1>i DEF IReader

LEMMA TakingEnds ==
  ASSUME IStream, IReader, RxVerify
  PROVE  IReader'
<1>r. PICK r : r = [accepted |-> TagOf(rx, rx.rx_gmac) = Incoming.tag, text |-> rx.out,
                    ordered |-> rxCalls.ordered, stored |-> rxCalls.stored]
  OBVIOUS
<1>0. /\ Wrapper(rx, Text) /\ rx.on /\ got \in Seq(Outcome) /\ Len(got) \in Nat
      /\ rx.rx_gmac \in Seq(Byte) /\ rx' = Ended(rx, rx.rx_gmac) /\ got' = Append(got, r)
  BY <1>r, LenProperties
     DEF IStream, IReceiver, RxVerify, fuse_verify_dec, Ended, Wrapper, Buffers
<1>1. /\ Wrapper(rx', Text) /\ ~rx'.on
      /\ rx'.tx_ks_pos = rx.tx_ks_pos /\ rx'.tx_gmac = rx.tx_gmac
      /\ rx'.rx_ks_pos = rx.rx_ks_pos /\ rx'.rx_gmac = rx.rx_gmac
  BY <1>0, Closed
<1>2. Len(got') = Len(got) + 1
  <2>1. got \in Seq(Outcome \cup {r}) /\ r \in Outcome \cup {r}
    BY <1>0, SeqMonotonic
  <2> QED BY <1>0, <2>1, AppendProperties
<1>3. Reader(rx) /\ Seen(rx, Len(got) + 1)
  BY <1>0 DEF IReader, Reads
<1>4. Reader(rx')
  BY <1>1, <1>3 DEF Reader
<1>5. Seen(rx', Len(got'))
  BY <1>1, <1>2, <1>3 DEF Seen
<1> QED BY <1>1, <1>4, <1>5 DEF IReader

LEMMA TakingKept ==
  ASSUME IStream, IReader, [Next]_vars, UNCHANGED <<rx, got>>
  PROVE  IReader'
<1>1. rx.on => Incoming' = Incoming
  <2>1. rx.on => Len(got) + 1 \in 1..Len(wire)
    BY LenProperties DEF IStream, IWire, IReceiver
  <2> QED BY <2>1, WireGrows DEF Incoming
<1>2. rx' = rx /\ got' = got
  OBVIOUS
<1>3. CASE rx.on
  BY <1>1, <1>2, <1>3 DEF IReader
<1>4. CASE ~rx.on
  BY <1>2, <1>4 DEF IReader
<1> QED BY <1>3, <1>4

LEMMA ReaderNext == ASSUME IStream, IBooked, IReader, [Next]_vars PROVE IReader'
<1>1. CASE UNCHANGED <<rx, got>>
  BY <1>1, TakingKept
<1>2. CASE \/ RxInit \/ RxAad \/ RxVerify
           \/ \E w \in Widths : RxStore(w)
           \/ \E k \in Copies : RxCopy(k)
  BY <1>2, TakingBegins, TakingAad, TakingStore, TakingCopy, TakingEnds
<1> QED BY <1>1, <1>2 DEF Next, vars, TxInit, TxAad, TxStore, TxCopy, TxFinalize

-----------------------------------------------------------------------------
(* One tag, one text.                                                      *)

\* Two books of the same blocks hold each byte at the same place of them: the
\* bytes of a message are all different.
LEMMA SamePlaces ==
  ASSUME NEW n \in Nat, NEW iv \in Nat \ {0}, NEW b, NEW c, NEW V, NEW ct,
         Law(b, n), Filed(b, V, iv, ct, n), Keyed(b, n, iv, ct),
         Law(c, n), Filed(c, V, iv, ct, n)
  PROVE  b.at = c.at /\ b.o = c.o
<1>1. /\ b.at \in [1..n -> Nat] /\ b.o \in [1..n -> Nat]
      /\ c.at \in [1..n -> Nat] /\ c.o \in [1..n -> Nat]
  BY DEF Law, IsBook
<1>2. ASSUME NEW j \in 1..n PROVE b.at[j] = c.at[j] /\ b.o[j] = c.o[j]
  <2>x. PICK x, r, d, k, o : x = b.at[j] /\ r = b.o[j] + 1 /\ d = ct[j] /\ k = b.k[j] /\ o = b.o[j]
    OBVIOUS
  <2>1. Cell(V, x, r) /\ V[x][r] = d
    BY <2>x DEF Filed, Placed
  <2>2. d = [pt |-> <<iv, j>>, ks |-> <<iv, k, o>>]
    BY <2>x DEF Keyed, KeyedByte
  <2>3. d.pt = <<iv, j>> /\ d.ks = <<iv, k, o>>
    BY <2>2
  <2>4. d.ks # NoKey
    BY <2>3 DEF NoKey
  <2>5. PICK i \in 1..n : c.at[i] = x /\ c.o[i] + 1 = r /\ V[x][r] = ct[i]
    BY <2>1, <2>4 DEF Filed, Listed, OfAad
  <2>6. i = j
    <3>k. PICK k1, o1 : k1 = b.k[i] /\ o1 = b.o[i]
      OBVIOUS
    <3>1. ct[i] = [pt |-> <<iv, i>>, ks |-> <<iv, k1, o1>>]
      BY <3>k DEF Keyed, KeyedByte
    <3>2. d = ct[i]
      BY <2>1, <2>5
    <3>3. d.pt = <<iv, i>>
      BY <3>1, <3>2
    <3> QED BY <2>3, <3>3
  <2>7. b.o[j] \in Nat /\ c.o[j] \in Nat
    BY <1>1
  <2>8. b.at[j] = c.at[j] /\ c.o[j] + 1 = b.o[j] + 1
    BY <2>5, <2>6, <2>x
  <2> QED BY <2>7, <2>8
<1>3. b.at = c.at
  <2>f. PICK f, g : f = b.at /\ g = c.at
    OBVIOUS
  <2>1. f \in [1..n -> Nat] /\ g \in [1..n -> Nat] /\ \A j \in 1..n : f[j] = g[j]
    BY <1>1, <1>2, <2>f
  <2>2. f = g
    BY <2>1
  <2> QED BY <2>2, <2>f
<1>4. b.o = c.o
  <2>f. PICK f, g : f = b.o /\ g = c.o
    OBVIOUS
  <2>1. f \in [1..n -> Nat] /\ g \in [1..n -> Nat] /\ \A j \in 1..n : f[j] = g[j]
    BY <1>1, <1>2, <2>f
  <2>2. f = g
    BY <2>1
  <2> QED BY <2>2, <2>f
<1> QED BY <1>3, <1>4

\* Nothing that a tag covers is of another message.
LEMMA TagIsOwn ==
  ASSUME NEW b, NEW m, MailBook(b, m), NEW x, NEW r, Cell(m.tag.hash, x, r)
  PROVE  m.tag.hash[x][r].pt[1] = m.iv
<1>f. PICK V, iv, ct, n, d : /\ V = m.tag.hash /\ iv = m.iv /\ ct = m.ct /\ n = Len(ct)
                            /\ d = V[x][r]
  OBVIOUS
<1>1. Listed(b, V, iv, ct, n) /\ Keyed(b, n, iv, ct) /\ Cell(V, x, r)
  BY <1>f DEF MailBook, Filed
<1>2. OfAad(iv, d) \/ \E j \in 1..n : d = ct[j]
  BY <1>1, <1>f DEF Listed
<1>3. CASE OfAad(iv, d)
  BY <1>3, <1>f DEF OfAad
<1>4. CASE \E j \in 1..n : d = ct[j]
  <2>1. PICK j \in 1..n : d = ct[j]
    BY <1>4
  <2>k. PICK k, o : k = b.k[j] /\ o = b.o[j]
    OBVIOUS
  <2>2. d = [pt |-> <<iv, j>>, ks |-> <<iv, k, o>>]
    BY <1>1, <2>1, <2>k DEF Keyed, KeyedByte
  <2>3. d.pt[1] = iv
    BY <2>2
  <2> QED BY <1>f, <2>3
<1> QED BY <1>2, <1>3, <1>4

\* A receiver that has read a whole message and hashed what its tag covers
\* has opened each byte with the keystream it was written under.
LEMMA OpensRightly ==
  ASSUME NEW m, Booked(m), m.iv \in Nat \ {0}, m.ct \in Seq(Byte),
         NEW s, NEW i, Reads(s, m.ct, i), s.iv = m.iv, s.payload_len = Len(m.ct),
         Hashed(s) = m.tag.hash
  PROVE  s.out = Plain(m.iv, 0, Len(m.ct))
<1>f. PICK V, iv, ct, n, out : /\ V = m.tag.hash /\ iv = m.iv /\ ct = m.ct /\ n = Len(ct)
                              /\ out = s.out
  OBVIOUS
<1>0. iv \in Nat \ {0} /\ n \in Nat /\ s.iv = iv /\ s.payload_len = n
  BY <1>f, LenProperties
<1>b. PICK b : MailBook(b, m)
  BY DEF Booked
<1>1. Law(b, n) /\ Filed(b, V, iv, ct, n) /\ Keyed(b, n, iv, ct)
  BY <1>b, <1>f DEF MailBook
<1>2. ~Foreign(s)
  BY <1>b, TagIsOwn DEF Foreign
<1>3. PICK c : RxBook(c, s, m.ct)
  BY <1>2 DEF Reads
<1>4. Law(c, n) /\ Filed(c, V, iv, ct, n)
  BY <1>0, <1>3, <1>f DEF RxBook, Keeps, Hashed
<1>5. Len(out) = n /\ \A j \in 1..n : OpenedByte(c, iv, ct, out, j)
  BY <1>0, <1>3, <1>f DEF RxBook
<1>6. b.at = c.at /\ b.o = c.o
  BY <1>0, <1>1, <1>4, SamePlaces
<1>7. \A j \in 1..n : b.k[j] = c.k[j] /\ b.o[j] = c.o[j]
  BY <1>0, <1>1, <1>4, <1>6, BooksAgree
<1>8. ASSUME NEW j \in 1..n PROVE out[j] = <<iv, 0 + j>>
  <2>x. PICK d, k, o : d = ct[j] /\ k = b.k[j] /\ o = b.o[j]
    OBVIOUS
  <2>1. d = [pt |-> <<iv, j>>, ks |-> <<iv, k, o>>]
    BY <1>1, <2>x DEF Keyed, KeyedByte
  <2>2. out[j] = Opened(d, <<iv, k, o>>)
    BY <1>5, <1>7, <2>x DEF OpenedByte
  <2>3. out[j] = <<iv, j>>
    BY <2>1, <2>2 DEF Opened
  <2> QED BY <2>3
<1>9. out \in Seq(Text)
  BY <1>f DEF Reads, Reader, Wrapper
<1>10. out = [j \in 1..n |-> out[j]]
  BY <1>5, <1>9, LenProperties
<1>11. out = [j \in 1..n |-> <<iv, 0 + j>>]
  BY <1>8, <1>10
<1> QED BY <1>11, <1>f DEF Plain

\* So does one whose tag is the message's.
LEMMA AcceptedOpens ==
  ASSUME IStream, IBooked, IReader, RxVerify, TagOf(rx, rx.rx_gmac) = Incoming.tag
  PROVE  rx.out = Plain(Incoming.iv, 0, Len(Incoming.ct))
<1>0. /\ rx.on /\ Left = 0 /\ rx.iv = Len(got) + 1 /\ Reads(rx, Incoming.ct, Len(got) + 1)
      /\ Len(got) \in Nat /\ Len(got) + 1 \in 1..Len(wire) /\ rx.payload_len \in Nat
      /\ Len(got) < Len(wire)
  BY LenProperties DEF RxVerify, IReader, IStream, IReceiver, IWire, Wrapper
<1>m. PICK m, i : m = Incoming /\ i = Len(got) + 1
  OBVIOUS
<1>1. m.iv = i /\ Booked(m) /\ i \in Nat \ {0}
  BY <1>0, <1>m DEF IBooked, Incoming
<1>2. m.ct \in Seq(Byte) /\ Len(m.ct) \in Nat
  BY <1>0, <1>m, Arrived, LenProperties DEF IStream
<1>3. rx.payload_len = Len(m.ct)
  BY <1>0, <1>2, <1>m DEF Left
<1>4. Hashed(rx) = m.tag.hash
  <2>1. TagOf(rx, rx.rx_gmac).hash = Hashed(rx)
    BY DEF TagOf, Hashed, Joint
  <2> QED BY <1>m, <2>1
<1>5. rx.out = Plain(m.iv, 0, Len(m.ct))
  BY <1>0, <1>1, <1>2, <1>3, <1>4, <1>m, OpensRightly
<1> QED BY <1>5, <1>m

\* What is added to the list of outcomes is intact if accepted.
LEMMA IntactNext ==
  ASSUME IStream, IBooked, IReader, AcceptedIsIntact, [Next]_vars
  PROVE  AcceptedIsIntact'
<1>0. /\ got \in Seq(Outcome) /\ Len(got) \in Nat /\ Len(got) <= Len(wire) /\ DOMAIN got = 1..Len(got)
      /\ Len(wire) \in Nat
  BY LenProperties DEF IStream, IWire, IReceiver
<1>1. CASE RxVerify
  <2>r. PICK r : r = [accepted |-> TagOf(rx, rx.rx_gmac) = Incoming.tag, text |-> rx.out,
                      ordered |-> rxCalls.ordered, stored |-> rxCalls.stored]
    OBVIOUS
  <2>1. got' = Append(got, r) /\ wire' = wire
    BY <1>1, <2>r DEF RxVerify
  <2>2. /\ DOMAIN got' = 1..Len(got) + 1 /\ got'[Len(got) + 1] = r
        /\ \A j \in 1..Len(got) : got'[j] = got[j]
    <3>1. got \in Seq(Outcome \cup {r}) /\ r \in Outcome \cup {r}
      BY <1>0, SeqMonotonic
    <3>2. got' \in Seq(Outcome \cup {r}) /\ Len(got') = Len(got) + 1
      BY <2>1, <3>1, AppendProperties
    <3>3. DOMAIN got' = 1..Len(got) + 1
      BY <3>2, LenProperties
    <3> QED BY <2>1, <3>1, <3>3, AppendProperties
  <2>3. r.accepted => r.text = Plain(Incoming.iv, 0, Len(Incoming.ct))
    BY <1>1, <2>r, AcceptedOpens
  <2>4. ASSUME NEW i \in DOMAIN got', got'[i].accepted
        PROVE  got'[i].text = Plain(wire'[i].iv, 0, Len(wire'[i].ct))
    <3>1. CASE i \in 1..Len(got)
      BY <1>0, <2>1, <2>2, <2>4, <3>1 DEF AcceptedIsIntact
    <3>2. CASE i = Len(got) + 1
      BY <2>1, <2>2, <2>3, <2>4, <3>2 DEF Incoming
    <3> QED BY <1>0, <2>2, <2>4, <3>1, <3>2
  <2> QED BY <2>4 DEF AcceptedIsIntact
<1>2. CASE UNCHANGED got
  <2>1. \A i \in DOMAIN got : wire'[i] = wire[i]
    <3>1. \A i \in DOMAIN got : i \in 1..Len(wire)
      BY <1>0
    <3> QED BY <3>1, WireGrows
  <2> QED BY <1>2, <2>1 DEF AcceptedIsIntact
<1> QED BY <1>1, <1>2
        DEF Next, vars, TxInit, TxAad, TxStore, TxCopy, TxFinalize, RxInit, RxAad, RxStore, RxCopy

\* The inductive invariant: types, the books of both sides, and the outcomes.
IIntact == IStream /\ IBooking /\ IBooked /\ IReader /\ AcceptedIsIntact

LEMMA IntactInit == ASSUME Init PROVE IIntact
<1>1. tx = Idle /\ rx = Idle /\ wire = << >> /\ got = << >>
  BY DEF Init
<1>2. ~Idle.on /\ Idle.tx_gmac = << >> /\ Idle.tx_ks_pos = End
      /\ Idle.rx_gmac = << >> /\ Idle.rx_ks_pos = End
  BY DEF Idle
<1>3. IStream
  BY StreamInit
<1>4. IBooking /\ IBooked /\ AcceptedIsIntact
  BY <1>1, <1>2 DEF IBooking, IBooked, AcceptedIsIntact
<1>5. Len(<< >>) = 0
  OBVIOUS
<1>6. Reader(rx)
  BY <1>1, <1>2, <1>5, IdleIsUnused DEF Reader
<1>7. Seen(rx, Len(got))
  BY <1>1, <1>2, <1>5 DEF Seen
<1>8. IReader
  BY <1>1, <1>2, <1>6, <1>7 DEF IReader
<1> QED BY <1>3, <1>4, <1>8 DEF IIntact

LEMMA IntactInvariant == Spec => []IIntact
<1>1. Init => IIntact
  BY IntactInit
<1>2. IIntact /\ [Next]_vars => IIntact'
  BY StreamNext, BookingNext, BookedNext, ReaderNext, IntactNext DEF IIntact
<1> QED BY <1>1, <1>2, PTL DEF Spec

\* Whatever calls made a message and whatever calls opened it, in order or
\* not, a tag that verifies is the tag of a text that decrypted rightly.
THEOREM AcceptedAreIntact == Spec => []AcceptedIsIntact
<1>1. IIntact => AcceptedIsIntact
  BY DEF IIntact
<1> QED BY <1>1, IntactInvariant, PTL
=============================================================================
