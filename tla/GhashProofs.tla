---------------------------- MODULE GhashProofs -----------------------------
(***************************************************************************)
(* Proofs about Gf128 and GhashEngine: the vector product with its lazy    *)
(* reduction and the bit loop of the GPU are the product of GF(2^128), and *)
(* the engine computes GHASH and opens what it has sealed, for every key,  *)
(* text and way to cut it.                                                 *)
(***************************************************************************)
EXTENDS GhashEngine, NumberProofs, FiniteSetTheorems, SequenceTheorems, TLAPS

-----------------------------------------------------------------------------
(* Sums: exclusive or.                                                     *)

LEMMA InXor == \A a, b, x : x \in Xor(a, b) <=> ~(x \in a <=> x \in b)
BY DEF Xor

LEMMA XorLaws ==
  /\ \A a : Xor(a, {}) = a /\ Xor({}, a) = a /\ Xor(a, a) = {}
  /\ \A a, b : Xor(a, b) = Xor(b, a)
  /\ \A a, b, c : Xor(Xor(a, b), c) = Xor(a, Xor(b, c))
  /\ \A a, b, c, d : Xor(Xor(a, b), Xor(c, d)) = Xor(Xor(a, c), Xor(b, d))
<1>1. \A a : Xor(a, {}) = a /\ Xor({}, a) = a /\ Xor(a, a) = {}
  BY DEF Xor
<1>2. \A a, b : Xor(a, b) = Xor(b, a)
  BY DEF Xor
<1>3. ASSUME NEW a, NEW b, NEW c PROVE Xor(Xor(a, b), c) = Xor(a, Xor(b, c))
  <2>1. \A x : x \in Xor(Xor(a, b), c) <=> x \in Xor(a, Xor(b, c))
    BY InXor
  <2> QED BY <2>1
<1>4. ASSUME NEW a, NEW b, NEW c, NEW d
      PROVE  Xor(Xor(a, b), Xor(c, d)) = Xor(Xor(a, c), Xor(b, d))
  <2>1. \A x : x \in Xor(Xor(a, b), Xor(c, d)) <=> x \in Xor(Xor(a, c), Xor(b, d))
    BY InXor
  <2> QED BY <2>1
<1> QED BY <1>1, <1>2, <1>3, <1>4

LEMMA XorType ==
  ASSUME NEW S, NEW a \in SUBSET S, NEW b \in SUBSET S
  PROVE  Xor(a, b) \in SUBSET S
BY DEF Xor

\* The sum of a sequence, one summand after another.
SumsUp(f, s) == f[0] = {} /\ \A i \in 1..Len(s) : f[i] = Xor(f[i - 1], s[i])

LEMMA XorAllLast ==
  ASSUME NEW S, NEW s \in Seq(SUBSET S)
  PROVE  \E f : XorAll(s) = f[Len(s)] /\ SumsUp(f, s)
<1> DEFINE Eq(f) == f = [i \in 0..Len(s) |-> IF i = 0 THEN {} ELSE Xor(f[i - 1], s[i])]
<1>0. Len(s) \in Nat /\ \A i \in 1..Len(s) : s[i] \in SUBSET S
  OBVIOUS
<1>1. \E f : Eq(f)
  <2>1. PICK F : F = [x \in Nat \X SUBSET S |->
                        IF x[1] \in 1..Len(s) THEN Xor(x[2], s[x[1]]) ELSE {}]
    OBVIOUS
  <2>2. \A i \in Nat, v \in SUBSET S :
           F[<<i, v>>] = IF i \in 1..Len(s) THEN Xor(v, s[i]) ELSE {}
    BY <2>1
  <2>3. \A i \in Nat, v \in SUBSET S : F[<<i, v>>] \in SUBSET S
    <3> SUFFICES ASSUME NEW i \in Nat, NEW v \in SUBSET S PROVE F[<<i, v>>] \in SUBSET S
      OBVIOUS
    <3>1. CASE i \in 1..Len(s)
      BY <1>0, <2>2, <3>1, XorType
    <3>2. CASE i \notin 1..Len(s)
      BY <2>2, <3>2
    <3> QED BY <3>1, <3>2
  <2>4. PICK f \in [0..Len(s) -> SUBSET S] : Follow(f, Len(s), {}, F)
    <3>1. {} \in SUBSET S
      OBVIOUS
    <3> QED BY <1>0, <2>3, <3>1, Recursion
  <2>5. f[0] = {} /\ \A i \in 1..Len(s) : f[i] = Xor(f[i - 1], s[i])
    <3>1. \A i \in 1..Len(s) : i \in Nat /\ f[i - 1] \in SUBSET S
      BY <1>0
    <3> QED BY <2>2, <2>4, <3>1 DEF Follow
  <2>6. Eq(f)
    BY <2>5
  <2> QED BY <2>6
<1>2. PICK f : f = CHOOSE x : Eq(x)
  OBVIOUS
<1>3. Eq(f)
  BY <1>1, <1>2
<1>4. XorAll(s) = f[Len(s)]
  BY <1>2 DEF XorAll
<1>5. f[0] = {} /\ \A i \in 1..Len(s) : f[i] = Xor(f[i - 1], s[i])
  <2>1. PICK h : h = [i \in 0..Len(s) |-> IF i = 0 THEN {} ELSE Xor(f[i - 1], s[i])]
    OBVIOUS
  <2>2. h[0] = {} /\ \A i \in 1..Len(s) : h[i] = Xor(f[i - 1], s[i])
    BY <1>0, <2>1
  <2>3. f = h
    BY <1>3, <2>1
  <2> QED BY <2>2, <2>3
<1> QED BY <1>4, <1>5 DEF SumsUp

LEMMA XorAll3 ==
  ASSUME NEW a, NEW b, NEW c
  PROVE  XorAll(<<a, b, c>>) = Xor(Xor(a, b), c)
<1>1. PICK s : s = <<a, b, c>>
  OBVIOUS
<1>2. s \in Seq(SUBSET (a \cup b \cup c)) /\ Len(s) = 3 /\ s[1] = a /\ s[2] = b /\ s[3] = c
  BY <1>1
<1>3. PICK f : XorAll(s) = f[3] /\ SumsUp(f, s)
  <2>1. PICK f : XorAll(s) = f[Len(s)] /\ SumsUp(f, s)
    BY <1>2, XorAllLast
  <2> QED BY <1>2, <2>1
<1>4. f[1] = Xor(f[0], s[1]) /\ f[2] = Xor(f[1], s[2]) /\ f[3] = Xor(f[2], s[3])
  <2>1. \A i \in 1..3 : f[i] = Xor(f[i - 1], s[i])
    BY <1>2, <1>3 DEF SumsUp
  <2>2. 1 - 1 = 0 /\ 2 - 1 = 1 /\ 3 - 1 = 2
    OBVIOUS
  <2>3. 1 \in 1..3 /\ 2 \in 1..3 /\ 3 \in 1..3
    OBVIOUS
  <2> QED BY <2>1, <2>2, <2>3
<1> QED BY <1>1, <1>2, <1>3, <1>4, XorLaws DEF SumsUp

LEMMA XorAll4 ==
  ASSUME NEW a, NEW b, NEW c, NEW d
  PROVE  XorAll(<<a, b, c, d>>) = Xor(Xor(Xor(a, b), c), d)
<1>1. PICK s : s = <<a, b, c, d>>
  OBVIOUS
<1>2. /\ s \in Seq(SUBSET (a \cup b \cup c \cup d)) /\ Len(s) = 4
      /\ s[1] = a /\ s[2] = b /\ s[3] = c /\ s[4] = d
  BY <1>1
<1>3. PICK f : XorAll(s) = f[4] /\ SumsUp(f, s)
  <2>1. PICK f : XorAll(s) = f[Len(s)] /\ SumsUp(f, s)
    BY <1>2, XorAllLast
  <2> QED BY <1>2, <2>1
<1>4. /\ f[1] = Xor(f[0], s[1]) /\ f[2] = Xor(f[1], s[2]) /\ f[3] = Xor(f[2], s[3])
      /\ f[4] = Xor(f[3], s[4])
  <2>1. \A i \in 1..4 : f[i] = Xor(f[i - 1], s[i])
    BY <1>2, <1>3 DEF SumsUp
  <2>2. 1 - 1 = 0 /\ 2 - 1 = 1 /\ 3 - 1 = 2 /\ 4 - 1 = 3
    OBVIOUS
  <2>3. 1 \in 1..4 /\ 2 \in 1..4 /\ 3 \in 1..4 /\ 4 \in 1..4
    OBVIOUS
  <2> QED BY <2>1, <2>2, <2>3
<1> QED BY <1>1, <1>2, <1>3, <1>4, XorLaws DEF SumsUp

\* Whether a set has an odd number of elements.
Odd(S) == Cardinality(S) % 2 = 1

LEMMA Disjoint ==
  ASSUME NEW a, NEW b, IsFiniteSet(a), IsFiniteSet(b), a \cap b = {}
  PROVE  Cardinality(a \cup b) = Cardinality(a) + Cardinality(b)
<1>1. Cardinality(a \cup b) = Cardinality(a) + Cardinality(b) - Cardinality({})
  BY FS_Union
<1>2. Cardinality(a) \in Nat /\ Cardinality(b) \in Nat /\ Cardinality({}) = 0
  BY FS_CardinalityType, FS_EmptySet
<1> QED BY <1>1, <1>2

LEMMA OddXor ==
  ASSUME NEW S, IsFiniteSet(S), NEW a \in SUBSET S, NEW b \in SUBSET S
  PROVE  Odd(Xor(a, b)) <=> ~(Odd(a) <=> Odd(b))
<1>1. IsFiniteSet(a) /\ IsFiniteSet(b) /\ IsFiniteSet(a \ b) /\ IsFiniteSet(b \ a)
      /\ IsFiniteSet(a \cap b)
  BY FS_Subset
<1>2. PICK x \in Nat, y \in Nat, z \in Nat :
        x = Cardinality(a \ b) /\ y = Cardinality(b \ a) /\ z = Cardinality(a \cap b)
  BY <1>1, FS_CardinalityType
<1>3. Cardinality(a) = x + z
  <2>1. (a \ b) \cup (a \cap b) = a /\ (a \ b) \cap (a \cap b) = {}
    OBVIOUS
  <2> QED BY <1>1, <1>2, <2>1, Disjoint
<1>4. Cardinality(b) = y + z
  <2>1. (b \ a) \cup (a \cap b) = b /\ (b \ a) \cap (a \cap b) = {}
    OBVIOUS
  <2> QED BY <1>1, <1>2, <2>1, Disjoint
<1>5. Cardinality(Xor(a, b)) = x + y
  <2>1. (a \ b) \cap (b \ a) = {}
    OBVIOUS
  <2> QED BY <1>1, <1>2, <2>1, Disjoint DEF Xor
<1> QED BY <1>3, <1>4, <1>5 DEF Odd

LEMMA OddFew == ~Odd({}) /\ \A x : Odd({x})
<1>1. Cardinality({}) = 0 /\ \A x : Cardinality({x}) = 1
  BY FS_EmptySet, FS_Singleton
<1> QED BY <1>1 DEF Odd

-----------------------------------------------------------------------------
(* Linear functions of a block.                                            *)

Linear(f) == \A a, b \in SUBSET Bits : f[Xor(a, b)] = Xor(f[a], f[b])

\* They are the same when they agree on single bits.
LEMMA SameOnBits ==
  ASSUME NEW f, NEW g, Linear(f), Linear(g), \A i \in Bits : f[{i}] = g[{i}],
         NEW a \in SUBSET Bits
  PROVE  f[a] = g[a]
<1> DEFINE S == {n \in Nat : \A c \in SUBSET Bits : (\A x \in c : x < n) => f[c] = g[c]}
<1>1. 0 \in S
  <2> SUFFICES ASSUME NEW c \in SUBSET Bits, \A x \in c : x < 0 PROVE f[c] = g[c]
    OBVIOUS
  <2>1. c = {}
    BY DEF Bits
  <2>2. {} \in SUBSET Bits /\ Xor({}, {}) = {}
    BY XorLaws
  <2>3. f[{}] = Xor(f[{}], f[{}]) /\ g[{}] = Xor(g[{}], g[{}])
    <3>1. f[Xor({}, {})] = Xor(f[{}], f[{}]) /\ g[Xor({}, {})] = Xor(g[{}], g[{}])
      BY DEF Linear
    <3> QED BY <2>2, <3>1
  <2>4. f[{}] = {} /\ g[{}] = {}
    BY <2>3, XorLaws
  <2> QED BY <2>1, <2>4
<1>2. ASSUME NEW n \in Nat, n \in S PROVE n + 1 \in S
  <2> SUFFICES ASSUME NEW c \in SUBSET Bits, \A x \in c : x < n + 1 PROVE f[c] = g[c]
    OBVIOUS
  <2>1. PICK d : d = c \ {n}
    OBVIOUS
  <2>2. d \in SUBSET Bits /\ \A x \in d : x < n
    BY <2>1 DEF Bits
  <2>3. f[d] = g[d]
    BY <1>2, <2>2
  <2>4. CASE n \notin c
    BY <2>1, <2>3, <2>4
  <2>5. CASE n \in c
    <3>1. n \in Bits /\ {n} \in SUBSET Bits
      BY <2>5
    <3>2. Xor(d, {n}) = c
      BY <2>1, <2>5 DEF Xor
    <3>3. f[c] = Xor(f[d], f[{n}]) /\ g[c] = Xor(g[d], g[{n}])
      BY <2>2, <3>1, <3>2 DEF Linear
    <3> QED BY <2>3, <3>1, <3>3
  <2> QED BY <2>4, <2>5
<1>3. Nat \subseteq S
  <2> HIDE DEF S
  <2> QED BY <1>1, <1>2, SetInduction
<1>4. \A x \in a : x < 128
  BY DEF Bits
<1>5. 128 \in S
  <2> HIDE DEF S
  <2> QED BY <1>3
<1> QED BY <1>4, <1>5

-----------------------------------------------------------------------------
(* The bits of a byte in the opposite order.                               *)

Mirror(i) == 8 * (i \div 8) + 7 - (i % 8)

LEMMA MirrorTwice ==
  ASSUME NEW i \in Bits
  PROVE  Mirror(i) \in Bits /\ Mirror(Mirror(i)) = i
<1>1. PICK q \in Int, r \in Int : q = i \div 8 /\ r = i % 8
  BY DEF Bits
<1>2. i = 8 * q + r /\ r \in 0..7 /\ q \in 0..15
  BY <1>1 DEF Bits
<1>3. Mirror(i) = 8 * q + (7 - r)
  BY <1>1, <1>2 DEF Mirror
<1>4. PICK j \in Nat : j = 8 * q + (7 - r)
  BY <1>2
<1>5. j \div 8 = q /\ j % 8 = 7 - r
  BY <1>2, <1>4
<1> QED BY <1>2, <1>3, <1>4, <1>5 DEF Mirror, Bits

LEMMA InReversed ==
  ASSUME NEW v \in SUBSET Bits, NEW i \in Bits
  PROVE  i \in vrbitq_u8(v) <=> Mirror(i) \in v
<1>1. vrbitq_u8(v) = {Mirror(k) : k \in v}
  BY DEF vrbitq_u8, Mirror
<1> QED BY <1>1, MirrorTwice

LEMMA Reversed ==
  /\ \A v \in SUBSET Bits : vrbitq_u8(v) \in SUBSET Bits /\ vrbitq_u8(vrbitq_u8(v)) = v
  /\ \A v, w \in SUBSET Bits : vrbitq_u8(Xor(v, w)) = Xor(vrbitq_u8(v), vrbitq_u8(w))
<1>1. ASSUME NEW v \in SUBSET Bits PROVE vrbitq_u8(v) \in SUBSET Bits
  <2>1. vrbitq_u8(v) = {Mirror(k) : k \in v}
    BY DEF vrbitq_u8, Mirror
  <2> QED BY <2>1, MirrorTwice
<1>2. ASSUME NEW v \in SUBSET Bits PROVE vrbitq_u8(vrbitq_u8(v)) = v
  <2>1. vrbitq_u8(v) \in SUBSET Bits /\ vrbitq_u8(vrbitq_u8(v)) \in SUBSET Bits
    BY <1>1
  <2>2. \A i \in Bits : i \in vrbitq_u8(vrbitq_u8(v)) <=> i \in v
    BY <2>1, InReversed, MirrorTwice
  <2> QED BY <2>1, <2>2
<1>3. ASSUME NEW v \in SUBSET Bits, NEW w \in SUBSET Bits
      PROVE  vrbitq_u8(Xor(v, w)) = Xor(vrbitq_u8(v), vrbitq_u8(w))
  <2>1. Xor(v, w) \in SUBSET Bits /\ Xor(vrbitq_u8(v), vrbitq_u8(w)) \in SUBSET Bits
    BY <1>1, XorType
  <2>2. vrbitq_u8(Xor(v, w)) \in SUBSET Bits
    BY <1>1, <2>1
  <2>3. \A i \in Bits : i \in vrbitq_u8(Xor(v, w)) <=> i \in Xor(vrbitq_u8(v), vrbitq_u8(w))
    BY <2>1, InReversed, InXor
  <2> QED BY <2>1, <2>2, <2>3
<1> QED BY <1>1, <1>2, <1>3

-----------------------------------------------------------------------------
(* The product of polynomials.                                             *)

\* The bits that meet in coefficient k.
Meeting(a, b, k) == {i \in a : k >= i /\ k - i \in b}

LEMMA InProductOf ==
  ASSUME NEW a, NEW b, NEW d \in Nat, NEW k
  PROVE  k \in Product(a, b, d) <=> k \in 0..2 * d /\ Odd(Meeting(a, b, k))
BY DEF Product, Odd, Meeting

LEMMA ProductXor ==
  ASSUME NEW d \in Nat, NEW a \in SUBSET (0..d), NEW b \in SUBSET (0..d), NEW c \in SUBSET (0..d)
  PROVE  /\ Product(Xor(a, b), c, d) = Xor(Product(a, c, d), Product(b, c, d))
         /\ Product(c, Xor(a, b), d) = Xor(Product(c, a, d), Product(c, b, d))
<1>0. IsFiniteSet(0..d)
  BY FS_Interval
<1>1. ASSUME NEW k \in 0..2 * d
      PROVE  Odd(Meeting(Xor(a, b), c, k)) <=> ~(Odd(Meeting(a, c, k)) <=> Odd(Meeting(b, c, k)))
  <2>1. Meeting(Xor(a, b), c, k) = Xor(Meeting(a, c, k), Meeting(b, c, k))
    BY DEF Meeting, Xor
  <2>2. Meeting(a, c, k) \in SUBSET (0..d) /\ Meeting(b, c, k) \in SUBSET (0..d)
    BY DEF Meeting
  <2> QED BY <1>0, <2>1, <2>2, OddXor
<1>2. ASSUME NEW k \in 0..2 * d
      PROVE  Odd(Meeting(c, Xor(a, b), k)) <=> ~(Odd(Meeting(c, a, k)) <=> Odd(Meeting(c, b, k)))
  <2>1. Meeting(c, Xor(a, b), k) = Xor(Meeting(c, a, k), Meeting(c, b, k))
    BY DEF Meeting, Xor
  <2>2. Meeting(c, a, k) \in SUBSET (0..d) /\ Meeting(c, b, k) \in SUBSET (0..d)
    BY DEF Meeting
  <2> QED BY <1>0, <2>1, <2>2, OddXor
<1>3. \A k : k \in Product(Xor(a, b), c, d) <=> k \in Xor(Product(a, c, d), Product(b, c, d))
  BY <1>1, InProductOf, InXor
<1>4. \A k : k \in Product(c, Xor(a, b), d) <=> k \in Xor(Product(c, a, d), Product(c, b, d))
  BY <1>2, InProductOf, InXor
<1> QED BY <1>3, <1>4

LEMMA ProductOfBits ==
  ASSUME NEW d \in Nat, NEW i \in 0..d, NEW j \in 0..d
  PROVE  Product({i}, {j}, d) = {i + j}
<1>1. ASSUME NEW k \in 0..2 * d PROVE Odd(Meeting({i}, {j}, k)) <=> k = i + j
  <2>1. CASE k = i + j
    <3>1. Meeting({i}, {j}, k) = {i}
      BY <2>1 DEF Meeting
    <3> QED BY <2>1, <3>1, OddFew
  <2>2. CASE k # i + j
    <3>1. Meeting({i}, {j}, k) = {}
      BY <2>2 DEF Meeting
    <3> QED BY <2>2, <3>1, OddFew
  <2> QED BY <2>1, <2>2
<1>2. i + j \in 0..2 * d
  OBVIOUS
<1>3. \A k : k \in Product({i}, {j}, d) <=> k = i + j
  BY <1>1, <1>2, InProductOf
<1> QED BY <1>3

LEMMA ProductOfNone ==
  ASSUME NEW d \in Nat, NEW a
  PROVE  Product({}, a, d) = {} /\ Product(a, {}, d) = {}
<1>1. \A k : Meeting({}, a, k) = {} /\ Meeting(a, {}, k) = {}
  BY DEF Meeting
<1>2. ASSUME NEW k PROVE k \notin Product({}, a, d) /\ k \notin Product(a, {}, d)
  <2>1. k \in Product({}, a, d) => Odd(Meeting({}, a, k))
    BY InProductOf
  <2>2. k \in Product(a, {}, d) => Odd(Meeting(a, {}, k))
    BY InProductOf
  <2> QED BY <1>1, <2>1, <2>2, OddFew
<1> QED BY <1>2

LEMMA ProductType ==
  ASSUME NEW d \in Nat, NEW a, NEW b
  PROVE  Product(a, b, d) \in SUBSET (0..2 * d)
BY DEF Product

-----------------------------------------------------------------------------
(* The remainder.                                                          *)

Low(p) == {i \in p : i < 128}
High(p) == {k - 128 : k \in {i \in p : i >= 128}}
Raised(p, n) == {k + n : k \in p}
Spread(p) == Xor(Xor(Xor(Raised(p, 0), Raised(p, 1)), Raised(p, 2)), Raised(p, 7))

LEMMA FoldOnceIs ==
  ASSUME NEW p
  PROVE  FoldOnce(p) = Xor(Low(p), Spread(High(p)))
<1> DEFINE h == High(p)
           u == [j \in 1..4 |-> Raised(h, <<0, 1, 2, 7>>[j])]
           S == Low(p) \cup UNION {u[j] : j \in 1..4}
<1>1. PICK t : t = u
  OBVIOUS
<1>2. t[1] = Raised(h, 0) /\ t[2] = Raised(h, 1) /\ t[3] = Raised(h, 2) /\ t[4] = Raised(h, 7)
  BY <1>1
<1>3. t \in Seq(SUBSET S) /\ Len(t) = 4
  <2>1. t = [j \in 1..4 |-> t[j]]
    BY <1>1
  <2>2. \A j \in 1..4 : t[j] \in SUBSET S
    BY <1>1
  <2> HIDE DEF S, u, h
  <2>3. t \in [1..4 -> SUBSET S]
    BY <2>1, <2>2
  <2>4. 4 \in Nat
    OBVIOUS
  <2>5. t \in Seq(SUBSET S)
    BY <2>3, <2>4, SeqDef
  <2>6. DOMAIN t = 1..4
    BY <2>3
  <2> QED BY <2>4, <2>5, <2>6, LenProperties
<1>4. <<Low(p)>> \in Seq(SUBSET S) /\ Len(<<Low(p)>>) = 1 /\ <<Low(p)>>[1] = Low(p)
  OBVIOUS
<1> HIDE DEF S, u
<1>5. PICK s : s = <<Low(p)>> \o t
  OBVIOUS
<1>6. /\ s \in Seq(SUBSET S) /\ Len(s) = 5 /\ s[1] = Low(p)
      /\ s[2] = t[1] /\ s[3] = t[2] /\ s[4] = t[3] /\ s[5] = t[4]
  <2>1. PICK z \in Seq(SUBSET S) : z = <<Low(p)>> /\ Len(z) = 1 /\ z[1] = Low(p)
    BY <1>4
  <2>2. PICK w : w = z \o t
    OBVIOUS
  <2>3. /\ w \in Seq(SUBSET S) /\ Len(w) = Len(z) + Len(t)
        /\ \A i \in 1..Len(z) + Len(t) : w[i] = IF i <= Len(z) THEN z[i] ELSE t[i - Len(z)]
    <3>1. /\ z \o t \in Seq(SUBSET S) /\ Len(z \o t) = Len(z) + Len(t)
          /\ \A i \in 1..Len(z) + Len(t) :
                (z \o t)[i] = IF i <= Len(z) THEN z[i] ELSE t[i - Len(z)]
      BY <1>3, ConcatProperties
    <3> QED BY <2>2, <3>1
  <2>4. \A i \in 1..5 : w[i] = IF i <= 1 THEN z[i] ELSE t[i - 1]
    BY <1>3, <2>1, <2>3
  <2>5. w[1] = z[1] /\ w[2] = t[1] /\ w[3] = t[2] /\ w[4] = t[3] /\ w[5] = t[4]
    BY <2>4
  <2>6. s = w /\ Len(w) = 5
    BY <1>3, <1>5, <2>1, <2>2, <2>3
  <2> QED BY <2>1, <2>3, <2>5, <2>6
<1>7. PICK f : XorAll(s) = f[5] /\ SumsUp(f, s)
  <2>1. PICK f : XorAll(s) = f[Len(s)] /\ SumsUp(f, s)
    BY <1>6, XorAllLast
  <2> QED BY <1>6, <2>1
<1>8. /\ f[1] = Xor({}, s[1]) /\ f[2] = Xor(f[1], s[2]) /\ f[3] = Xor(f[2], s[3])
      /\ f[4] = Xor(f[3], s[4]) /\ f[5] = Xor(f[4], s[5])
  <2>1. f[0] = {} /\ \A i \in 1..5 : f[i] = Xor(f[i - 1], s[i])
    BY <1>6, <1>7 DEF SumsUp
  <2>2. 1 - 1 = 0 /\ 2 - 1 = 1 /\ 3 - 1 = 2 /\ 4 - 1 = 3 /\ 5 - 1 = 4
    OBVIOUS
  <2>3. 1 \in 1..5 /\ 2 \in 1..5 /\ 3 \in 1..5 /\ 4 \in 1..5 /\ 5 \in 1..5
    OBVIOUS
  <2> QED BY <2>1, <2>2, <2>3
<1>9. XorAll(s) = Xor(Xor(Xor(Xor(Low(p), t[1]), t[2]), t[3]), t[4])
  <2>1. f[1] = Low(p)
    BY <1>6, <1>8, XorLaws
  <2> QED BY <1>6, <1>7, <1>8, <2>1
<1>10. XorAll(s) = Xor(Low(p), Spread(High(p)))
  <2>1. PICK a, b, c, d, e : a = Low(p) /\ b = t[1] /\ c = t[2] /\ d = t[3] /\ e = t[4]
    OBVIOUS
  <2>2. Xor(Xor(Xor(a, b), c), d) = Xor(a, Xor(Xor(b, c), d))
    <3>1. Xor(Xor(a, b), c) = Xor(a, Xor(b, c))
      BY XorLaws
    <3>2. Xor(Xor(a, Xor(b, c)), d) = Xor(a, Xor(Xor(b, c), d))
      BY XorLaws
    <3> QED BY <3>1, <3>2
  <2>3. Xor(Xor(a, Xor(Xor(b, c), d)), e) = Xor(a, Xor(Xor(Xor(b, c), d), e))
    BY XorLaws
  <2> QED BY <1>2, <1>9, <2>1, <2>2, <2>3 DEF Spread
<1>11. FoldOnce(p) = XorAll(s)
  BY <1>1, <1>5 DEF FoldOnce, Low, High, Raised, u
<1> QED BY <1>10, <1>11

LEMMA SpreadOfNone == Spread({}) = {}
<1>1. \A k : Raised({}, k) = {}
  BY DEF Raised
<1>2. Xor({}, {}) = {}
  BY XorLaws
<1> QED BY <1>1, <1>2 DEF Spread

LEMMA SpreadType ==
  ASSUME NEW p, NEW T, Raised(p, 0) \in SUBSET T, Raised(p, 1) \in SUBSET T,
         Raised(p, 2) \in SUBSET T, Raised(p, 7) \in SUBSET T
  PROVE  Spread(p) \in SUBSET T
<1>1. Xor(Raised(p, 0), Raised(p, 1)) \in SUBSET T
  BY XorType
<1>2. Xor(Xor(Raised(p, 0), Raised(p, 1)), Raised(p, 2)) \in SUBSET T
  BY <1>1, XorType
<1> QED BY <1>2, XorType DEF Spread

LEMMA RaisedXor ==
  ASSUME NEW p \in SUBSET Nat, NEW q \in SUBSET Nat, NEW n \in Nat
  PROVE  Raised(Xor(p, q), n) = Xor(Raised(p, n), Raised(q, n))
<1>1. ASSUME NEW r \in SUBSET Nat, NEW x PROVE x \in Raised(r, n) <=> x \in Nat /\ x >= n /\ x - n \in r
  BY DEF Raised
<1>2. Xor(p, q) \in SUBSET Nat
  BY XorType
<1>3. \A x : x \in Raised(Xor(p, q), n) <=> x \in Xor(Raised(p, n), Raised(q, n))
  BY <1>1, <1>2, InXor
<1> QED BY <1>3

LEMMA SpreadXor ==
  ASSUME NEW p \in SUBSET Nat, NEW q \in SUBSET Nat
  PROVE  Spread(Xor(p, q)) = Xor(Spread(p), Spread(q))
<1>1. \A n \in {0, 1, 2, 7} : Raised(Xor(p, q), n) = Xor(Raised(p, n), Raised(q, n))
  BY RaisedXor
<1> QED BY <1>1, XorLaws DEF Spread

LEMMA FoldOnceXor ==
  ASSUME NEW p \in SUBSET Nat, NEW q \in SUBSET Nat
  PROVE  FoldOnce(Xor(p, q)) = Xor(FoldOnce(p), FoldOnce(q))
<1>1. Low(Xor(p, q)) = Xor(Low(p), Low(q))
  BY DEF Low, Xor
<1>2. High(Xor(p, q)) = Xor(High(p), High(q))
  <2>1. ASSUME NEW r \in SUBSET Nat, NEW x PROVE x \in High(r) <=> x \in Nat /\ x + 128 \in r
    BY DEF High
  <2>2. Xor(p, q) \in SUBSET Nat
    BY XorType
  <2>3. \A x : x \in High(Xor(p, q)) <=> x \in Xor(High(p), High(q))
    BY <2>1, <2>2, InXor
  <2> QED BY <2>3
<1>3. High(p) \in SUBSET Nat /\ High(q) \in SUBSET Nat
  BY DEF High
<1>4. Spread(High(Xor(p, q))) = Xor(Spread(High(p)), Spread(High(q)))
  BY <1>2, <1>3, SpreadXor
<1> QED BY <1>1, <1>4, FoldOnceIs, XorLaws

\* Four bits.
Four(n) == {n, n + 1, n + 2, n + 7}

LEMMA SpreadOfBit ==
  ASSUME NEW n \in Nat
  PROVE  Spread({n}) = Four(n)
<1>1. Raised({n}, 0) = {n} /\ Raised({n}, 1) = {n + 1} /\ Raised({n}, 2) = {n + 2}
      /\ Raised({n}, 7) = {n + 7}
  BY DEF Raised
<1>2. PICK a, b, c, d : a = n /\ b = n + 1 /\ c = n + 2 /\ d = n + 7
  OBVIOUS
<1>3. a # b /\ a # c /\ a # d /\ b # c /\ b # d /\ c # d
  BY <1>2
<1>4. Xor(Xor(Xor({a}, {b}), {c}), {d}) = {a, b, c, d}
  BY <1>3 DEF Xor
<1> QED BY <1>1, <1>2, <1>4 DEF Spread, Four

LEMMA FoldOnceOfBit ==
  ASSUME NEW n \in Nat
  PROVE  /\ n < 128 => FoldOnce({n}) = {n}
         /\ n >= 128 => FoldOnce({n}) = Four(n - 128)
<1>1. CASE n < 128
  <2>1. Low({n}) = {n} /\ High({n}) = {}
    BY <1>1 DEF Low, High
  <2>2. FoldOnce({n}) = Xor({n}, {})
    BY <2>1, SpreadOfNone, FoldOnceIs
  <2>3. Xor({n}, {}) = {n}
    BY XorLaws
  <2> QED BY <1>1, <2>2, <2>3
<1>2. CASE n >= 128
  <2>1. Low({n}) = {} /\ High({n}) = {n - 128} /\ n - 128 \in Nat
    BY <1>2 DEF Low, High
  <2>2. Spread({n - 128}) = Four(n - 128)
    BY <2>1, SpreadOfBit
  <2>3. FoldOnce({n}) = Xor({}, Four(n - 128))
    BY <2>1, <2>2, FoldOnceIs
  <2>4. Xor({}, Four(n - 128)) = Four(n - 128)
    BY XorLaws
  <2> QED BY <1>2, <2>3, <2>4
<1> QED BY <1>1, <1>2

LEMMA FoldOnceOfBlock ==
  ASSUME NEW a \in SUBSET Bits
  PROVE  FoldOnce(a) = a
<1>1. Low(a) = a /\ High(a) = {}
  BY DEF Low, High, Bits
<1>2. FoldOnce(a) = Xor(a, {})
  BY <1>1, SpreadOfNone, FoldOnceIs
<1>3. Xor(a, {}) = a
  BY XorLaws
<1> QED BY <1>2, <1>3

LEMMA FoldOnceType ==
  /\ \A p \in SUBSET (0..254) : FoldOnce(p) \in SUBSET (0..133)
  /\ \A p \in SUBSET (0..133) : FoldOnce(p) \in SUBSET Bits
<1>1. ASSUME NEW n \in 133..254, NEW p \in SUBSET (0..n), NEW m \in {127, 133}, m = 127 => n = 133
      PROVE  FoldOnce(p) \in SUBSET (0..m)
  <2>1. m \in Nat /\ m >= 127 /\ n - 128 <= m - 7
    BY <1>1
  <2>2. Low(p) \in SUBSET (0..m)
    <3>1. \A x \in p : x \in Nat
      OBVIOUS
    <3>2. ASSUME NEW x \in Low(p) PROVE x \in 0..m
      <4>1. x \in Nat /\ x < 128
        BY <3>1 DEF Low
      <4> QED BY <2>1, <4>1
    <3> QED BY <3>2
  <2>3. High(p) \in SUBSET (0..m - 7)
    BY <2>1 DEF High
  <2>4. /\ Raised(High(p), 0) \in SUBSET (0..m) /\ Raised(High(p), 1) \in SUBSET (0..m)
        /\ Raised(High(p), 2) \in SUBSET (0..m) /\ Raised(High(p), 7) \in SUBSET (0..m)
    BY <2>1, <2>3 DEF Raised
  <2>5. Spread(High(p)) \in SUBSET (0..m)
    BY <2>4, SpreadType
  <2>6. Xor(Low(p), Spread(High(p))) \in SUBSET (0..m)
    BY <2>2, <2>5, XorType
  <2> QED BY <2>6, FoldOnceIs
<1>2. ASSUME NEW p \in SUBSET (0..254) PROVE FoldOnce(p) \in SUBSET (0..133)
  <2>1. 254 \in 133..254 /\ 133 \in {127, 133} /\ 133 # 127
    OBVIOUS
  <2> QED BY <1>1, <2>1
<1>3. ASSUME NEW p \in SUBSET (0..133) PROVE FoldOnce(p) \in SUBSET Bits
  <2>1. 133 \in 133..254 /\ 127 \in {127, 133}
    OBVIOUS
  <2> QED BY <1>1, <2>1 DEF Bits
<1> QED BY <1>2, <1>3

-----------------------------------------------------------------------------
(* Powers of x: the remainders of single bits.                             *)

LEMMA ShiftedType ==
  ASSUME NEW v \in SUBSET Bits
  PROVE  Shifted(v) \in SUBSET Bits
<1>1. {i + 1 : i \in v \ {127}} \in SUBSET Bits
  BY DEF Bits
<1>2. {0, 1, 2, 7} \in SUBSET Bits
  BY DEF Bits
<1> QED BY <1>1, <1>2, XorType DEF Shifted

LEMMA ShiftedXor ==
  ASSUME NEW v \in SUBSET Bits, NEW w \in SUBSET Bits
  PROVE  Shifted(Xor(v, w)) = Xor(Shifted(v), Shifted(w))
<1> DEFINE C(u) == {i + 1 : i \in u \ {127}}
           R(u) == IF 127 \in u THEN {0, 1, 2, 7} ELSE {}
<1>1. ASSUME NEW u \in SUBSET Bits PROVE Shifted(u) = Xor(C(u), R(u))
  BY XorLaws DEF Shifted
<1>2. Xor(v, w) \in SUBSET Bits
  BY XorType
<1>3. C(Xor(v, w)) = Xor(C(v), C(w))
  <2>1. ASSUME NEW u \in SUBSET Bits, NEW x
        PROVE  x \in C(u) <=> x \in 1..127 /\ x - 1 \in u
    <3>1. \A i \in u : i \in Bits
      OBVIOUS
    <3>2. x \in C(u) => x \in 1..127 /\ x - 1 \in u
      BY <3>1 DEF Bits
    <3>3. x \in 1..127 /\ x - 1 \in u => x \in C(u)
      <4> SUFFICES ASSUME x \in 1..127, x - 1 \in u PROVE x \in C(u)
        OBVIOUS
      <4>1. x - 1 \in u \ {127} /\ x = (x - 1) + 1
        OBVIOUS
      <4> QED BY <4>1
    <3> QED BY <3>2, <3>3
  <2> HIDE DEF C
  <2>2. \A x : x \in C(Xor(v, w)) <=> x \in Xor(C(v), C(w))
    BY <1>2, <2>1, InXor
  <2> QED BY <2>2
<1>4. R(Xor(v, w)) = Xor(R(v), R(w))
  <2>1. PICK z : z = {0, 1, 2, 7}
    OBVIOUS
  <2>2. Xor(z, {}) = z /\ Xor({}, z) = z /\ Xor(z, z) = {} /\ Xor({}, {}) = {}
    BY XorLaws
  <2>3. \A u : (127 \in u => R(u) = z) /\ (127 \notin u => R(u) = {})
    BY <2>1
  <2>4. 127 \in Xor(v, w) <=> ~(127 \in v <=> 127 \in w)
    BY InXor
  <2> HIDE DEF R
  <2>5. CASE 127 \in v /\ 127 \in w
    BY <2>2, <2>3, <2>4, <2>5
  <2>6. CASE 127 \in v /\ 127 \notin w
    BY <2>2, <2>3, <2>4, <2>6
  <2>7. CASE 127 \notin v /\ 127 \in w
    BY <2>2, <2>3, <2>4, <2>7
  <2>8. CASE 127 \notin v /\ 127 \notin w
    BY <2>2, <2>3, <2>4, <2>8
  <2> QED BY <2>5, <2>6, <2>7, <2>8
<1> HIDE DEF C, R
<1>5. PICK cv, cw, rv, rw : cv = C(v) /\ cw = C(w) /\ rv = R(v) /\ rw = R(w)
  OBVIOUS
<1>6. Xor(Xor(cv, cw), Xor(rv, rw)) = Xor(Xor(cv, rv), Xor(cw, rw))
  BY XorLaws
<1>7. Shifted(Xor(v, w)) = Xor(C(Xor(v, w)), R(Xor(v, w)))
  BY <1>1, <1>2
<1>8. Shifted(v) = Xor(cv, rv) /\ Shifted(w) = Xor(cw, rw)
  BY <1>1, <1>5
<1> QED BY <1>3, <1>4, <1>5, <1>6, <1>7, <1>8

LEMMA ShiftedOfBit ==
  ASSUME NEW i \in Bits
  PROVE  /\ i < 127 => Shifted({i}) = {i + 1}
         /\ i = 127 => Shifted({i}) = Four(0)
<1>1. CASE i < 127
  BY <1>1 DEF Shifted
<1>2. CASE i = 127
  <2>1. {k + 1 : k \in {i} \ {127}} = {}
    BY <1>2
  <2>2. Shifted({i}) = Xor({}, {0, 1, 2, 7})
    BY <1>2, <2>1 DEF Shifted
  <2>3. Xor({}, {0, 1, 2, 7}) = {0, 1, 2, 7}
    BY XorLaws
  <2> QED BY <1>2, <2>2, <2>3 DEF Four
<1> QED BY <1>1, <1>2 DEF Bits

\* Four bits, as the sum of each.
LEMMA FourIsSum ==
  ASSUME NEW n \in Nat
  PROVE  Four(n) = Xor(Xor({n}, {n + 1}), Xor({n + 2}, {n + 7}))
<1>2. PICK a, b, c, d : a = n /\ b = n + 1 /\ c = n + 2 /\ d = n + 7
  OBVIOUS
<1>3. a # b /\ a # c /\ a # d /\ b # c /\ b # d /\ c # d
  BY <1>2
<1>4. Xor(Xor({a}, {b}), Xor({c}, {d})) = {a, b, c, d}
  BY <1>3 DEF Xor
<1> QED BY <1>2, <1>4 DEF Four

LEMMA FoldOnceOfFour ==
  ASSUME NEW n \in Nat
  PROVE  FoldOnce(Four(n)) = Xor(Xor(FoldOnce({n}), FoldOnce({n + 1})),
                                 Xor(FoldOnce({n + 2}), FoldOnce({n + 7})))
<1>1. PICK a \in SUBSET Nat, b \in SUBSET Nat, c \in SUBSET Nat, d \in SUBSET Nat :
        a = {n} /\ b = {n + 1} /\ c = {n + 2} /\ d = {n + 7}
  <2>1. /\ {n} \in SUBSET Nat /\ {n + 1} \in SUBSET Nat
        /\ {n + 2} \in SUBSET Nat /\ {n + 7} \in SUBSET Nat
    OBVIOUS
  <2> QED BY <2>1
<1>2. PICK p, q : p = Xor(a, b) /\ q = Xor(c, d)
  OBVIOUS
<1>3. p \in SUBSET Nat /\ q \in SUBSET Nat
  <2>1. ASSUME NEW S, a \in SUBSET S, b \in SUBSET S, c \in SUBSET S, d \in SUBSET S
        PROVE  p \in SUBSET S /\ q \in SUBSET S
    BY <1>2, <2>1, XorType
  <2> QED BY <2>1
<1>4. FoldOnce(Xor(p, q)) = Xor(FoldOnce(p), FoldOnce(q))
  BY <1>3, FoldOnceXor
<1>5. FoldOnce(Xor(a, b)) = Xor(FoldOnce(a), FoldOnce(b))
  BY FoldOnceXor
<1>6. FoldOnce(Xor(c, d)) = Xor(FoldOnce(c), FoldOnce(d))
  BY FoldOnceXor
<1>7. Four(n) = Xor(p, q)
  BY <1>1, <1>2, FourIsSum
<1>8. FoldOnce(Four(n)) = Xor(Xor(FoldOnce(a), FoldOnce(b)), Xor(FoldOnce(c), FoldOnce(d)))
  BY <1>2, <1>4, <1>5, <1>6, <1>7
<1> QED BY <1>1, <1>8

LEMMA ShiftedOfFour ==
  ASSUME NEW a \in SUBSET Bits, NEW b \in SUBSET Bits, NEW c \in SUBSET Bits, NEW d \in SUBSET Bits
  PROVE  Shifted(Xor(Xor(a, b), Xor(c, d)))
           = Xor(Xor(Shifted(a), Shifted(b)), Xor(Shifted(c), Shifted(d)))
<1>1. Xor(a, b) \in SUBSET Bits /\ Xor(c, d) \in SUBSET Bits
  BY XorType
<1> QED BY <1>1, ShiftedXor

\* The next power of x, while one fold is enough.
LEMMA FoldedOnceShifted ==
  ASSUME NEW n \in 0..140
  PROVE  FoldOnce({n}) \in SUBSET Bits /\ Shifted(FoldOnce({n})) = FoldOnce({n + 1})
<1>1. CASE n < 127
  <2>1. n \in Nat /\ n + 1 \in Nat /\ n < 128 /\ n + 1 < 128 /\ n \in Bits
    BY <1>1 DEF Bits
  <2>2. FoldOnce({n}) = {n} /\ FoldOnce({n + 1}) = {n + 1}
    BY <2>1, FoldOnceOfBit
  <2> QED BY <1>1, <2>1, <2>2, ShiftedOfBit
<1>2. CASE n = 127
  <2>1. FoldOnce({127}) = {127} /\ FoldOnce({127 + 1}) = Four((127 + 1) - 128)
    <3>1. 127 \in Nat /\ 127 + 1 \in Nat /\ 127 < 128 /\ 127 + 1 >= 128
      OBVIOUS
    <3> QED BY <3>1, FoldOnceOfBit
  <2>2. 127 \in Bits /\ (127 + 1) - 128 = 0
    BY DEF Bits
  <2>3. Shifted({127}) = Four(0)
    BY <2>2, ShiftedOfBit
  <2> QED BY <1>2, <2>1, <2>2, <2>3
<1>3. CASE n > 127
  <2>1. PICK m \in 0..12 : m = n - 128 /\ n = m + 128
    <3>1. n - 128 \in 0..12 /\ n = (n - 128) + 128
      BY <1>3
    <3> QED BY <3>1
  <2>2. FoldOnce({n}) = Four(m)
    BY <1>3, <2>1, FoldOnceOfBit
  <2>3. FoldOnce({n + 1}) = Four(m + 1)
    <3>1. n + 1 \in Nat /\ n + 1 >= 128 /\ (n + 1) - 128 = m + 1
      BY <2>1
    <3> QED BY <3>1, FoldOnceOfBit
  <2>4. Four(m) \in SUBSET Bits /\ 127 \notin Four(m)
    BY DEF Four, Bits
  <2>5. Shifted(Four(m)) = {i + 1 : i \in Four(m)}
    BY <2>4 DEF Shifted
  <2>6. {i + 1 : i \in Four(m)} = {m + 1, (m + 1) + 1, (m + 2) + 1, (m + 7) + 1}
    BY DEF Four
  <2>7. (m + 2) + 1 = (m + 1) + 2 /\ (m + 7) + 1 = (m + 1) + 7
    OBVIOUS
  <2>8. Shifted(Four(m)) = Four(m + 1)
    BY <2>5, <2>6, <2>7 DEF Four
  <2> QED BY <2>2, <2>3, <2>4, <2>8
<1> QED BY <1>1, <1>2, <1>3

\* x^n, for the coefficients of a product.
Power_x(n) == FoldOnce(FoldOnce({n}))

LEMMA PowersOfX ==
  /\ \A n \in 0..254 : Power_x(n) \in SUBSET Bits
  /\ \A n \in Bits : Power_x(n) = {n}
  /\ \A n \in 0..254 : Power_x(n + 1) = Shifted(Power_x(n))
  /\ \A m \in Bits : Power_x(m + 128) = Xor(Xor(Power_x(m), Power_x(m + 1)),
                                            Xor(Power_x(m + 2), Power_x(m + 7)))
<1>1. ASSUME NEW n \in 0..254 PROVE Power_x(n) \in SUBSET Bits
  <2>1. FoldOnce({n}) \in SUBSET (0..133)
    <3>1. {n} \in SUBSET (0..254)
      OBVIOUS
    <3> QED BY <3>1, FoldOnceType
  <2> QED BY <2>1, FoldOnceType DEF Power_x
<1>2. ASSUME NEW n \in Bits PROVE Power_x(n) = {n}
  <2>1. {n} \in SUBSET Bits
    OBVIOUS
  <2> QED BY <2>1, FoldOnceOfBlock DEF Power_x
<1>3. ASSUME NEW n \in 128..255, NEW m \in 0..127, n = m + 128
      PROVE  Power_x(n) = Xor(Xor(FoldOnce({m}), FoldOnce({m + 1})),
                              Xor(FoldOnce({m + 2}), FoldOnce({m + 7})))
  <2>1. FoldOnce({n}) = Four(m)
    <3>1. n \in Nat /\ n >= 128 /\ n - 128 = m
      BY <1>3
    <3> QED BY <3>1, FoldOnceOfBit
  <2> QED BY <2>1, FoldOnceOfFour DEF Power_x
<1>4. ASSUME NEW n \in 0..254 PROVE Power_x(n + 1) = Shifted(Power_x(n))
  <2>1. CASE n < 127
    <3>1. n \in Bits /\ n + 1 \in Bits
      BY <2>1 DEF Bits
    <3> QED BY <1>2, <2>1, <3>1, ShiftedOfBit
  <2>2. CASE n = 127
    <3>1. 127 \in Bits /\ 127 + 1 \in Nat /\ 127 + 1 >= 128 /\ (127 + 1) - 128 = 0
      BY DEF Bits
    <3>2. Power_x(127) = {127} /\ Shifted({127}) = Four(0)
      BY <1>2, <3>1, ShiftedOfBit
    <3>3. FoldOnce({127 + 1}) = Four(0)
      BY <3>1, FoldOnceOfBit
    <3>4. Four(0) \in SUBSET Bits
      BY DEF Four, Bits
    <3>5. Power_x(127 + 1) = Four(0)
      BY <3>3, <3>4, FoldOnceOfBlock DEF Power_x
    <3> QED BY <2>2, <3>2, <3>5
  <2>3. CASE n > 127
    <3>1. PICK m \in 0..126 : n = m + 128
      <4>1. n - 128 \in 0..126 /\ n = (n - 128) + 128
        BY <2>3
      <4> QED BY <4>1
    <3>2. Power_x(n) = Xor(Xor(FoldOnce({m}), FoldOnce({m + 1})),
                           Xor(FoldOnce({m + 2}), FoldOnce({m + 7})))
      <4>1. n \in 128..255 /\ m \in 0..127
        BY <3>1
      <4> QED BY <1>3, <3>1, <4>1
    <3>3. Power_x(n + 1) = Xor(Xor(FoldOnce({m + 1}), FoldOnce({(m + 1) + 1})),
                               Xor(FoldOnce({(m + 1) + 2}), FoldOnce({(m + 1) + 7})))
      <4>1. PICK n2 \in 128..255, m2 \in 0..127 : n2 = n + 1 /\ m2 = m + 1 /\ n2 = m2 + 128
        BY <3>1
      <4>2. Power_x(n2) = Xor(Xor(FoldOnce({m2}), FoldOnce({m2 + 1})),
                              Xor(FoldOnce({m2 + 2}), FoldOnce({m2 + 7})))
        BY <1>3, <4>1
      <4> QED BY <4>1, <4>2
    <3>4. /\ m \in 0..140 /\ m + 1 \in 0..140 /\ m + 2 \in 0..140 /\ m + 7 \in 0..140
          /\ (m + 2) + 1 = (m + 1) + 2 /\ (m + 7) + 1 = (m + 1) + 7
      OBVIOUS
    <3>5. /\ FoldOnce({m}) \in SUBSET Bits /\ FoldOnce({m + 1}) \in SUBSET Bits
          /\ FoldOnce({m + 2}) \in SUBSET Bits /\ FoldOnce({m + 7}) \in SUBSET Bits
      BY <3>4, FoldedOnceShifted
    <3>6. /\ Shifted(FoldOnce({m})) = FoldOnce({m + 1})
          /\ Shifted(FoldOnce({m + 1})) = FoldOnce({(m + 1) + 1})
          /\ Shifted(FoldOnce({m + 2})) = FoldOnce({(m + 2) + 1})
          /\ Shifted(FoldOnce({m + 7})) = FoldOnce({(m + 7) + 1})
      BY <3>4, FoldedOnceShifted
    <3>7. Shifted(Power_x(n)) = Xor(Xor(FoldOnce({m + 1}), FoldOnce({(m + 1) + 1})),
                                    Xor(FoldOnce({(m + 2) + 1}), FoldOnce({(m + 7) + 1})))
      <4>1. PICK a \in SUBSET Bits, b \in SUBSET Bits, c \in SUBSET Bits, d \in SUBSET Bits :
              /\ a = FoldOnce({m}) /\ b = FoldOnce({m + 1})
              /\ c = FoldOnce({m + 2}) /\ d = FoldOnce({m + 7})
        BY <3>5
      <4>2. Shifted(Xor(Xor(a, b), Xor(c, d)))
              = Xor(Xor(Shifted(a), Shifted(b)), Xor(Shifted(c), Shifted(d)))
        BY ShiftedOfFour
      <4>3. Power_x(n) = Xor(Xor(a, b), Xor(c, d))
        BY <3>2, <4>1
      <4> QED BY <3>6, <4>1, <4>2, <4>3
    <3> QED BY <3>3, <3>4, <3>7
  <2> QED BY <2>1, <2>2, <2>3
<1>5. ASSUME NEW m \in Bits
      PROVE  Power_x(m + 128) = Xor(Xor(Power_x(m), Power_x(m + 1)),
                                    Xor(Power_x(m + 2), Power_x(m + 7)))
  <2>1. PICK n \in 128..255 : n = m + 128
    BY DEF Bits
  <2>2. m \in 0..140 /\ m + 1 \in 0..140 /\ m + 2 \in 0..140 /\ m + 7 \in 0..140 /\ m \in 0..127
    BY DEF Bits
  <2>3. \A k \in 0..140 : Power_x(k) = FoldOnce({k})
    BY FoldedOnceShifted, FoldOnceOfBlock DEF Power_x
  <2>4. Power_x(n) = Xor(Xor(FoldOnce({m}), FoldOnce({m + 1})),
                         Xor(FoldOnce({m + 2}), FoldOnce({m + 7})))
    BY <1>3, <2>1, <2>2
  <2>5. /\ Power_x(m) = FoldOnce({m}) /\ Power_x(m + 1) = FoldOnce({m + 1})
        /\ Power_x(m + 2) = FoldOnce({m + 2}) /\ Power_x(m + 7) = FoldOnce({m + 7})
    BY <2>2, <2>3
  <2> QED BY <2>1, <2>4, <2>5
<1> QED BY <1>1, <1>2, <1>4, <1>5

-----------------------------------------------------------------------------
(* The product of GF(2^128), in the order of the polynomial.               *)

Mul(a, b) == FoldOnce(FoldOnce(Product(a, b, 127)))

LEMMA MulType == \A a, b : Mul(a, b) \in SUBSET Bits
<1> SUFFICES ASSUME NEW a, NEW b PROVE Mul(a, b) \in SUBSET Bits
  OBVIOUS
<1>1. Product(a, b, 127) \in SUBSET (0..254)
  <2>1. 127 \in Nat /\ 2 * 127 = 254
    OBVIOUS
  <2> QED BY <2>1, ProductType
<1> QED BY <1>1, FoldOnceType DEF Mul

LEMMA MulXor ==
  \A a, b, c \in SUBSET Bits :
      /\ Mul(Xor(a, b), c) = Xor(Mul(a, c), Mul(b, c))
      /\ Mul(c, Xor(a, b)) = Xor(Mul(c, a), Mul(c, b))
<1>1. ASSUME NEW p \in SUBSET (0..254), NEW q \in SUBSET (0..254)
      PROVE  FoldOnce(FoldOnce(Xor(p, q))) = Xor(FoldOnce(FoldOnce(p)), FoldOnce(FoldOnce(q)))
  <2>1. PICK u, v : u = FoldOnce(p) /\ v = FoldOnce(q)
    OBVIOUS
  <2>2. u \in SUBSET (0..133) /\ v \in SUBSET (0..133)
    BY <2>1, FoldOnceType
  <2>3. p \in SUBSET Nat /\ q \in SUBSET Nat /\ u \in SUBSET Nat /\ v \in SUBSET Nat
    BY <2>2
  <2>4. FoldOnce(Xor(p, q)) = Xor(u, v)
    BY <2>1, <2>3, FoldOnceXor
  <2>5. FoldOnce(Xor(u, v)) = Xor(FoldOnce(u), FoldOnce(v))
    BY <2>3, FoldOnceXor
  <2> QED BY <2>1, <2>4, <2>5
<1>2. \A a, b : Product(a, b, 127) \in SUBSET (0..254)
  <2>1. 127 \in Nat /\ 2 * 127 = 254
    OBVIOUS
  <2> QED BY <2>1, ProductType
<1> SUFFICES ASSUME NEW a \in SUBSET Bits, NEW b \in SUBSET Bits, NEW c \in SUBSET Bits
             PROVE  /\ Mul(Xor(a, b), c) = Xor(Mul(a, c), Mul(b, c))
                    /\ Mul(c, Xor(a, b)) = Xor(Mul(c, a), Mul(c, b))
  OBVIOUS
<1>3. /\ Product(Xor(a, b), c, 127) = Xor(Product(a, c, 127), Product(b, c, 127))
      /\ Product(c, Xor(a, b), 127) = Xor(Product(c, a, 127), Product(c, b, 127))
  <2>1. 127 \in Nat /\ Bits = 0..127
    BY DEF Bits
  <2> QED BY <2>1, ProductXor
<1>4. PICK p \in SUBSET (0..254), q \in SUBSET (0..254), u \in SUBSET (0..254), v \in SUBSET (0..254) :
        /\ p = Product(a, c, 127) /\ q = Product(b, c, 127)
        /\ u = Product(c, a, 127) /\ v = Product(c, b, 127)
  BY <1>2
<1>5. FoldOnce(FoldOnce(Xor(p, q))) = Xor(FoldOnce(FoldOnce(p)), FoldOnce(FoldOnce(q)))
  BY <1>1
<1>6. FoldOnce(FoldOnce(Xor(u, v))) = Xor(FoldOnce(FoldOnce(u)), FoldOnce(FoldOnce(v)))
  BY <1>1
<1> QED BY <1>3, <1>4, <1>5, <1>6 DEF Mul

LEMMA MulOfBits == \A i, j \in Bits : Mul({i}, {j}) = Power_x(i + j)
<1> SUFFICES ASSUME NEW i \in Bits, NEW j \in Bits PROVE Mul({i}, {j}) = Power_x(i + j)
  OBVIOUS
<1>1. 127 \in Nat /\ i \in 0..127 /\ j \in 0..127
  BY DEF Bits
<1>2. Product({i}, {j}, 127) = {i + j}
  BY <1>1, ProductOfBits
<1> QED BY <1>2 DEF Mul, Power_x

LEMMA MulOfNone == \A a : Mul({}, a) = {} /\ Mul(a, {}) = {}
<1>1. \A a : Product({}, a, 127) = {} /\ Product(a, {}, 127) = {}
  <2>1. 127 \in Nat
    OBVIOUS
  <2> QED BY <2>1, ProductOfNone
<1>2. FoldOnce({}) = {}
  BY FoldOnceOfBlock
<1> QED BY <1>1, <1>2 DEF Mul

\* Linear functions of two blocks; they are the same when they agree on
\* single bits.
Bilinear(f) ==
  \A a, b, c \in SUBSET Bits : /\ f[Xor(a, b)][c] = Xor(f[a][c], f[b][c])
                               /\ f[c][Xor(a, b)] = Xor(f[c][a], f[c][b])

Agree(f, g) == \A i, j \in Bits : f[{i}][{j}] = g[{i}][{j}]

LEMMA OfPairs ==
  ASSUME NEW f, Bilinear(f), NEW a \in SUBSET Bits, NEW b \in SUBSET Bits, NEW c \in SUBSET Bits
  PROVE  /\ f[Xor(a, b)][c] = Xor(f[a][c], f[b][c])
         /\ f[c][Xor(a, b)] = Xor(f[c][a], f[c][b])
BY DEF Bilinear

LEMMA SameOnPairs ==
  ASSUME NEW f, NEW g, Bilinear(f), Bilinear(g),
         Agree(f, g),
         NEW a \in SUBSET Bits, NEW b \in SUBSET Bits
  PROVE  f[a][b] = g[a][b]
<1>0. \A x, y \in SUBSET Bits : Xor(x, y) \in SUBSET Bits
  BY XorType
<1>1. ASSUME NEW i \in Bits PROVE f[{i}][b] = g[{i}][b]
  <2>1. PICK u : u = [x \in SUBSET Bits |-> f[{i}][x]]
    OBVIOUS
  <2>2. PICK v : v = [x \in SUBSET Bits |-> g[{i}][x]]
    OBVIOUS
  <2>3. \A x \in SUBSET Bits : u[x] = f[{i}][x] /\ v[x] = g[{i}][x]
    BY <2>1, <2>2
  <2>4. {i} \in SUBSET Bits /\ \A j \in Bits : {j} \in SUBSET Bits
    OBVIOUS
  <2>5. Linear(u) /\ Linear(v)
    <3> SUFFICES ASSUME NEW x \in SUBSET Bits, NEW y \in SUBSET Bits
                 PROVE  u[Xor(x, y)] = Xor(u[x], u[y]) /\ v[Xor(x, y)] = Xor(v[x], v[y])
      BY DEF Linear
    <3>1. PICK w \in SUBSET Bits, z \in SUBSET Bits : w = {i} /\ z = Xor(x, y)
      BY <1>0, <2>4
    <3>2. f[w][Xor(x, y)] = Xor(f[w][x], f[w][y])
      BY OfPairs
    <3>3. g[w][Xor(x, y)] = Xor(g[w][x], g[w][y])
      BY OfPairs
    <3>4. u[z] = f[w][z] /\ v[z] = g[w][z]
      BY <2>3, <3>1
    <3>5. u[x] = f[w][x] /\ v[x] = g[w][x] /\ u[y] = f[w][y] /\ v[y] = g[w][y]
      BY <2>3, <3>1
    <3> QED BY <3>1, <3>2, <3>3, <3>4, <3>5
  <2>6. \A j \in Bits : u[{j}] = v[{j}]
    BY <2>3, <2>4 DEF Agree
  <2>7. u[b] = v[b]
    BY <2>5, <2>6, SameOnBits
  <2> QED BY <2>3, <2>7
<1>2. PICK u : u = [x \in SUBSET Bits |-> f[x][b]]
  OBVIOUS
<1>3. PICK v : v = [x \in SUBSET Bits |-> g[x][b]]
  OBVIOUS
<1>4. \A x \in SUBSET Bits : u[x] = f[x][b] /\ v[x] = g[x][b]
  BY <1>2, <1>3
<1>5. Linear(u) /\ Linear(v)
  <2> SUFFICES ASSUME NEW x \in SUBSET Bits, NEW y \in SUBSET Bits
               PROVE  u[Xor(x, y)] = Xor(u[x], u[y]) /\ v[Xor(x, y)] = Xor(v[x], v[y])
    BY DEF Linear
  <2>1. PICK z \in SUBSET Bits : z = Xor(x, y)
    BY <1>0
  <2>2. f[Xor(x, y)][b] = Xor(f[x][b], f[y][b])
    BY OfPairs
  <2>3. g[Xor(x, y)][b] = Xor(g[x][b], g[y][b])
    BY OfPairs
  <2>4. u[z] = f[z][b] /\ v[z] = g[z][b]
    BY <1>4
  <2>5. u[x] = f[x][b] /\ v[x] = g[x][b] /\ u[y] = f[y][b] /\ v[y] = g[y][b]
    BY <1>4
  <2> QED BY <2>1, <2>2, <2>3, <2>4, <2>5
<1>6. \A i \in Bits : u[{i}] = v[{i}]
  <2>1. \A i \in Bits : {i} \in SUBSET Bits
    OBVIOUS
  <2> QED BY <1>1, <1>4, <2>1
<1>7. u[a] = v[a]
  BY <1>5, <1>6, SameOnBits
<1> QED BY <1>4, <1>7

LEMMA MulCommutes == \A a, b \in SUBSET Bits : Mul(a, b) = Mul(b, a)
<1> SUFFICES ASSUME NEW a \in SUBSET Bits, NEW b \in SUBSET Bits PROVE Mul(a, b) = Mul(b, a)
  OBVIOUS
<1>1. PICK f : f = [x \in SUBSET Bits |-> [y \in SUBSET Bits |-> Mul(x, y)]]
  OBVIOUS
<1>2. PICK g : g = [x \in SUBSET Bits |-> [y \in SUBSET Bits |-> Mul(y, x)]]
  OBVIOUS
<1>3. \A x, y \in SUBSET Bits : f[x][y] = Mul(x, y) /\ g[x][y] = Mul(y, x)
  BY <1>1, <1>2
<1>4. \A x, y \in SUBSET Bits : Xor(x, y) \in SUBSET Bits
  BY XorType
<1>5. Bilinear(f) /\ Bilinear(g)
  BY <1>3, <1>4, MulXor DEF Bilinear
<1>6. Agree(f, g)
  <2> SUFFICES ASSUME NEW i \in Bits, NEW j \in Bits PROVE f[{i}][{j}] = g[{i}][{j}]
    BY DEF Agree
  <2>1. {i} \in SUBSET Bits /\ {j} \in SUBSET Bits /\ i + j = j + i
    BY DEF Bits
  <2>2. Mul({i}, {j}) = Power_x(i + j) /\ Mul({j}, {i}) = Power_x(j + i)
    BY MulOfBits
  <2> QED BY <1>3, <2>1, <2>2
<1>7. f[a][b] = g[a][b]
  BY <1>5, <1>6, SameOnPairs
<1> QED BY <1>3, <1>7

\* x times a, times b.
LEMMA MulShifted ==
  \A a, b \in SUBSET Bits : Mul(Shifted(a), b) = Shifted(Mul(a, b))
<1> SUFFICES ASSUME NEW a \in SUBSET Bits, NEW b \in SUBSET Bits
             PROVE  Mul(Shifted(a), b) = Shifted(Mul(a, b))
  OBVIOUS
<1>1. PICK f : f = [x \in SUBSET Bits |-> [y \in SUBSET Bits |-> Mul(Shifted(x), y)]]
  OBVIOUS
<1>2. PICK g : g = [x \in SUBSET Bits |-> [y \in SUBSET Bits |-> Shifted(Mul(x, y))]]
  OBVIOUS
<1>3. \A x, y \in SUBSET Bits : f[x][y] = Mul(Shifted(x), y) /\ g[x][y] = Shifted(Mul(x, y))
  BY <1>1, <1>2
<1>4. \A x, y \in SUBSET Bits : Xor(x, y) \in SUBSET Bits /\ Shifted(x) \in SUBSET Bits
                                /\ Mul(x, y) \in SUBSET Bits
  BY XorType, ShiftedType, MulType
<1>5. Bilinear(f)
  <2> SUFFICES ASSUME NEW x \in SUBSET Bits, NEW y \in SUBSET Bits, NEW z \in SUBSET Bits
               PROVE  /\ f[Xor(x, y)][z] = Xor(f[x][z], f[y][z])
                      /\ f[z][Xor(x, y)] = Xor(f[z][x], f[z][y])
    BY DEF Bilinear
  <2>1. Shifted(Xor(x, y)) = Xor(Shifted(x), Shifted(y))
    BY ShiftedXor
  <2>2. PICK u \in SUBSET Bits, v \in SUBSET Bits, w \in SUBSET Bits, p \in SUBSET Bits :
          u = Shifted(x) /\ v = Shifted(y) /\ w = Shifted(z) /\ p = Xor(x, y)
    BY <1>4
  <2>3. Mul(Xor(u, v), z) = Xor(Mul(u, z), Mul(v, z))
    BY MulXor
  <2>4. Mul(w, Xor(x, y)) = Xor(Mul(w, x), Mul(w, y))
    BY MulXor
  <2>5. f[p][z] = Mul(Shifted(p), z) /\ f[z][p] = Mul(w, p)
    BY <1>3, <2>2
  <2>6. f[x][z] = Mul(u, z) /\ f[y][z] = Mul(v, z) /\ f[z][x] = Mul(w, x) /\ f[z][y] = Mul(w, y)
    BY <1>3, <2>2
  <2> QED BY <2>1, <2>2, <2>3, <2>4, <2>5, <2>6
<1>6. Bilinear(g)
  <2> SUFFICES ASSUME NEW x \in SUBSET Bits, NEW y \in SUBSET Bits, NEW z \in SUBSET Bits
               PROVE  /\ g[Xor(x, y)][z] = Xor(g[x][z], g[y][z])
                      /\ g[z][Xor(x, y)] = Xor(g[z][x], g[z][y])
    BY DEF Bilinear
  <2>1. Shifted(Xor(Mul(x, z), Mul(y, z))) = Xor(Shifted(Mul(x, z)), Shifted(Mul(y, z)))
    BY <1>4, ShiftedXor
  <2>2. Shifted(Xor(Mul(z, x), Mul(z, y))) = Xor(Shifted(Mul(z, x)), Shifted(Mul(z, y)))
    BY <1>4, ShiftedXor
  <2>3. Mul(Xor(x, y), z) = Xor(Mul(x, z), Mul(y, z)) /\ Mul(z, Xor(x, y)) = Xor(Mul(z, x), Mul(z, y))
    BY MulXor
  <2> QED BY <1>3, <1>4, <2>1, <2>2, <2>3
<1>7. ASSUME NEW i \in Bits, NEW j \in Bits PROVE f[{i}][{j}] = g[{i}][{j}]
  <2>1. {i} \in SUBSET Bits /\ {j} \in SUBSET Bits /\ i + j \in 0..254
    BY DEF Bits
  <2>2. g[{i}][{j}] = Power_x(i + j + 1)
    <3>1. Mul({i}, {j}) = Power_x(i + j)
      BY MulOfBits
    <3>2. Power_x(i + j + 1) = Shifted(Power_x(i + j))
      BY <2>1, PowersOfX
    <3> QED BY <1>3, <2>1, <3>1, <3>2
  <2>3. CASE i < 127
    <3>1. Shifted({i}) = {i + 1} /\ i + 1 \in Bits /\ (i + 1) + j = i + j + 1
      <4>1. Shifted({i}) = {i + 1}
        BY <2>3, ShiftedOfBit
      <4>2. i + 1 \in Bits /\ (i + 1) + j = i + j + 1
        BY <2>3 DEF Bits
      <4> QED BY <4>1, <4>2
    <3>2. Mul({i + 1}, {j}) = Power_x((i + 1) + j)
      BY <3>1, MulOfBits
    <3>3. f[{i}][{j}] = Mul(Shifted({i}), {j})
      BY <1>3, <2>1
    <3> QED BY <2>2, <3>1, <3>2, <3>3
  <2>4. CASE i = 127
    <3>1. Shifted({i}) = Four(0)
      BY <2>4, ShiftedOfBit
    <3>2. Four(0) = Xor(Xor({0}, {1}), Xor({2}, {7}))
      <4>1. 0 \in Nat /\ 0 + 1 = 1 /\ 0 + 2 = 2 /\ 0 + 7 = 7
        OBVIOUS
      <4> QED BY <4>1, FourIsSum
    <3>3. PICK p \in SUBSET Bits, q \in SUBSET Bits, r \in SUBSET Bits, s \in SUBSET Bits, t \in SUBSET Bits :
            p = {0} /\ q = {1} /\ r = {2} /\ s = {7} /\ t = {j}
      <4>1. {0} \in SUBSET Bits /\ {1} \in SUBSET Bits /\ {2} \in SUBSET Bits /\ {7} \in SUBSET Bits
        BY DEF Bits
      <4> QED BY <2>1, <4>1
    <3>4. Mul(Xor(Xor(p, q), Xor(r, s)), t) = Xor(Xor(Mul(p, t), Mul(q, t)), Xor(Mul(r, t), Mul(s, t)))
      <4>1. PICK u \in SUBSET Bits, v \in SUBSET Bits : u = Xor(p, q) /\ v = Xor(r, s)
        BY <1>4
      <4>2. Mul(Xor(u, v), t) = Xor(Mul(u, t), Mul(v, t))
        BY MulXor
      <4>3. Mul(Xor(p, q), t) = Xor(Mul(p, t), Mul(q, t))
        BY MulXor
      <4>4. Mul(Xor(r, s), t) = Xor(Mul(r, t), Mul(s, t))
        BY MulXor
      <4> QED BY <4>1, <4>2, <4>3, <4>4
    <3>5. /\ Mul(p, t) = Power_x(j) /\ Mul(q, t) = Power_x(j + 1)
          /\ Mul(r, t) = Power_x(j + 2) /\ Mul(s, t) = Power_x(j + 7)
      <4>1. 0 \in Bits /\ 1 \in Bits /\ 2 \in Bits /\ 7 \in Bits
        BY DEF Bits
      <4>2. 0 + j = j /\ 1 + j = j + 1 /\ 2 + j = j + 2 /\ 7 + j = j + 7
        BY DEF Bits
      <4> QED BY <3>3, <4>1, <4>2, MulOfBits
    <3>6. Power_x(j + 128) = Xor(Xor(Power_x(j), Power_x(j + 1)), Xor(Power_x(j + 2), Power_x(j + 7)))
      BY PowersOfX
    <3>7. f[{i}][{j}] = Mul(Shifted({i}), {j}) /\ j + 128 = i + j + 1
      <4>1. j + 128 = i + j + 1
        BY <2>4 DEF Bits
      <4> QED BY <1>3, <2>1, <4>1
    <3>8. Mul(Shifted({i}), {j}) = Power_x(j + 128)
      BY <3>1, <3>2, <3>3, <3>4, <3>5, <3>6
    <3> QED BY <2>2, <3>7, <3>8
  <2> QED BY <2>3, <2>4 DEF Bits
<1>8. f[a][b] = g[a][b]
  <2>1. Agree(f, g)
    BY <1>7 DEF Agree
  <2> QED BY <1>5, <1>6, <2>1, SameOnPairs
<1> QED BY <1>3, <1>8

LEMMA MulOne == \A a \in SUBSET Bits : Mul({0}, a) = a
<1> SUFFICES ASSUME NEW a \in SUBSET Bits PROVE Mul({0}, a) = a
  OBVIOUS
<1>1. PICK f : f = [x \in SUBSET Bits |-> Mul({0}, x)]
  OBVIOUS
<1>2. PICK g : g = [x \in SUBSET Bits |-> x]
  OBVIOUS
<1>3. \A x \in SUBSET Bits : f[x] = Mul({0}, x) /\ g[x] = x
  BY <1>1, <1>2
<1>4. /\ {0} \in SUBSET Bits
      /\ \A x, y \in SUBSET Bits : Xor(x, y) \in SUBSET Bits
  <2>1. {0} \in SUBSET Bits
    BY DEF Bits
  <2> QED BY <2>1, XorType
<1>5. Linear(f) /\ Linear(g)
  BY <1>3, <1>4, MulXor DEF Linear
<1>6. ASSUME NEW i \in Bits PROVE f[{i}] = g[{i}]
  <2>1. Mul({0}, {i}) = Power_x(i) /\ {i} \in SUBSET Bits
    <3>1. 0 \in Bits /\ 0 + i = i
      BY DEF Bits
    <3> QED BY <3>1, MulOfBits
  <2> QED BY <1>3, <2>1, PowersOfX
<1>7. f[a] = g[a]
  BY <1>5, <1>6, SameOnBits
<1> QED BY <1>3, <1>7

LEMMA MulAssociates ==
  \A a, b, c \in SUBSET Bits : Mul(Mul(a, b), c) = Mul(a, Mul(b, c))
<1> SUFFICES ASSUME NEW a \in SUBSET Bits, NEW b \in SUBSET Bits, NEW c \in SUBSET Bits
             PROVE  Mul(Mul(a, b), c) = Mul(a, Mul(b, c))
  OBVIOUS
<1>1. PICK f : f = [x \in SUBSET Bits |-> Mul(Mul(x, b), c)]
  OBVIOUS
<1>2. PICK g : g = [x \in SUBSET Bits |-> Mul(x, Mul(b, c))]
  OBVIOUS
<1>3. \A x \in SUBSET Bits : f[x] = Mul(Mul(x, b), c) /\ g[x] = Mul(x, Mul(b, c))
  BY <1>1, <1>2
<1>4. \A x, y \in SUBSET Bits : Xor(x, y) \in SUBSET Bits /\ Mul(x, y) \in SUBSET Bits
  BY XorType, MulType
<1>5. Linear(f) /\ Linear(g)
  <2> SUFFICES ASSUME NEW x \in SUBSET Bits, NEW y \in SUBSET Bits
               PROVE  f[Xor(x, y)] = Xor(f[x], f[y]) /\ g[Xor(x, y)] = Xor(g[x], g[y])
    BY DEF Linear
  <2>1. PICK z \in SUBSET Bits, w \in SUBSET Bits, u \in SUBSET Bits, v \in SUBSET Bits :
          z = Xor(x, y) /\ w = Mul(b, c) /\ u = Mul(x, b) /\ v = Mul(y, b)
    BY <1>4
  <2>2. Mul(Xor(x, y), b) = Xor(Mul(x, b), Mul(y, b))
    BY MulXor
  <2>3. Mul(Xor(u, v), c) = Xor(Mul(u, c), Mul(v, c))
    BY MulXor
  <2>4. Mul(Xor(x, y), w) = Xor(Mul(x, w), Mul(y, w))
    BY MulXor
  <2>5. f[z] = Mul(Mul(z, b), c) /\ g[z] = Mul(z, w)
    BY <1>3, <2>1
  <2>6. f[x] = Mul(u, c) /\ g[x] = Mul(x, w) /\ f[y] = Mul(v, c) /\ g[y] = Mul(y, w)
    BY <1>3, <2>1
  <2> QED BY <2>1, <2>2, <2>3, <2>4, <2>5, <2>6
<1> DEFINE S == {n \in Nat : n \in Bits => f[{n}] = g[{n}]}
<1>6. 0 \in S
  <2>1. {0} \in SUBSET Bits
    BY DEF Bits
  <2>2. Mul({0}, b) = b /\ Mul({0}, Mul(b, c)) = Mul(b, c)
    BY <1>4, MulOne
  <2>3. f[{0}] = g[{0}]
    BY <1>3, <2>1, <2>2
  <2> QED BY <2>3
<1>7. ASSUME NEW n \in Nat, n \in S PROVE n + 1 \in S
  <2> SUFFICES ASSUME n + 1 \in Bits PROVE f[{n + 1}] = g[{n + 1}]
    OBVIOUS
  <2>1. n \in Bits /\ n < 127 /\ {n} \in SUBSET Bits /\ {n + 1} \in SUBSET Bits
    BY DEF Bits
  <2>2. f[{n}] = g[{n}]
    BY <1>7, <2>1
  <2>3. Shifted({n}) = {n + 1}
    BY <2>1, ShiftedOfBit
  <2>4. Mul({n + 1}, b) = Shifted(Mul({n}, b))
    BY <2>1, <2>3, MulShifted
  <2>5. Mul(Shifted(Mul({n}, b)), c) = Shifted(Mul(Mul({n}, b), c))
    BY <1>4, <2>1, MulShifted
  <2>6. Mul({n + 1}, Mul(b, c)) = Shifted(Mul({n}, Mul(b, c)))
    BY <1>4, <2>1, <2>3, MulShifted
  <2> QED BY <1>3, <2>1, <2>2, <2>4, <2>5, <2>6
<1>8. \A i \in Bits : f[{i}] = g[{i}]
  <2>1. Nat \subseteq S
    <3> HIDE DEF S
    <3> QED BY <1>6, <1>7, SetInduction
  <2> QED BY <2>1 DEF Bits
<1>9. f[a] = g[a]
  BY <1>5, <1>8, SameOnBits
<1> QED BY <1>3, <1>9

LEMMA TimesIsMul ==
  \A a, b : Times(a, b) = vrbitq_u8(Mul(vrbitq_u8(a), vrbitq_u8(b)))
BY DEF Times, Mul

LEMMA TimesLaws ==
  /\ \A a, b \in SUBSET Bits : Times(a, b) \in SUBSET Bits /\ Times(a, b) = Times(b, a)
  /\ \A a, b, c \in SUBSET Bits :
        /\ Times(Times(a, b), c) = Times(a, Times(b, c))
        /\ Times(Xor(a, b), c) = Xor(Times(a, c), Times(b, c))
  /\ \A a : Times({}, a) = {}
<1>1. \A a \in SUBSET Bits : vrbitq_u8(a) \in SUBSET Bits /\ vrbitq_u8(vrbitq_u8(a)) = a
  BY Reversed
<1>2. \A a, b \in SUBSET Bits : Times(a, b) \in SUBSET Bits /\ Times(a, b) = Times(b, a)
  BY <1>1, TimesIsMul, MulType, MulCommutes
<1>3. ASSUME NEW a \in SUBSET Bits, NEW b \in SUBSET Bits, NEW c \in SUBSET Bits
      PROVE  /\ Times(Times(a, b), c) = Times(a, Times(b, c))
             /\ Times(Xor(a, b), c) = Xor(Times(a, c), Times(b, c))
  <2>1. PICK p \in SUBSET Bits, q \in SUBSET Bits, r \in SUBSET Bits :
          p = vrbitq_u8(a) /\ q = vrbitq_u8(b) /\ r = vrbitq_u8(c)
    BY <1>1
  <2>2. PICK u \in SUBSET Bits, v \in SUBSET Bits : u = Mul(p, q) /\ v = Mul(q, r)
    BY MulType
  <2>3. vrbitq_u8(Times(a, b)) = u /\ vrbitq_u8(Times(b, c)) = v
    BY <1>1, <2>1, <2>2, TimesIsMul
  <2>4. Mul(u, r) = Mul(p, v)
    BY <2>2, MulAssociates
  <2>5. Times(Times(a, b), c) = vrbitq_u8(Mul(u, r)) /\ Times(a, Times(b, c)) = vrbitq_u8(Mul(p, v))
    BY <2>1, <2>3, TimesIsMul
  <2>6. vrbitq_u8(Xor(a, b)) = Xor(p, q)
    BY <2>1, Reversed
  <2>7. Times(Xor(a, b), c) = vrbitq_u8(Mul(Xor(p, q), r))
    BY <2>1, <2>6, TimesIsMul
  <2>8. Mul(Xor(p, q), r) = Xor(Mul(p, r), Mul(q, r))
    BY MulXor
  <2>9. vrbitq_u8(Xor(Mul(p, r), Mul(q, r))) = Xor(vrbitq_u8(Mul(p, r)), vrbitq_u8(Mul(q, r)))
    BY MulType, Reversed
  <2>10. Times(a, c) = vrbitq_u8(Mul(p, r)) /\ Times(b, c) = vrbitq_u8(Mul(q, r))
    BY <2>1, TimesIsMul
  <2> QED BY <2>4, <2>5, <2>7, <2>8, <2>9, <2>10
<1>4. ASSUME NEW a PROVE Times({}, a) = {}
  <2>1. vrbitq_u8({}) = {}
    BY DEF vrbitq_u8
  <2> QED BY <2>1, TimesIsMul, MulOfNone
<1> QED BY <1>2, <1>3, <1>4

-----------------------------------------------------------------------------
(* The bit loop of the GPU.                                                *)

\* Its rounds: x^i times the block.
Rounds(v, b) == \A i \in Bits : v[i + 1] = Mul({i}, b)
FirstRounds(v, n, b) == Len(v) = n + 1 /\ \A i \in 0..n : v[i + 1] = Mul({i}, b)

LEMMA LoopRounds ==
  ASSUME NEW b \in SUBSET Bits
  PROVE  \E v : /\ Rounds(v, vrbitq_u8(b))
                /\ \A a : gf_mul_64(a, b) =
                     vrbitq_u8({k \in Bits : Odd({i \in vrbitq_u8(a) : k \in v[i + 1]})})
<1> DEFINE Eq(f) == f = [i \in Bits |-> IF i = 0 THEN <<vrbitq_u8(b)>> ELSE WithNext(f[i - 1])]
<1>0. PICK c \in SUBSET Bits : c = vrbitq_u8(b)
  BY Reversed
<1> DEFINE T == {s \in Seq(SUBSET Bits) : Len(s) \in Nat \ {0}}
<1>1. PICK F : F = [x \in Nat \X T |-> WithNext(x[2])]
  OBVIOUS
<1>2. \A i \in Nat, s \in T : F[<<i, s>>] = WithNext(s)
  BY <1>1
<1>3. ASSUME NEW s \in T
      PROVE  /\ WithNext(s) \in T /\ Len(WithNext(s)) = Len(s) + 1
             /\ \A i \in 1..Len(s) : WithNext(s)[i] = s[i]
             /\ WithNext(s)[Len(s) + 1] = Shifted(s[Len(s)])
  <2>1. PICK x \in SUBSET Bits : x = Shifted(s[Len(s)])
    <3>1. s[Len(s)] \in SUBSET Bits
      OBVIOUS
    <3> QED BY <3>1, ShiftedType
  <2>2. s \in Seq(SUBSET Bits) /\ Len(s) \in Nat \ {0}
    OBVIOUS
  <2>3. Append(s, x) \in Seq(SUBSET Bits) /\ Len(Append(s, x)) = Len(s) + 1
    BY <2>2, AppendProperties
  <2>4. (\A i \in 1..Len(s) : Append(s, x)[i] = s[i]) /\ Append(s, x)[Len(s) + 1] = x
    BY <2>2, AppendProperties
  <2>5. WithNext(s) = Append(s, x)
    BY <2>1 DEF WithNext
  <2> QED BY <2>1, <2>2, <2>3, <2>4, <2>5
<1>4. <<c>> \in T /\ Len(<<c>>) = 1 /\ <<c>>[1] = c
  OBVIOUS
<1> HIDE DEF T
<1>5. PICK f \in [0..127 -> T] : Follow(f, 127, <<c>>, F)
  <2>1. \A i \in Nat, s \in T : F[<<i, s>>] \in T
    BY <1>2, <1>3
  <2>2. 127 \in Nat
    OBVIOUS
  <2> QED BY <1>4, <2>1, <2>2, Recursion
<1>6. f[0] = <<c>> /\ \A i \in 1..127 : f[i] = WithNext(f[i - 1])
  <2>1. \A i \in 1..127 : i \in Nat /\ i - 1 \in 0..127
    OBVIOUS
  <2>2. \A i \in 1..127 : f[i - 1] \in T
    BY <2>1
  <2> QED BY <1>2, <1>5, <2>1, <2>2 DEF Follow
<1>7. Eq(f)
  <2>1. f = [i \in Bits |-> f[i]]
    BY DEF Bits
  <2>2. \A i \in Bits : f[i] = IF i = 0 THEN <<vrbitq_u8(b)>> ELSE WithNext(f[i - 1])
    BY <1>0, <1>6 DEF Bits
  <2>3. PICK h : h = [i \in Bits |-> IF i = 0 THEN <<vrbitq_u8(b)>> ELSE WithNext(f[i - 1])]
    OBVIOUS
  <2>4. \A i \in Bits : h[i] = f[i]
    BY <2>2, <2>3
  <2>5. h = [i \in Bits |-> h[i]]
    BY <2>3
  <2>6. h = f
    BY <2>1, <2>4, <2>5
  <2> QED BY <2>3, <2>6
<1>8. PICK g : g = CHOOSE x : Eq(x)
  OBVIOUS
<1>9. Eq(g)
  BY <1>7, <1>8
<1>10. g[0] = <<c>> /\ \A i \in 1..127 : g[i] = WithNext(g[i - 1])
  <2>1. PICK h : h = [i \in Bits |-> IF i = 0 THEN <<vrbitq_u8(b)>> ELSE WithNext(g[i - 1])]
    OBVIOUS
  <2>2. h[0] = <<c>> /\ \A i \in 1..127 : h[i] = WithNext(g[i - 1])
    BY <1>0, <2>1 DEF Bits
  <2>3. g = h
    BY <1>9, <2>1
  <2> QED BY <2>2, <2>3
<1>11. \A a : gf_mul_64(a, b) =
                vrbitq_u8({k \in Bits : Odd({i \in vrbitq_u8(a) : k \in g[127][i + 1]})})
  BY <1>8 DEF gf_mul_64, Odd
<1> HIDE DEF Eq
<1> DEFINE S == {n \in Nat : n \in Bits => g[n] \in T /\ FirstRounds(g[n], n, c)}
<1>12. 0 \in S
  <2>1. g[0] \in T /\ Len(g[0]) = 1 /\ g[0][1] = c
    BY <1>4, <1>10
  <2>2. Mul({0}, c) = c
    BY MulOne
  <2>3. \A i \in 0..0 : g[0][i + 1] = Mul({i}, c)
    <3>1. \A i \in 0..0 : i = 0 /\ i + 1 = 1
      OBVIOUS
    <3> QED BY <2>1, <2>2, <3>1
  <2>4. FirstRounds(g[0], 0, c)
    BY <2>1, <2>3 DEF FirstRounds
  <2> QED BY <2>1, <2>4
<1>13. ASSUME NEW n \in Nat, n \in S PROVE n + 1 \in S
  <2> SUFFICES ASSUME n + 1 \in Bits
               PROVE  g[n + 1] \in T /\ FirstRounds(g[n + 1], n + 1, c)
    OBVIOUS
  <2>1. n \in Bits /\ n < 127 /\ n + 1 \in 1..127 /\ (n + 1) - 1 = n
    BY DEF Bits
  <2>2. PICK s \in T : s = g[n] /\ Len(s) = n + 1 /\ \A i \in 0..n : s[i + 1] = Mul({i}, c)
    BY <1>13, <2>1 DEF FirstRounds
  <2>3. g[n + 1] = WithNext(s)
    BY <1>10, <2>1, <2>2
  <2>4. g[n + 1] \in T /\ Len(g[n + 1]) = (n + 1) + 1
    BY <1>3, <2>2, <2>3
  <2>5. ASSUME NEW i \in 0..n + 1 PROVE g[n + 1][i + 1] = Mul({i}, c)
    <3>1. CASE i \in 0..n
      <4>1. i + 1 \in 1..Len(s)
        <5>1. i + 1 \in 1..n + 1
          BY <3>1
        <5> QED BY <2>2, <5>1
      <4>2. g[n + 1][i + 1] = s[i + 1]
        BY <1>3, <2>3, <4>1
      <4> QED BY <2>2, <3>1, <4>2
    <3>2. CASE i = n + 1
      <4>1. g[n + 1][(n + 1) + 1] = Shifted(s[n + 1])
        BY <1>3, <2>2, <2>3
      <4>2. s[n + 1] = Mul({n}, c)
        <5>1. n \in 0..n
          OBVIOUS
        <5> QED BY <2>2, <5>1
      <4>3. Shifted(Mul({n}, c)) = Mul(Shifted({n}), c)
        <5>1. {n} \in SUBSET Bits
          BY <2>1
        <5> QED BY <5>1, MulShifted
      <4>4. Shifted({n}) = {n + 1}
        BY <2>1, ShiftedOfBit
      <4> QED BY <3>2, <4>1, <4>2, <4>3, <4>4
    <3> QED BY <3>1, <3>2
  <2> QED BY <2>4, <2>5 DEF FirstRounds
<1>14. Rounds(g[127], c)
  <2>1. Nat \subseteq S
    <3> HIDE DEF S
    <3> QED BY <1>12, <1>13, SetInduction
  <2>2. 127 \in Nat /\ 127 \in Bits
    BY DEF Bits
  <2>3. \A i \in 0..127 : g[127][i + 1] = Mul({i}, c)
    BY <2>1, <2>2 DEF FirstRounds
  <2> QED BY <2>3 DEF Rounds, Bits
<1> QED BY <1>0, <1>11, <1>14

\* The bit loop of the GPU (gf_mul_64 of parallel_gcm.cu) multiplies any two
\* blocks in GF(2^128) in the representation of GCM.
THEOREM LoopMultiplies == \A a, b \in SUBSET Bits : gf_mul_64(a, b) = Times(a, b)
<1> SUFFICES ASSUME NEW a \in SUBSET Bits, NEW b \in SUBSET Bits
             PROVE  gf_mul_64(a, b) = Times(a, b)
  OBVIOUS
<1>1. PICK c \in SUBSET Bits, d \in SUBSET Bits : c = vrbitq_u8(a) /\ d = vrbitq_u8(b)
  BY Reversed
<1>2. PICK v : /\ Rounds(v, d)
               /\ gf_mul_64(a, b) = vrbitq_u8({k \in Bits : Odd({i \in c : k \in v[i + 1]})})
  BY <1>1, LoopRounds
<1> DEFINE At(x, k) == {i \in x : k \in v[i + 1]}
           Sum(x) == {k \in Bits : Odd(At(x, k))}
<1>3. PICK f : f = [x \in SUBSET Bits |-> Sum(x)]
  OBVIOUS
<1>4. PICK g : g = [x \in SUBSET Bits |-> Mul(x, d)]
  OBVIOUS
<1>5. \A x \in SUBSET Bits : f[x] = Sum(x) /\ g[x] = Mul(x, d)
  BY <1>3, <1>4
<1>6. ASSUME NEW x \in SUBSET Bits, NEW y \in SUBSET Bits PROVE Sum(Xor(x, y)) = Xor(Sum(x), Sum(y))
  <2>1. ASSUME NEW k \in Bits PROVE Odd(At(Xor(x, y), k)) <=> ~(Odd(At(x, k)) <=> Odd(At(y, k)))
    <3>1. At(Xor(x, y), k) = Xor(At(x, k), At(y, k))
      BY DEF Xor
    <3>2. At(x, k) \in SUBSET Bits /\ At(y, k) \in SUBSET Bits
      OBVIOUS
    <3>3. IsFiniteSet(Bits)
      <4>1. 0 \in Int /\ 127 \in Int
        OBVIOUS
      <4> QED BY <4>1, FS_Interval DEF Bits
    <3> HIDE DEF At
    <3> QED BY <3>1, <3>2, <3>3, OddXor
  <2> HIDE DEF At
  <2>2. \A k : k \in Sum(Xor(x, y)) <=> k \in Xor(Sum(x), Sum(y))
    BY <2>1, InXor
  <2> HIDE DEF Sum
  <2> QED BY <2>2
<1>7. ASSUME NEW i \in Bits PROVE Sum({i}) = Mul({i}, d)
  <2>1. v[i + 1] = Mul({i}, d) /\ Mul({i}, d) \in SUBSET Bits
    BY <1>2, MulType DEF Rounds
  <2>2. ASSUME NEW k \in Bits PROVE Odd(At({i}, k)) <=> k \in v[i + 1]
    <3>1. CASE k \in v[i + 1]
      <4>1. At({i}, k) = {i}
        BY <3>1
      <4> QED BY <3>1, <4>1, OddFew
    <3>2. CASE k \notin v[i + 1]
      <4>1. At({i}, k) = {}
        BY <3>2
      <4> QED BY <3>2, <4>1, OddFew
    <3> QED BY <3>1, <3>2
  <2> HIDE DEF At
  <2> QED BY <2>1, <2>2
<1> HIDE DEF Sum
<1>8. Linear(f) /\ Linear(g)
  <2> SUFFICES ASSUME NEW x \in SUBSET Bits, NEW y \in SUBSET Bits
               PROVE  f[Xor(x, y)] = Xor(f[x], f[y]) /\ g[Xor(x, y)] = Xor(g[x], g[y])
    BY DEF Linear
  <2>1. PICK z \in SUBSET Bits : z = Xor(x, y)
    BY XorType
  <2>2. Mul(Xor(x, y), d) = Xor(Mul(x, d), Mul(y, d))
    BY MulXor
  <2>3. f[z] = Sum(z) /\ g[z] = Mul(z, d)
    BY <1>5
  <2> QED BY <1>5, <1>6, <2>1, <2>2, <2>3
<1>9. \A i \in Bits : f[{i}] = g[{i}]
  <2>1. \A i \in Bits : {i} \in SUBSET Bits
    OBVIOUS
  <2> QED BY <1>5, <1>7, <2>1
<1>10. f[c] = g[c]
  BY <1>8, <1>9, SameOnBits
<1>11. Sum(c) = Mul(c, d)
  BY <1>5, <1>10
<1>12. gf_mul_64(a, b) = vrbitq_u8(Sum(c))
  BY <1>2 DEF Sum
<1> QED BY <1>1, <1>11, <1>12, TimesIsMul

-----------------------------------------------------------------------------
(* Words of 64 bits.                                                       *)

Word == 0..63

LEMMA LaneLaws ==
  /\ \A v, i : Lane(v, i) \in SUBSET Word
  /\ \A v, w, i : Lane(Xor(v, w), i) = Xor(Lane(v, i), Lane(w, i))
  /\ \A i : Lane({}, i) = {}
<1>1. \A v, i, k : k \in Lane(v, i) <=> k \in Word /\ 64 * i + k \in v
  BY DEF Lane, Word
<1>2. ASSUME NEW v, NEW w, NEW i PROVE Lane(Xor(v, w), i) = Xor(Lane(v, i), Lane(w, i))
  <2>1. \A k : k \in Lane(Xor(v, w), i) <=> k \in Xor(Lane(v, i), Lane(w, i))
    BY <1>1, InXor
  <2> QED BY <2>1
<1> QED BY <1>1, <1>2

LEMMA InShl ==
  ASSUME NEW w \in SUBSET Word, NEW n \in Nat
  PROVE  Shl(w, n) \in SUBSET Word /\ \A k \in Word : k \in Shl(w, n) <=> k >= n /\ k - n \in w
<1>1. \A i \in w : i \in 0..63
  BY DEF Word
<1>2. Shl(w, n) \in SUBSET Word
  BY <1>1 DEF Shl, Word
<1>3. ASSUME NEW k \in Word PROVE k \in Shl(w, n) <=> k >= n /\ k - n \in w
  <2>1. k \in Shl(w, n) => k >= n /\ k - n \in w
    BY <1>1 DEF Shl
  <2>2. ASSUME k >= n, k - n \in w PROVE k \in Shl(w, n)
    <3>1. k = (k - n) + n /\ (k - n) + n < 64
      BY DEF Word
    <3> QED BY <2>2, <3>1 DEF Shl
  <2> QED BY <2>1, <2>2
<1> QED BY <1>2, <1>3

LEMMA InShr ==
  ASSUME NEW w \in SUBSET Word, NEW n \in Nat
  PROVE  Shr(w, n) \in SUBSET Word /\ \A k \in Word : k \in Shr(w, n) <=> k + n \in w
<1>1. \A i \in w : i \in 0..63
  BY DEF Word
<1>2. Shr(w, n) \in SUBSET Word
  BY <1>1 DEF Shr, Word
<1>3. ASSUME NEW k \in Word PROVE k \in Shr(w, n) <=> k + n \in w
  <2>0. k \in 0..63
    BY DEF Word
  <2>1. k \in Shr(w, n) => k + n \in w
    BY <1>1 DEF Shr
  <2>2. ASSUME k + n \in w PROVE k \in Shr(w, n)
    <3>1. k = (k + n) - n /\ k + n >= n
      BY <2>0
    <3> QED BY <2>2, <3>1 DEF Shr
  <2> QED BY <2>1, <2>2
<1> QED BY <1>2, <1>3

LEMMA FoldedIs == \A z : Folded(z) = Xor(Xor(Xor(z, Shl(z, 1)), Shl(z, 2)), Shl(z, 7))
BY XorAll4 DEF Folded

LEMMA CarriedIs == \A z : Carried(z) = Xor(Xor(Shr(z, 63), Shr(z, 62)), Shr(z, 57))
BY XorAll3 DEF Carried

LEMMA InFolded ==
  ASSUME NEW z \in SUBSET Word, NEW k \in Word
  PROVE  k \in Folded(z) <=> ~(~(~(k \in z <=> (k >= 1 /\ k - 1 \in z))
                                   <=> (k >= 2 /\ k - 2 \in z))
                                 <=> (k >= 7 /\ k - 7 \in z))
<1>1. /\ k \in Shl(z, 1) <=> k >= 1 /\ k - 1 \in z
      /\ k \in Shl(z, 2) <=> k >= 2 /\ k - 2 \in z
      /\ k \in Shl(z, 7) <=> k >= 7 /\ k - 7 \in z
  BY InShl
<1>2. k \in Folded(z) <=> ~(~(~(k \in z <=> k \in Shl(z, 1)) <=> k \in Shl(z, 2)) <=> k \in Shl(z, 7))
  BY FoldedIs, InXor
<1> QED BY <1>1, <1>2

LEMMA InCarried ==
  ASSUME NEW z \in SUBSET Word, NEW k \in Word
  PROVE  k \in Carried(z) <=> ~(~(k + 63 \in z <=> k + 62 \in z) <=> k + 57 \in z)
<1>1. /\ k \in Shr(z, 63) <=> k + 63 \in z
      /\ k \in Shr(z, 62) <=> k + 62 \in z
      /\ k \in Shr(z, 57) <=> k + 57 \in z
  BY InShr
<1>2. k \in Carried(z) <=> ~(~(k \in Shr(z, 63) <=> k \in Shr(z, 62)) <=> k \in Shr(z, 57))
  BY CarriedIs, InXor
<1> QED BY <1>1, <1>2

LEMMA FoldedType ==
  ASSUME NEW z \in SUBSET Word
  PROVE  Folded(z) \in SUBSET Word /\ Carried(z) \in SUBSET Word
<1>1. PICK a \in SUBSET Word, b \in SUBSET Word, c \in SUBSET Word :
        a = Shl(z, 1) /\ b = Shl(z, 2) /\ c = Shl(z, 7)
  BY InShl
<1>2. PICK u \in SUBSET Word, v \in SUBSET Word, w \in SUBSET Word :
        u = Shr(z, 63) /\ v = Shr(z, 62) /\ w = Shr(z, 57)
  BY InShr
<1>3. Xor(z, a) \in SUBSET Word /\ Xor(u, v) \in SUBSET Word
  BY XorType
<1>4. Xor(Xor(z, a), b) \in SUBSET Word
  BY <1>3, XorType
<1>5. Xor(Xor(Xor(z, a), b), c) \in SUBSET Word /\ Xor(Xor(u, v), w) \in SUBSET Word
  BY <1>3, <1>4, XorType
<1> QED BY <1>1, <1>2, <1>5, FoldedIs, CarriedIs

LEMMA FoldedXor ==
  ASSUME NEW y \in SUBSET Word, NEW z \in SUBSET Word
  PROVE  /\ Folded(Xor(y, z)) = Xor(Folded(y), Folded(z))
         /\ Carried(Xor(y, z)) = Xor(Carried(y), Carried(z))
<1>1. PICK x \in SUBSET Word : x = Xor(y, z) /\ \A k : k \in x <=> ~(k \in y <=> k \in z)
  BY XorType, InXor
<1>2. PICK f \in SUBSET Word, g \in SUBSET Word, h \in SUBSET Word :
        f = Folded(x) /\ g = Folded(y) /\ h = Folded(z)
  BY FoldedType
<1>3. PICK u \in SUBSET Word, v \in SUBSET Word, w \in SUBSET Word :
        u = Carried(x) /\ v = Carried(y) /\ w = Carried(z)
  BY FoldedType
<1>4. ASSUME NEW k \in Word PROVE k \in f <=> ~(k \in g <=> k \in h)
  <2>1. k \in Folded(x) <=> ~(~(~(k \in x <=> (k >= 1 /\ k - 1 \in x))
                                   <=> (k >= 2 /\ k - 2 \in x)) <=> (k >= 7 /\ k - 7 \in x))
    BY InFolded
  <2>2. k \in Folded(y) <=> ~(~(~(k \in y <=> (k >= 1 /\ k - 1 \in y))
                                   <=> (k >= 2 /\ k - 2 \in y)) <=> (k >= 7 /\ k - 7 \in y))
    BY InFolded
  <2>3. k \in Folded(z) <=> ~(~(~(k \in z <=> (k >= 1 /\ k - 1 \in z))
                                   <=> (k >= 2 /\ k - 2 \in z)) <=> (k >= 7 /\ k - 7 \in z))
    BY InFolded
  <2>4. /\ k \in x <=> ~(k \in y <=> k \in z)
        /\ k - 1 \in x <=> ~(k - 1 \in y <=> k - 1 \in z)
        /\ k - 2 \in x <=> ~(k - 2 \in y <=> k - 2 \in z)
        /\ k - 7 \in x <=> ~(k - 7 \in y <=> k - 7 \in z)
    BY <1>1
  <2> QED BY <1>2, <2>1, <2>2, <2>3, <2>4
<1>5. ASSUME NEW k \in Word PROVE k \in u <=> ~(k \in v <=> k \in w)
  <2>1. k \in Carried(x) <=> ~(~(k + 63 \in x <=> k + 62 \in x) <=> k + 57 \in x)
    BY InCarried
  <2>2. k \in Carried(y) <=> ~(~(k + 63 \in y <=> k + 62 \in y) <=> k + 57 \in y)
    BY InCarried
  <2>3. k \in Carried(z) <=> ~(~(k + 63 \in z <=> k + 62 \in z) <=> k + 57 \in z)
    BY InCarried
  <2>4. /\ k + 63 \in x <=> ~(k + 63 \in y <=> k + 63 \in z)
        /\ k + 62 \in x <=> ~(k + 62 \in y <=> k + 62 \in z)
        /\ k + 57 \in x <=> ~(k + 57 \in y <=> k + 57 \in z)
    BY <1>1
  <2> QED BY <1>3, <2>1, <2>2, <2>3, <2>4
<1>6. \A k : k \in f <=> k \in Xor(g, h)
  BY <1>4, InXor
<1>7. \A k : k \in u <=> k \in Xor(v, w)
  BY <1>5, InXor
<1>8. f = Xor(g, h) /\ u = Xor(v, w)
  BY <1>6, <1>7
<1> QED BY <1>1, <1>2, <1>3, <1>8

LEMMA InRaised ==
  ASSUME NEW p \in SUBSET Nat, NEW n \in Nat, NEW k \in Nat
  PROVE  k \in Raised(p, n) <=> k >= n /\ k - n \in p
<1>1. \A i \in p : i \in Nat
  OBVIOUS
<1>2. k \in Raised(p, n) => k >= n /\ k - n \in p
  BY <1>1 DEF Raised
<1>3. ASSUME k >= n, k - n \in p PROVE k \in Raised(p, n)
  <2>1. k = (k - n) + n
    OBVIOUS
  <2> QED BY <1>3, <2>1 DEF Raised
<1> QED BY <1>2, <1>3

LEMMA InSpread ==
  ASSUME NEW p \in SUBSET Nat, NEW k \in Nat
  PROVE  k \in Spread(p) <=> ~(~(~(k \in p <=> (k >= 1 /\ k - 1 \in p))
                                   <=> (k >= 2 /\ k - 2 \in p))
                                 <=> (k >= 7 /\ k - 7 \in p))
<1>1. /\ k \in Raised(p, 0) <=> k >= 0 /\ k - 0 \in p
      /\ k \in Raised(p, 1) <=> k >= 1 /\ k - 1 \in p
      /\ k \in Raised(p, 2) <=> k >= 2 /\ k - 2 \in p
      /\ k \in Raised(p, 7) <=> k >= 7 /\ k - 7 \in p
  BY InRaised
<1>2. k >= 0 /\ k - 0 = k
  OBVIOUS
<1>3. k \in Spread(p) <=> ~(~(~(k \in Raised(p, 0) <=> k \in Raised(p, 1))
                               <=> k \in Raised(p, 2)) <=> k \in Raised(p, 7))
  BY InXor DEF Spread
<1> QED BY <1>1, <1>2, <1>3

\* A spread word by word: what stays in a word and what is carried to the next.
LEMMA SpreadWords ==
  ASSUME NEW p \in SUBSET Bits
  PROVE  /\ Lane(Spread(p), 0) = Folded(Lane(p, 0))
         /\ Lane(Spread(p), 1) = Xor(Carried(Lane(p, 0)), Folded(Lane(p, 1)))
         /\ Lane(Spread(p), 2) = Carried(Lane(p, 1))
         /\ Lane(Spread(p), 3) = {}
<1>1. PICK q : q = Spread(p)
  OBVIOUS
<1>2. p \in SUBSET Nat /\ \A k \in p : k \in 0..127
  BY DEF Bits
<1>3. \A k \in Nat : k \in q <=> ~(~(~(k \in p <=> (k >= 1 /\ k - 1 \in p))
                                   <=> (k >= 2 /\ k - 2 \in p)) <=> (k >= 7 /\ k - 7 \in p))
  BY <1>1, <1>2, InSpread
<1>4. PICK u \in SUBSET Word, v \in SUBSET Word : u = Lane(p, 0) /\ v = Lane(p, 1)
  BY LaneLaws
<1>5. \A k \in Word : (k \in u <=> k \in p) /\ (k \in v <=> k + 64 \in p)
  BY <1>4 DEF Lane, Word
<1>6. \A k \in Word : /\ k \in Lane(q, 0) <=> k \in q
                      /\ k \in Lane(q, 1) <=> k + 64 \in q
                      /\ k \in Lane(q, 2) <=> k + 128 \in q
                      /\ k \in Lane(q, 3) <=> k + 192 \in q
  BY DEF Lane, Word
<1>7. /\ Lane(q, 0) \in SUBSET Word /\ Lane(q, 1) \in SUBSET Word
      /\ Lane(q, 2) \in SUBSET Word /\ Lane(q, 3) \in SUBSET Word
  BY LaneLaws
<1>8. /\ Folded(u) \in SUBSET Word /\ Carried(u) \in SUBSET Word
      /\ Folded(v) \in SUBSET Word /\ Carried(v) \in SUBSET Word
  BY FoldedType
<1>9. ASSUME NEW k \in Word PROVE k \in Lane(q, 0) <=> k \in Folded(u)
  <2>1. k \in Folded(u) <=> ~(~(~(k \in u <=> (k >= 1 /\ k - 1 \in u))
                                   <=> (k >= 2 /\ k - 2 \in u)) <=> (k >= 7 /\ k - 7 \in u))
    BY InFolded
  <2>2. /\ k \in u <=> k \in p
        /\ k >= 1 => (k - 1 \in u <=> k - 1 \in p)
        /\ k >= 2 => (k - 2 \in u <=> k - 2 \in p)
        /\ k >= 7 => (k - 7 \in u <=> k - 7 \in p)
    BY <1>5 DEF Word
  <2>3. k \in q <=> ~(~(~(k \in p <=> (k >= 1 /\ k - 1 \in p))
                                   <=> (k >= 2 /\ k - 2 \in p)) <=> (k >= 7 /\ k - 7 \in p))
    BY <1>3 DEF Word
  <2>4. k \in Lane(q, 0) <=> k \in q
    BY <1>6
  <2> QED BY <2>1, <2>2, <2>3, <2>4
<1>10. ASSUME NEW k \in Word PROVE k \in Lane(q, 1) <=> ~(k \in Carried(u) <=> k \in Folded(v))
  <2>1. k \in Folded(v) <=> ~(~(~(k \in v <=> (k >= 1 /\ k - 1 \in v))
                                   <=> (k >= 2 /\ k - 2 \in v)) <=> (k >= 7 /\ k - 7 \in v))
    BY InFolded
  <2>2. k \in Carried(u) <=> ~(~(k + 63 \in u <=> k + 62 \in u) <=> k + 57 \in u)
    BY InCarried
  <2>3. /\ k \in v <=> k + 64 \in p
        /\ k >= 1 => (k - 1 \in v <=> k + 63 \in p) /\ k + 63 \notin u
        /\ k >= 2 => (k - 2 \in v <=> k + 62 \in p) /\ k + 62 \notin u
        /\ k >= 7 => (k - 7 \in v <=> k + 57 \in p) /\ k + 57 \notin u
        /\ k < 1 => (k + 63 \in u <=> k + 63 \in p)
        /\ k < 2 => (k + 62 \in u <=> k + 62 \in p)
        /\ k < 7 => (k + 57 \in u <=> k + 57 \in p)
    <3>1. k \in 0..63
      BY DEF Word
    <3>2. k >= 1 => k - 1 \in Word /\ (k - 1) + 64 = k + 63 /\ k + 63 \notin Word
      BY <3>1 DEF Word
    <3>3. k >= 2 => k - 2 \in Word /\ (k - 2) + 64 = k + 62 /\ k + 62 \notin Word
      BY <3>1 DEF Word
    <3>4. k >= 7 => k - 7 \in Word /\ (k - 7) + 64 = k + 57 /\ k + 57 \notin Word
      BY <3>1 DEF Word
    <3>5. /\ k < 1 => k + 63 \in Word
          /\ k < 2 => k + 62 \in Word
          /\ k < 7 => k + 57 \in Word
      BY <3>1 DEF Word
    <3> QED BY <1>5, <3>2, <3>3, <3>4, <3>5
  <2>4. k + 64 \in q <=> ~(~(~(k + 64 \in p <=> k + 63 \in p) <=> k + 62 \in p) <=> k + 57 \in p)
    <3>1. k + 64 \in Nat /\ k + 64 >= 7 /\ k + 64 >= 2 /\ k + 64 >= 1
          /\ (k + 64) - 1 = k + 63 /\ (k + 64) - 2 = k + 62 /\ (k + 64) - 7 = k + 57
      BY DEF Word
    <3> QED BY <1>3, <3>1
  <2>5. k \in Lane(q, 1) <=> k + 64 \in q
    BY <1>6
  <2>6. k \in Int
    BY DEF Word
  <2>7. /\ k >= 1 \/ k < 1
        /\ k >= 2 \/ k < 2
        /\ k >= 7 \/ k < 7
    BY <2>6
  <2> QED BY <2>1, <2>2, <2>3, <2>4, <2>5, <2>6
<1>11. ASSUME NEW k \in Word PROVE k \in Lane(q, 2) <=> k \in Carried(v)
  <2>1. k \in Carried(v) <=> ~(~(k + 63 \in v <=> k + 62 \in v) <=> k + 57 \in v)
    BY InCarried
  <2>2. k + 128 \in q <=> ~(~(k + 127 \in p <=> k + 126 \in p) <=> k + 121 \in p)
    <3>1. k + 128 \in Nat /\ k + 128 >= 7 /\ k + 128 >= 2 /\ k + 128 >= 1
          /\ (k + 128) - 1 = k + 127 /\ (k + 128) - 2 = k + 126 /\ (k + 128) - 7 = k + 121
      BY DEF Word
    <3>2. k + 128 \notin p
      BY <1>2 DEF Word
    <3> QED BY <1>3, <3>1, <3>2
  <2>3. /\ k + 63 \in v <=> k + 127 \in p
        /\ k + 62 \in v <=> k + 126 \in p
        /\ k + 57 \in v <=> k + 121 \in p
    <3>1. k \in 0..63
      BY DEF Word
    <3>2. /\ k + 63 \in Word => (k + 63 \in v <=> k + 127 \in p)
          /\ k + 62 \in Word => (k + 62 \in v <=> k + 126 \in p)
          /\ k + 57 \in Word => (k + 57 \in v <=> k + 121 \in p)
      <4>1. (k + 63) + 64 = k + 127 /\ (k + 62) + 64 = k + 126 /\ (k + 57) + 64 = k + 121
        BY <3>1
      <4> QED BY <1>5, <4>1
    <3>3. /\ k + 63 \notin Word => k + 127 \notin p /\ k + 63 \notin v
          /\ k + 62 \notin Word => k + 126 \notin p /\ k + 62 \notin v
          /\ k + 57 \notin Word => k + 121 \notin p /\ k + 57 \notin v
      BY <1>2, <3>1 DEF Word
    <3> QED BY <3>2, <3>3
  <2>4. k \in Lane(q, 2) <=> k + 128 \in q
    BY <1>6
  <2> QED BY <2>1, <2>2, <2>3, <2>4
<1>12. ASSUME NEW k \in Word PROVE k \notin Lane(q, 3)
  <2>1. k + 192 \in Nat /\ k + 192 \notin p /\ (k + 192) - 1 \notin p /\ (k + 192) - 2 \notin p
        /\ (k + 192) - 7 \notin p
    BY <1>2 DEF Word
  <2>2. k + 192 \notin q
    BY <1>3, <2>1
  <2> QED BY <1>6, <2>2
<1>13. Lane(q, 0) = Folded(u) /\ Lane(q, 2) = Carried(v) /\ Lane(q, 3) = {}
  BY <1>7, <1>8, <1>9, <1>11, <1>12
<1>14. \A k : k \in Lane(q, 1) <=> k \in Xor(Carried(u), Folded(v))
  BY <1>7, <1>8, <1>10, InXor
<1>15. Lane(q, 1) = Xor(Carried(u), Folded(v))
  BY <1>14
<1> QED BY <1>1, <1>4, <1>13, <1>15

\* One fold, word by word.
LEMMA FoldWords ==
  ASSUME NEW p \in SUBSET (0..254)
  PROVE  /\ Lane(FoldOnce(p), 0) = Xor(Lane(p, 0), Folded(Lane(p, 2)))
         /\ Lane(FoldOnce(p), 1) = Xor(Lane(p, 1), Xor(Carried(Lane(p, 2)), Folded(Lane(p, 3))))
         /\ Lane(FoldOnce(p), 2) = Carried(Lane(p, 3))
         /\ Lane(FoldOnce(p), 3) = {}
<1>1. \A i \in p : i \in 0..254
  OBVIOUS
<1>2. PICK h \in SUBSET Bits : h = High(p)
  <2>1. \A k \in High(p) : k \in 0..127
    BY <1>1 DEF High
  <2> QED BY <2>1 DEF Bits
<1>3. \A k \in Nat : k \in h <=> k + 128 \in p
  <2> SUFFICES ASSUME NEW k \in Nat PROVE k \in h <=> k + 128 \in p
    OBVIOUS
  <2>1. k \in h => k + 128 \in p
    BY <1>1, <1>2 DEF High
  <2>2. ASSUME k + 128 \in p PROVE k \in h
    <3>1. k = (k + 128) - 128 /\ k + 128 >= 128
      OBVIOUS
    <3> QED BY <1>2, <2>2, <3>1 DEF High
  <2> QED BY <2>1, <2>2
<1>4. Lane(h, 0) = Lane(p, 2) /\ Lane(h, 1) = Lane(p, 3)
  <2>1. ASSUME NEW k \in Word PROVE (k \in Lane(h, 0) <=> k \in Lane(p, 2))
                                    /\ (k \in Lane(h, 1) <=> k \in Lane(p, 3))
    <3>1. k \in Nat /\ 64 * 0 + k = k /\ 64 * 1 + k = k + 64 /\ 64 * 2 + k = k + 128
          /\ 64 * 3 + k = (k + 64) + 128 /\ k + 64 \in Nat /\ k \in 0..63
      BY DEF Word
    <3> QED BY <1>3, <3>1 DEF Lane
  <2>2. \A v, i : Lane(v, i) \in SUBSET Word
    BY LaneLaws
  <2> QED BY <2>1, <2>2
<1>5. PICK l : l = Low(p)
  OBVIOUS
<1>6. \A k : k \in l <=> k \in p /\ k < 128
  BY <1>5 DEF Low
<1>7. Lane(l, 0) = Lane(p, 0) /\ Lane(l, 1) = Lane(p, 1) /\ Lane(l, 2) = {} /\ Lane(l, 3) = {}
  <2>1. ASSUME NEW k \in Word PROVE /\ k \in Lane(l, 0) <=> k \in Lane(p, 0)
                                    /\ k \in Lane(l, 1) <=> k \in Lane(p, 1)
                                    /\ k \notin Lane(l, 2) /\ k \notin Lane(l, 3)
    BY <1>6 DEF Lane, Word
  <2>2. \A v, i : Lane(v, i) \in SUBSET Word
    BY LaneLaws
  <2> QED BY <2>1, <2>2
<1>8. FoldOnce(p) = Xor(l, Spread(h))
  BY <1>2, <1>5, FoldOnceIs
<1>9. \A i : Lane(FoldOnce(p), i) = Xor(Lane(l, i), Lane(Spread(h), i))
  BY <1>8, LaneLaws
<1>10. /\ Lane(Spread(h), 0) = Folded(Lane(p, 2))
       /\ Lane(Spread(h), 1) = Xor(Carried(Lane(p, 2)), Folded(Lane(p, 3)))
       /\ Lane(Spread(h), 2) = Carried(Lane(p, 3))
       /\ Lane(Spread(h), 3) = {}
  BY <1>4, SpreadWords
<1>11. \A z : Xor({}, z) = z
  BY XorLaws
<1> QED BY <1>7, <1>9, <1>10, <1>11

LEMMA FoldedOfNone == Folded({}) = {} /\ Carried({}) = {}
<1>1. \A n : Shl({}, n) = {} /\ Shr({}, n) = {}
  BY DEF Shl, Shr
<1>2. Xor({}, {}) = {}
  BY XorLaws
<1> QED BY <1>1, <1>2, FoldedIs, CarriedIs

\* The remainder, word by word, as the reduction of the engine has it.
LEMMA FoldTwice ==
  ASSUME NEW p \in SUBSET (0..254),
         NEW w0 \in SUBSET Word, NEW w1 \in SUBSET Word, NEW w2 \in SUBSET Word, NEW w3 \in SUBSET Word,
         w0 = Lane(p, 0), w1 = Lane(p, 1), w2 = Lane(p, 2), w3 = Lane(p, 3),
         NEW z2, z2 = Xor(w2, Carried(w3))
  PROVE  FoldOnce(FoldOnce(p)) = Combine(Xor(w0, Folded(z2)),
                                         Xor(Xor(w1, Folded(w3)), Carried(z2)))
<1>1. PICK q \in SUBSET (0..254) : q = FoldOnce(p)
  <2>1. FoldOnce(p) \in SUBSET (0..133)
    BY FoldOnceType
  <2>2. FoldOnce(p) \in SUBSET (0..254)
    BY <2>1
  <2> QED BY <2>2
<1>2. PICK r \in SUBSET Bits : r = FoldOnce(q)
  BY <1>1, FoldOnceType
<1>3. PICK f2 \in SUBSET Word, c2 \in SUBSET Word, f3 \in SUBSET Word, c3 \in SUBSET Word :
        f2 = Folded(w2) /\ c2 = Carried(w2) /\ f3 = Folded(w3) /\ c3 = Carried(w3)
  BY FoldedType
<1>4. PICK fc \in SUBSET Word, cc \in SUBSET Word : fc = Folded(c3) /\ cc = Carried(c3)
  BY FoldedType
<1>5. Lane(q, 0) = Xor(w0, f2) /\ Lane(q, 1) = Xor(w1, Xor(c2, f3)) /\ Lane(q, 2) = c3 /\ Lane(q, 3) = {}
  BY <1>1, <1>3, FoldWords
<1>6. Lane(r, 0) = Xor(Xor(w0, f2), fc)
  <2>1. Lane(r, 0) = Xor(Lane(q, 0), Folded(Lane(q, 2)))
    BY <1>2, FoldWords
  <2> QED BY <1>4, <1>5, <2>1
<1>7. Lane(r, 1) = Xor(Xor(w1, Xor(c2, f3)), cc)
  <2>1. Lane(r, 1) = Xor(Lane(q, 1), Xor(Carried(Lane(q, 2)), Folded(Lane(q, 3))))
    BY <1>2, FoldWords
  <2>2. Xor(cc, {}) = cc
    BY XorLaws
  <2> QED BY <1>4, <1>5, <2>1, <2>2, FoldedOfNone
<1>8. Folded(z2) = Xor(f2, fc) /\ Carried(z2) = Xor(c2, cc)
  BY <1>3, <1>4, FoldedXor
<1>9. Xor(Xor(w0, f2), fc) = Xor(w0, Xor(f2, fc))
  BY XorLaws
<1>10. Xor(Xor(w1, Xor(c2, f3)), cc) = Xor(Xor(w1, f3), Xor(c2, cc))
  <2>1. \A x : x \in Xor(Xor(w1, Xor(c2, f3)), cc) <=> x \in Xor(Xor(w1, f3), Xor(c2, cc))
    BY InXor
  <2> QED BY <2>1
<1>11. Lane(r, 0) = Xor(w0, Folded(z2)) /\ Lane(r, 1) = Xor(Xor(w1, f3), Carried(z2))
  BY <1>6, <1>7, <1>8, <1>9, <1>10
<1>12. Combine(Lane(r, 0), Lane(r, 1)) = r
  <2>1. ASSUME NEW k \in Bits PROVE k \in Combine(Lane(r, 0), Lane(r, 1)) <=> k \in r
    <3>1. CASE k < 64
      <4>1. k \in Lane(r, 0) <=> k \in r
        BY <3>1 DEF Lane, Bits
      <4>2. \A i \in Lane(r, 1) : 64 + i # k
        BY <3>1 DEF Lane, Bits
      <4> QED BY <4>1, <4>2 DEF Combine
    <3>2. CASE k >= 64
      <4>1. k \notin Lane(r, 0)
        BY <3>2 DEF Lane, Bits
      <4>2. (k - 64) \in Lane(r, 1) <=> k \in r
        <5>1. k - 64 \in 0..63 /\ 64 * 1 + (k - 64) = k
          BY <3>2 DEF Bits
        <5> QED BY <5>1 DEF Lane
      <4>3. (\E i \in Lane(r, 1) : 64 + i = k) <=> (k - 64) \in Lane(r, 1)
        <5>1. \A i \in Lane(r, 1) : i \in 0..63
          BY DEF Lane
        <5>2. k \in Int /\ 64 + (k - 64) = k
          BY DEF Bits
        <5> QED BY <5>1, <5>2
      <4> QED BY <4>1, <4>2, <4>3 DEF Combine
    <3> QED BY <3>1, <3>2 DEF Bits
  <2>2. Combine(Lane(r, 0), Lane(r, 1)) \in SUBSET Bits
    BY DEF Combine, Lane, Bits
  <2> QED BY <2>1, <2>2
<1> QED BY <1>1, <1>2, <1>3, <1>11, <1>12

\* The polynomial that three products of Karatsuba stand for.
Middle(sum) == Xor(Xor(sum.mid, sum.lo), sum.hi)
PolyOf(sum) == Xor(Xor(sum.lo, Raised(Middle(sum), 64)), Raised(sum.hi, 128))

IsSum(sum) == sum.lo \in SUBSET (0..126) /\ sum.hi \in SUBSET (0..126) /\ sum.mid \in SUBSET (0..126)

LEMMA PolyType ==
  ASSUME NEW sum, IsSum(sum)
  PROVE  Middle(sum) \in SUBSET (0..126) /\ PolyOf(sum) \in SUBSET (0..254)
<1>1. PICK T : T = 0..126
  OBVIOUS
<1>2. PICK l \in SUBSET T, h \in SUBSET T, m \in SUBSET T : l = sum.lo /\ h = sum.hi /\ m = sum.mid
  BY <1>1 DEF IsSum
<1>3. Xor(m, l) \in SUBSET T
  BY XorType
<1>4. Xor(Xor(m, l), h) \in SUBSET T
  BY <1>3, XorType
<1>5. Middle(sum) \in SUBSET T
  BY <1>2, <1>4 DEF Middle
<1>6. PICK U : U = 0..254
  OBVIOUS
<1>7. PICK a \in SUBSET U, b \in SUBSET U, c \in SUBSET U :
        a = sum.lo /\ b = Raised(Middle(sum), 64) /\ c = Raised(sum.hi, 128)
  <2>1. l \in SUBSET U
    BY <1>1, <1>6
  <2>2. Raised(Middle(sum), 64) \in SUBSET U
    <3>1. \A k \in Middle(sum) : k + 64 \in U
      BY <1>1, <1>5, <1>6
    <3> QED BY <3>1 DEF Raised
  <2>3. Raised(h, 128) \in SUBSET U
    <3>1. \A k \in h : k + 128 \in U
      BY <1>1, <1>6
    <3> QED BY <3>1 DEF Raised
  <2> QED BY <1>2, <2>1, <2>2, <2>3
<1>8. Xor(a, b) \in SUBSET U
  BY XorType
<1>9. Xor(Xor(a, b), c) \in SUBSET U
  BY <1>8, XorType
<1> QED BY <1>1, <1>5, <1>6, <1>7, <1>9 DEF PolyOf

LEMMA PolyWords ==
  ASSUME NEW sum, IsSum(sum)
  PROVE  /\ Lane(PolyOf(sum), 0) = Lane(sum.lo, 0)
         /\ Lane(PolyOf(sum), 1) = Xor(Lane(sum.lo, 1), Lane(Middle(sum), 0))
         /\ Lane(PolyOf(sum), 2) = Xor(Lane(Middle(sum), 1), Lane(sum.hi, 0))
         /\ Lane(PolyOf(sum), 3) = Lane(sum.hi, 1)
<1>1. PICK l \in SUBSET (0..126), h \in SUBSET (0..126), m \in SUBSET (0..126) :
        l = sum.lo /\ h = sum.hi /\ m = Middle(sum)
  BY PolyType DEF IsSum
<1>2. PICK a, b : a = Raised(m, 64) /\ b = Raised(h, 128)
  OBVIOUS
<1>3. l \in SUBSET Nat /\ h \in SUBSET Nat /\ m \in SUBSET Nat
  OBVIOUS
<1>4. \A k \in Nat : (k \in a <=> k >= 64 /\ k - 64 \in m) /\ (k \in b <=> k >= 128 /\ k - 128 \in h)
  BY <1>2, <1>3, InRaised
<1>5. \A v, i : Lane(v, i) \in SUBSET Word
  BY LaneLaws
<1>6. Lane(a, 0) = {} /\ Lane(a, 1) = Lane(m, 0) /\ Lane(a, 2) = Lane(m, 1) /\ Lane(a, 3) = {}
  <2>1. ASSUME NEW k \in Word PROVE /\ k \notin Lane(a, 0) /\ k \notin Lane(a, 3)
                                    /\ k \in Lane(a, 1) <=> k \in Lane(m, 0)
                                    /\ k \in Lane(a, 2) <=> k \in Lane(m, 1)
    <3>1. k \in 0..63
      BY DEF Word
    <3>2. /\ k \in a <=> k >= 64 /\ k - 64 \in m
          /\ 64 + k \in a <=> 64 + k >= 64 /\ (64 + k) - 64 \in m
          /\ 128 + k \in a <=> 128 + k >= 64 /\ (128 + k) - 64 \in m
          /\ 192 + k \in a <=> 192 + k >= 64 /\ (192 + k) - 64 \in m
      BY <1>4, <3>1
    <3>3. /\ (64 + k) - 64 = k /\ 64 + k >= 64 /\ (128 + k) - 64 = 64 + k /\ 128 + k >= 64
          /\ (192 + k) - 64 \notin m /\ ~(k >= 64)
      BY <3>1
    <3>4. 64 * 0 + k = k /\ 64 * 1 + k = 64 + k /\ 64 * 2 + k = 128 + k /\ 64 * 3 + k = 192 + k
      BY <3>1
    <3> QED BY <3>1, <3>2, <3>3, <3>4 DEF Lane
  <2> QED BY <1>5, <2>1
<1>7. Lane(b, 0) = {} /\ Lane(b, 1) = {} /\ Lane(b, 2) = Lane(h, 0) /\ Lane(b, 3) = Lane(h, 1)
  <2>1. ASSUME NEW k \in Word PROVE /\ k \notin Lane(b, 0) /\ k \notin Lane(b, 1)
                                    /\ k \in Lane(b, 2) <=> k \in Lane(h, 0)
                                    /\ k \in Lane(b, 3) <=> k \in Lane(h, 1)
    <3>1. k \in 0..63
      BY DEF Word
    <3>2. /\ k \in b <=> k >= 128 /\ k - 128 \in h
          /\ 64 + k \in b <=> 64 + k >= 128 /\ (64 + k) - 128 \in h
          /\ 128 + k \in b <=> 128 + k >= 128 /\ (128 + k) - 128 \in h
          /\ 192 + k \in b <=> 192 + k >= 128 /\ (192 + k) - 128 \in h
      BY <1>4, <3>1
    <3>3. /\ ~(k >= 128) /\ ~(64 + k >= 128) /\ (128 + k) - 128 = k /\ 128 + k >= 128
          /\ (192 + k) - 128 = 64 + k /\ 192 + k >= 128
      BY <3>1
    <3>4. 64 * 0 + k = k /\ 64 * 1 + k = 64 + k /\ 64 * 2 + k = 128 + k /\ 64 * 3 + k = 192 + k
      BY <3>1
    <3> QED BY <3>1, <3>2, <3>3, <3>4 DEF Lane
  <2> QED BY <1>5, <2>1
<1>8. Lane(l, 2) = {} /\ Lane(l, 3) = {}
  <2>1. ASSUME NEW k \in Word PROVE k \notin Lane(l, 2) /\ k \notin Lane(l, 3)
    BY DEF Lane, Word
  <2> QED BY <1>5, <2>1
<1>9. PolyOf(sum) = Xor(Xor(l, a), b)
  BY <1>1, <1>2 DEF PolyOf
<1>10. \A i : Lane(PolyOf(sum), i) = Xor(Xor(Lane(l, i), Lane(a, i)), Lane(b, i))
  BY <1>9, LaneLaws
<1>11. \A z : Xor({}, z) = z /\ Xor(z, {}) = z
  BY XorLaws
<1> QED BY <1>1, <1>6, <1>7, <1>8, <1>10, <1>11

\* The lazy reduction is the remainder of that polynomial.
LEMMA ReducedIs ==
  ASSUME NEW sum, IsSum(sum)
  PROVE  Reduced(sum) = vrbitq_u8(FoldOnce(FoldOnce(PolyOf(sum))))
<1>1. PICK p \in SUBSET (0..254) : p = PolyOf(sum)
  BY PolyType
<1>2. PICK w0 \in SUBSET Word, w1 \in SUBSET Word, w2 \in SUBSET Word, w3 \in SUBSET Word :
        w0 = Lane(p, 0) /\ w1 = Lane(p, 1) /\ w2 = Lane(p, 2) /\ w3 = Lane(p, 3)
  BY LaneLaws
<1>3. PICK z2 : z2 = Xor(w2, Carried(w3))
  OBVIOUS
<1>4. FoldOnce(FoldOnce(p)) = Combine(Xor(w0, Folded(z2)), Xor(Xor(w1, Folded(w3)), Carried(z2)))
  BY <1>2, <1>3, FoldTwice
<1>5. PICK l0, l1, m0, m1, h0, h1 :
        /\ l0 = Lane(sum.lo, 0) /\ l1 = Lane(sum.lo, 1) /\ h0 = Lane(sum.hi, 0) /\ h1 = Lane(sum.hi, 1)
        /\ m0 = Lane(Middle(sum), 0) /\ m1 = Lane(Middle(sum), 1)
  OBVIOUS
<1>6. w0 = l0 /\ w1 = Xor(l1, m0) /\ w2 = Xor(m1, h0) /\ w3 = h1
  BY <1>1, <1>2, <1>5, PolyWords
<1>7. XorAll(<<sum.mid, sum.lo, sum.hi>>) = Middle(sum)
  BY XorAll3 DEF Middle
<1>8. Xor(m1, h0) = Xor(h0, m1)
  BY XorLaws
<1>9. Reduced(sum) = vrbitq_u8(Combine(Xor(l0, Folded(z2)),
                                       Xor(Xor(Xor(l1, m0), Folded(h1)), Carried(z2))))
  BY <1>3, <1>5, <1>6, <1>7, <1>8 DEF Reduced
<1> QED BY <1>1, <1>4, <1>6, <1>9

-----------------------------------------------------------------------------
(* Three products of 64 bits make one of 128.                              *)

\* Products of two words.
Wide == 0..126

Poly3(lo, hi, mid) == Xor(Xor(lo, Raised(Xor(Xor(mid, lo), hi), 64)), Raised(hi, 128))

\* Sums of four, in another order.
LEMMA XorOfSums ==
  ASSUME NEW a, NEW b, NEW c, NEW x, NEW y, NEW z
  PROVE  Xor(Xor(Xor(a, x), Xor(b, y)), Xor(c, z)) = Xor(Xor(Xor(a, b), c), Xor(Xor(x, y), z))
<1>1. Xor(Xor(a, x), Xor(b, y)) = Xor(Xor(a, b), Xor(x, y))
  BY XorLaws
<1>2. PICK p, q : p = Xor(a, b) /\ q = Xor(x, y)
  OBVIOUS
<1>3. Xor(Xor(p, q), Xor(c, z)) = Xor(Xor(p, c), Xor(q, z))
  BY XorLaws
<1> QED BY <1>1, <1>2, <1>3

LEMMA Poly3Xor ==
  ASSUME NEW l \in SUBSET Wide, NEW h \in SUBSET Wide, NEW m \in SUBSET Wide,
         NEW x \in SUBSET Wide, NEW y \in SUBSET Wide, NEW z \in SUBSET Wide
  PROVE  Poly3(Xor(l, x), Xor(h, y), Xor(m, z)) = Xor(Poly3(l, h, m), Poly3(x, y, z))
<1>1. PICK u, v : u = Xor(Xor(m, l), h) /\ v = Xor(Xor(z, x), y)
  OBVIOUS
<1>2. Xor(Xor(Xor(m, z), Xor(l, x)), Xor(h, y)) = Xor(u, v)
  BY <1>1, XorOfSums
<1>3. u \in SUBSET Nat /\ v \in SUBSET Nat
  <2>1. PICK p \in SUBSET Wide, q \in SUBSET Wide : p = Xor(m, l) /\ q = Xor(z, x)
    BY XorType
  <2>2. Xor(p, h) \in SUBSET Wide /\ Xor(q, y) \in SUBSET Wide
    BY XorType
  <2>3. u \in SUBSET Wide /\ v \in SUBSET Wide
    BY <1>1, <2>1, <2>2
  <2> QED BY <2>3 DEF Wide
<1>4. Raised(Xor(u, v), 64) = Xor(Raised(u, 64), Raised(v, 64))
  BY <1>3, RaisedXor
<1>5. Raised(Xor(h, y), 128) = Xor(Raised(h, 128), Raised(y, 128))
  <2>1. h \in SUBSET Nat /\ y \in SUBSET Nat
    BY DEF Wide
  <2> QED BY <2>1, RaisedXor
<1>6. PICK b, c, d, e : b = Raised(u, 64) /\ c = Raised(h, 128) /\ d = Raised(v, 64) /\ e = Raised(y, 128)
  OBVIOUS
<1>7. Xor(Xor(Xor(l, x), Xor(b, d)), Xor(c, e)) = Xor(Xor(Xor(l, b), c), Xor(Xor(x, d), e))
  BY XorOfSums
<1>8. Poly3(Xor(l, x), Xor(h, y), Xor(m, z)) = Xor(Xor(Xor(l, x), Xor(b, d)), Xor(c, e))
  BY <1>2, <1>4, <1>5, <1>6 DEF Poly3
<1>9. Poly3(l, h, m) = Xor(Xor(l, b), c) /\ Poly3(x, y, z) = Xor(Xor(x, d), e)
  BY <1>1, <1>6 DEF Poly3
<1> QED BY <1>7, <1>8, <1>9

LEMMA Poly3OfBit ==
  /\ \A s \in Nat : Poly3({s}, {}, {s}) = {s}
  /\ \A s \in Nat : Poly3({}, {}, {s}) = {s + 64}
  /\ \A s \in Nat : Poly3({}, {s}, {s}) = {s + 128}
<1>1. \A s, n \in Nat : Raised({s}, n) = {s + n} /\ Raised({}, n) = {}
  BY DEF Raised
<1>2. \A a : Xor(a, a) = {} /\ Xor(a, {}) = a /\ Xor({}, a) = a
  BY XorLaws
<1>3. 64 \in Nat /\ 128 \in Nat
  OBVIOUS
<1>4. ASSUME NEW s \in Nat PROVE Poly3({s}, {}, {s}) = {s}
  <2>1. Raised({}, 64) = {} /\ Raised({}, 128) = {}
    BY <1>1, <1>3
  <2> QED BY <1>2, <2>1 DEF Poly3
<1>5. ASSUME NEW s \in Nat PROVE Poly3({}, {}, {s}) = {s + 64}
  <2>1. Raised({s}, 64) = {s + 64} /\ Raised({}, 128) = {}
    BY <1>1, <1>3
  <2> QED BY <1>2, <2>1 DEF Poly3
<1>6. ASSUME NEW s \in Nat PROVE Poly3({}, {s}, {s}) = {s + 128}
  <2>1. Raised({}, 64) = {} /\ Raised({s}, 128) = {s + 128}
    BY <1>1, <1>3
  <2> QED BY <1>2, <2>1 DEF Poly3
<1> QED BY <1>4, <1>5, <1>6

\* Both words of a block, added.
Both(v) == Xor(Lane(v, 0), Lane(v, 1))

LEMMA BothLaws ==
  /\ \A v : Both(v) \in SUBSET Word
  /\ \A v, w : Both(Xor(v, w)) = Xor(Both(v), Both(w))
<1>1. ASSUME NEW v PROVE Both(v) \in SUBSET Word
  <2>1. PICK a \in SUBSET Word, b \in SUBSET Word : a = Lane(v, 0) /\ b = Lane(v, 1)
    BY LaneLaws
  <2>2. Xor(a, b) \in SUBSET Word
    BY XorType
  <2> QED BY <2>1, <2>2 DEF Both
<1>2. ASSUME NEW v, NEW w PROVE Both(Xor(v, w)) = Xor(Both(v), Both(w))
  <2>1. PICK a, b, c, d : a = Lane(v, 0) /\ b = Lane(v, 1) /\ c = Lane(w, 0) /\ d = Lane(w, 1)
    OBVIOUS
  <2>2. Lane(Xor(v, w), 0) = Xor(a, c) /\ Lane(Xor(v, w), 1) = Xor(b, d)
    BY <2>1, LaneLaws
  <2>3. Xor(Xor(a, c), Xor(b, d)) = Xor(Xor(a, b), Xor(c, d))
    BY XorLaws
  <2> QED BY <2>1, <2>2, <2>3 DEF Both
<1> QED BY <1>1, <1>2

LEMMA VmullLaws ==
  /\ \A a, b : vmull_p64(a, b) \in SUBSET (0..126)
  /\ \A a, b, c \in SUBSET Word :
        /\ vmull_p64(Xor(a, b), c) = Xor(vmull_p64(a, c), vmull_p64(b, c))
        /\ vmull_p64(c, Xor(a, b)) = Xor(vmull_p64(c, a), vmull_p64(c, b))
  /\ \A i, j \in Word : vmull_p64({i}, {j}) = {i + j}
  /\ \A a : vmull_p64({}, a) = {} /\ vmull_p64(a, {}) = {}
<1>1. 63 \in Nat /\ 2 * 63 = 126 /\ Word = 0..63
  BY DEF Word
<1>2. \A a, b : vmull_p64(a, b) \in SUBSET (0..126)
  BY <1>1, ProductType DEF vmull_p64
<1>3. \A a, b, c \in SUBSET Word :
        /\ vmull_p64(Xor(a, b), c) = Xor(vmull_p64(a, c), vmull_p64(b, c))
        /\ vmull_p64(c, Xor(a, b)) = Xor(vmull_p64(c, a), vmull_p64(c, b))
  BY <1>1, ProductXor DEF vmull_p64
<1>4. \A i, j \in Word : vmull_p64({i}, {j}) = {i + j}
  BY <1>1, ProductOfBits DEF vmull_p64
<1>5. \A a : vmull_p64({}, a) = {} /\ vmull_p64(a, {}) = {}
  BY <1>1, ProductOfNone DEF vmull_p64
<1> QED BY <1>2, <1>3, <1>4, <1>5

\* What the three products stand for.
Karatsuba(r, g) == Poly3(vmull_p64(Lane(r, 0), Lane(g, 0)), vmull_p64(Lane(r, 1), Lane(g, 1)),
                         vmull_p64(Both(r), Both(g)))

LEMMA KaratsubaXor ==
  ASSUME NEW a, NEW b, NEW c
  PROVE  /\ Karatsuba(Xor(a, b), c) = Xor(Karatsuba(a, c), Karatsuba(b, c))
         /\ Karatsuba(c, Xor(a, b)) = Xor(Karatsuba(c, a), Karatsuba(c, b))
<1>3. PICK a0 \in SUBSET Word, a1 \in SUBSET Word, a2 \in SUBSET Word,
           b0 \in SUBSET Word, b1 \in SUBSET Word, b2 \in SUBSET Word,
           c0 \in SUBSET Word, c1 \in SUBSET Word, c2 \in SUBSET Word :
        /\ a0 = Lane(a, 0) /\ a1 = Lane(a, 1) /\ a2 = Both(a)
        /\ b0 = Lane(b, 0) /\ b1 = Lane(b, 1) /\ b2 = Both(b)
        /\ c0 = Lane(c, 0) /\ c1 = Lane(c, 1) /\ c2 = Both(c)
  <2>1. /\ Lane(a, 0) \in SUBSET Word /\ Lane(a, 1) \in SUBSET Word /\ Both(a) \in SUBSET Word
        /\ Lane(b, 0) \in SUBSET Word /\ Lane(b, 1) \in SUBSET Word /\ Both(b) \in SUBSET Word
        /\ Lane(c, 0) \in SUBSET Word /\ Lane(c, 1) \in SUBSET Word /\ Both(c) \in SUBSET Word
    BY LaneLaws, BothLaws
  <2> QED BY <2>1
<1>4. Lane(Xor(a, b), 0) = Xor(a0, b0) /\ Lane(Xor(a, b), 1) = Xor(a1, b1) /\ Both(Xor(a, b)) = Xor(a2, b2)
  BY <1>3, LaneLaws, BothLaws
<1>5. Karatsuba(Xor(a, b), c) = Xor(Karatsuba(a, c), Karatsuba(b, c))
  <2>1. PICK l \in SUBSET Wide, h \in SUBSET Wide, m \in SUBSET Wide, x \in SUBSET Wide, y \in SUBSET Wide, z \in SUBSET Wide :
          /\ l = vmull_p64(a0, c0) /\ h = vmull_p64(a1, c1) /\ m = vmull_p64(a2, c2)
          /\ x = vmull_p64(b0, c0) /\ y = vmull_p64(b1, c1) /\ z = vmull_p64(b2, c2)
    BY VmullLaws DEF Wide
  <2>2. /\ vmull_p64(Xor(a0, b0), c0) = Xor(l, x) /\ vmull_p64(Xor(a1, b1), c1) = Xor(h, y)
        /\ vmull_p64(Xor(a2, b2), c2) = Xor(m, z)
    BY <2>1, VmullLaws
  <2>3. Poly3(Xor(l, x), Xor(h, y), Xor(m, z)) = Xor(Poly3(l, h, m), Poly3(x, y, z))
    BY Poly3Xor
  <2> QED BY <1>3, <1>4, <2>1, <2>2, <2>3 DEF Karatsuba
<1>6. Karatsuba(c, Xor(a, b)) = Xor(Karatsuba(c, a), Karatsuba(c, b))
  <2>1. PICK l \in SUBSET Wide, h \in SUBSET Wide, m \in SUBSET Wide, x \in SUBSET Wide, y \in SUBSET Wide, z \in SUBSET Wide :
          /\ l = vmull_p64(c0, a0) /\ h = vmull_p64(c1, a1) /\ m = vmull_p64(c2, a2)
          /\ x = vmull_p64(c0, b0) /\ y = vmull_p64(c1, b1) /\ z = vmull_p64(c2, b2)
    BY VmullLaws DEF Wide
  <2>2. /\ vmull_p64(c0, Xor(a0, b0)) = Xor(l, x) /\ vmull_p64(c1, Xor(a1, b1)) = Xor(h, y)
        /\ vmull_p64(c2, Xor(a2, b2)) = Xor(m, z)
    BY <2>1, VmullLaws
  <2>3. Poly3(Xor(l, x), Xor(h, y), Xor(m, z)) = Xor(Poly3(l, h, m), Poly3(x, y, z))
    BY Poly3Xor
  <2> QED BY <1>3, <1>4, <2>1, <2>2, <2>3 DEF Karatsuba
<1> QED BY <1>5, <1>6

LEMMA LanesOfBit ==
  ASSUME NEW i \in Bits
  PROVE  /\ i < 64 => i \in Word /\ Lane({i}, 0) = {i} /\ Lane({i}, 1) = {} /\ Both({i}) = {i}
         /\ i >= 64 => /\ i - 64 \in Word /\ Lane({i}, 0) = {} /\ Lane({i}, 1) = {i - 64}
                       /\ Both({i}) = {i - 64}
<1>0. i \in 0..127
  BY DEF Bits
<1>1. \A v : Xor(v, {}) = v /\ Xor({}, v) = v
  BY XorLaws
<1>2. CASE i < 64
  <2>1. i \in Word /\ Lane({i}, 0) = {i} /\ Lane({i}, 1) = {}
    BY <1>0, <1>2 DEF Lane, Word
  <2> QED BY <1>0, <1>1, <1>2, <2>1 DEF Both
<1>3. CASE i >= 64
  <2>1. i - 64 \in Word /\ Lane({i}, 0) = {} /\ Lane({i}, 1) = {i - 64}
    BY <1>0, <1>3 DEF Lane, Word
  <2> QED BY <1>0, <1>1, <1>3, <2>1 DEF Both
<1> QED BY <1>0, <1>2, <1>3

LEMMA KaratsubaOfBits ==
  ASSUME NEW i \in Bits, NEW j \in Bits
  PROVE  Karatsuba({i}, {j}) = {i + j}
<1>0. i \in 0..127 /\ j \in 0..127
  BY DEF Bits
<1>1. CASE i < 64 /\ j < 64
  <2>1. /\ i \in Word /\ Lane({i}, 0) = {i} /\ Lane({i}, 1) = {} /\ Both({i}) = {i}
        /\ j \in Word /\ Lane({j}, 0) = {j} /\ Lane({j}, 1) = {} /\ Both({j}) = {j}
    BY <1>1, LanesOfBit
  <2>2. vmull_p64({i}, {j}) = {i + j} /\ vmull_p64({}, {}) = {}
    BY <2>1, VmullLaws
  <2>3. Poly3({i + j}, {}, {i + j}) = {i + j}
    <3>1. i + j \in Nat
      BY <1>0
    <3> QED BY <3>1, Poly3OfBit
  <2> QED BY <2>1, <2>2, <2>3 DEF Karatsuba
<1>2. CASE i < 64 /\ j >= 64
  <2>1. /\ i \in Word /\ Lane({i}, 0) = {i} /\ Lane({i}, 1) = {} /\ Both({i}) = {i}
        /\ j - 64 \in Word /\ Lane({j}, 0) = {} /\ Lane({j}, 1) = {j - 64} /\ Both({j}) = {j - 64}
    BY <1>2, LanesOfBit
  <2>2. PICK k \in Word : k = j - 64
    BY <2>1
  <2>3. vmull_p64({i}, {k}) = {i + k} /\ vmull_p64({i}, {}) = {} /\ vmull_p64({}, {k}) = {}
    BY <2>1, <2>2, VmullLaws
  <2>4. Poly3({}, {}, {i + k}) = {(i + k) + 64} /\ (i + k) + 64 = i + j
    <3>1. i + k \in Nat /\ (i + k) + 64 = i + j
      BY <1>0, <2>2 DEF Word
    <3> QED BY <3>1, Poly3OfBit
  <2> QED BY <2>1, <2>2, <2>3, <2>4 DEF Karatsuba
<1>3. CASE i >= 64 /\ j < 64
  <2>1. /\ i - 64 \in Word /\ Lane({i}, 0) = {} /\ Lane({i}, 1) = {i - 64} /\ Both({i}) = {i - 64}
        /\ j \in Word /\ Lane({j}, 0) = {j} /\ Lane({j}, 1) = {} /\ Both({j}) = {j}
    BY <1>3, LanesOfBit
  <2>2. PICK k \in Word : k = i - 64
    BY <2>1
  <2>3. vmull_p64({k}, {j}) = {k + j} /\ vmull_p64({k}, {}) = {} /\ vmull_p64({}, {j}) = {}
    BY <2>1, <2>2, VmullLaws
  <2>4. Poly3({}, {}, {k + j}) = {(k + j) + 64} /\ (k + j) + 64 = i + j
    <3>1. k + j \in Nat /\ (k + j) + 64 = i + j
      BY <1>0, <2>2 DEF Word
    <3> QED BY <3>1, Poly3OfBit
  <2> QED BY <2>1, <2>2, <2>3, <2>4 DEF Karatsuba
<1>4. CASE i >= 64 /\ j >= 64
  <2>1. /\ i - 64 \in Word /\ Lane({i}, 0) = {} /\ Lane({i}, 1) = {i - 64} /\ Both({i}) = {i - 64}
        /\ j - 64 \in Word /\ Lane({j}, 0) = {} /\ Lane({j}, 1) = {j - 64} /\ Both({j}) = {j - 64}
    BY <1>4, LanesOfBit
  <2>2. PICK k \in Word, l \in Word : k = i - 64 /\ l = j - 64
    BY <2>1
  <2>3. vmull_p64({k}, {l}) = {k + l} /\ vmull_p64({}, {}) = {}
    BY <2>2, VmullLaws
  <2>4. Poly3({}, {k + l}, {k + l}) = {(k + l) + 128} /\ (k + l) + 128 = i + j
    <3>1. k + l \in Nat /\ (k + l) + 128 = i + j
      BY <1>0, <2>2 DEF Word
    <3> QED BY <3>1, Poly3OfBit
  <2> QED BY <2>1, <2>2, <2>3, <2>4 DEF Karatsuba
<1>5. (i < 64 \/ i >= 64) /\ (j < 64 \/ j >= 64)
  BY <1>0
<1> QED BY <1>1, <1>2, <1>3, <1>4, <1>5

LEMMA KaratsubaMultiplies ==
  \A a, b \in SUBSET Bits : Karatsuba(a, b) = Product(a, b, 127)
<1> SUFFICES ASSUME NEW a \in SUBSET Bits, NEW b \in SUBSET Bits
             PROVE  Karatsuba(a, b) = Product(a, b, 127)
  OBVIOUS
<1>1. PICK f : f = [x \in SUBSET Bits |-> [y \in SUBSET Bits |-> Karatsuba(x, y)]]
  OBVIOUS
<1>2. PICK g : g = [x \in SUBSET Bits |-> [y \in SUBSET Bits |-> Product(x, y, 127)]]
  OBVIOUS
<1>3. \A x, y \in SUBSET Bits : f[x][y] = Karatsuba(x, y) /\ g[x][y] = Product(x, y, 127)
  BY <1>1, <1>2
<1>4. \A x, y \in SUBSET Bits : Xor(x, y) \in SUBSET Bits
  BY XorType
<1>5. 127 \in Nat /\ Bits = 0..127
  BY DEF Bits
<1>6. Bilinear(f)
  <2> SUFFICES ASSUME NEW x \in SUBSET Bits, NEW y \in SUBSET Bits, NEW z \in SUBSET Bits
               PROVE  /\ f[Xor(x, y)][z] = Xor(f[x][z], f[y][z])
                      /\ f[z][Xor(x, y)] = Xor(f[z][x], f[z][y])
    BY DEF Bilinear
  <2>1. PICK p \in SUBSET Bits : p = Xor(x, y)
    BY <1>4
  <2>2. f[p][z] = Karatsuba(p, z) /\ f[z][p] = Karatsuba(z, p)
    BY <1>3
  <2> QED BY <1>3, <2>1, <2>2, KaratsubaXor
<1>7. Bilinear(g)
  <2> SUFFICES ASSUME NEW x \in SUBSET Bits, NEW y \in SUBSET Bits, NEW z \in SUBSET Bits
               PROVE  /\ g[Xor(x, y)][z] = Xor(g[x][z], g[y][z])
                      /\ g[z][Xor(x, y)] = Xor(g[z][x], g[z][y])
    BY DEF Bilinear
  <2>1. PICK p \in SUBSET Bits : p = Xor(x, y)
    BY <1>4
  <2>2. g[p][z] = Product(p, z, 127) /\ g[z][p] = Product(z, p, 127)
    BY <1>3
  <2>3. /\ Product(Xor(x, y), z, 127) = Xor(Product(x, z, 127), Product(y, z, 127))
        /\ Product(z, Xor(x, y), 127) = Xor(Product(z, x, 127), Product(z, y, 127))
    BY <1>5, ProductXor
  <2> QED BY <1>3, <2>1, <2>2, <2>3
<1>8. Agree(f, g)
  <2> SUFFICES ASSUME NEW i \in Bits, NEW j \in Bits PROVE f[{i}][{j}] = g[{i}][{j}]
    BY DEF Agree
  <2>1. {i} \in SUBSET Bits /\ {j} \in SUBSET Bits
    OBVIOUS
  <2>2. Product({i}, {j}, 127) = {i + j}
    BY <1>5, ProductOfBits
  <2>3. Karatsuba({i}, {j}) = {i + j}
    BY KaratsubaOfBits
  <2>4. PICK p \in SUBSET Bits, q \in SUBSET Bits : p = {i} /\ q = {j}
    BY <2>1
  <2>5. f[p][q] = Karatsuba(p, q) /\ g[p][q] = Product(p, q, 127)
    BY <1>3
  <2> QED BY <2>2, <2>3, <2>4, <2>5
<1>9. f[a][b] = g[a][b]
  BY <1>6, <1>7, <1>8, SameOnPairs
<1> QED BY <1>3, <1>9

-----------------------------------------------------------------------------
(* The vector product of the eight-way engine.                             *)

\* One more block and its power of the hash key, before and after the
\* reduction.
LEMMA Accumulate ==
  ASSUME NEW sum, IsSum(sum), NEW a \in SUBSET Bits, NEW g \in SUBSET Bits
  PROVE  /\ IsSum(PMULL_ACCUMULATE_STD(a, g, sum))
         /\ Reduced(PMULL_ACCUMULATE_STD(a, g, sum)) = Xor(Reduced(sum), Times(a, vrbitq_u8(g)))
         /\ Reduced(sum) \in SUBSET Bits
<1>2. PICK r \in SUBSET Bits : r = vrbitq_u8(a)
  BY Reversed
<1>3. PICK x \in SUBSET Wide, y \in SUBSET Wide, z \in SUBSET Wide :
        /\ x = vmull_p64(Lane(r, 0), Lane(g, 0)) /\ y = vmull_p64(Lane(r, 1), Lane(g, 1))
        /\ z = vmull_p64(Both(r), Both(g))
  BY VmullLaws DEF Wide
<1>4. PICK l \in SUBSET Wide, h \in SUBSET Wide, m \in SUBSET Wide : l = sum.lo /\ h = sum.hi /\ m = sum.mid
  BY DEF IsSum, Wide
<1>5. PICK next : next = PMULL_ACCUMULATE_STD(a, g, sum)
  OBVIOUS
<1>6. next.lo = Xor(l, x) /\ next.hi = Xor(h, y) /\ next.mid = Xor(m, z)
  BY <1>2, <1>3, <1>4, <1>5 DEF PMULL_ACCUMULATE_STD, Both
<1>7. IsSum(next)
  <2>1. Xor(l, x) \in SUBSET Wide /\ Xor(h, y) \in SUBSET Wide /\ Xor(m, z) \in SUBSET Wide
    BY XorType
  <2> QED BY <1>6, <2>1 DEF IsSum, Wide
<1>8. \A s : PolyOf(s) = Poly3(s.lo, s.hi, s.mid)
  BY DEF PolyOf, Poly3, Middle
<1>9. PolyOf(next) = Xor(PolyOf(sum), Karatsuba(r, g))
  <2>1. Poly3(Xor(l, x), Xor(h, y), Xor(m, z)) = Xor(Poly3(l, h, m), Poly3(x, y, z))
    BY Poly3Xor
  <2> QED BY <1>3, <1>4, <1>6, <1>8, <2>1 DEF Karatsuba
<1>10. PICK p \in SUBSET Nat, q \in SUBSET Nat : p = PolyOf(sum) /\ q = Product(r, g, 127)
  <2>1. PolyOf(sum) \in SUBSET (0..254)
    BY PolyType
  <2>2. Product(r, g, 127) \in SUBSET (0..254)
    <3>1. 127 \in Nat /\ 2 * 127 = 254
      OBVIOUS
    <3> QED BY <3>1, ProductType
  <2>3. PolyOf(sum) \in SUBSET Nat /\ Product(r, g, 127) \in SUBSET Nat
    BY <2>1, <2>2
  <2> QED BY <2>3
<1>11. PolyOf(next) = Xor(p, q)
  BY <1>9, <1>10, KaratsubaMultiplies
<1>12. PICK u \in SUBSET Bits, v \in SUBSET Bits : u = FoldOnce(FoldOnce(p)) /\ v = FoldOnce(FoldOnce(q))
  <2>1. FoldOnce(FoldOnce(q)) \in SUBSET Bits
    BY <1>10, MulType DEF Mul
  <2>2. FoldOnce(FoldOnce(p)) \in SUBSET Bits
    <3>1. p \in SUBSET (0..254)
      BY <1>10, PolyType
    <3> QED BY <3>1, FoldOnceType
  <2> QED BY <2>1, <2>2
<1>13. FoldOnce(FoldOnce(Xor(p, q))) = Xor(u, v)
  <2>1. PICK s, t : s = FoldOnce(p) /\ t = FoldOnce(q)
    OBVIOUS
  <2>2. s \in SUBSET Nat /\ t \in SUBSET Nat
    <3>1. p \in SUBSET (0..254)
      BY <1>10, PolyType
    <3>2. q \in SUBSET (0..254)
      <4>1. 127 \in Nat /\ 2 * 127 = 254
        OBVIOUS
      <4> QED BY <1>10, <4>1, ProductType
    <3>3. s \in SUBSET (0..133) /\ t \in SUBSET (0..133)
      BY <2>1, <3>1, <3>2, FoldOnceType
    <3> QED BY <3>3
  <2>3. FoldOnce(Xor(p, q)) = Xor(s, t)
    BY <2>1, FoldOnceXor
  <2>4. FoldOnce(Xor(s, t)) = Xor(FoldOnce(s), FoldOnce(t))
    BY <2>2, FoldOnceXor
  <2> QED BY <1>12, <2>1, <2>3, <2>4
<1>14. Reduced(sum) = vrbitq_u8(u) /\ Reduced(next) = vrbitq_u8(Xor(u, v))
  BY <1>7, <1>10, <1>11, <1>12, <1>13, ReducedIs
<1>15. vrbitq_u8(Xor(u, v)) = Xor(vrbitq_u8(u), vrbitq_u8(v)) /\ vrbitq_u8(u) \in SUBSET Bits
  BY Reversed
<1>16. Times(a, vrbitq_u8(g)) = vrbitq_u8(v)
  <2>1. vrbitq_u8(vrbitq_u8(g)) = g
    BY Reversed
  <2>2. Times(a, vrbitq_u8(g)) = vrbitq_u8(Mul(r, g))
    BY <1>2, <2>1, TimesIsMul
  <2> QED BY <1>10, <1>12, <2>2 DEF Mul
<1> QED BY <1>5, <1>7, <1>14, <1>15, <1>16

LEMMA NothingYet == IsSum(NoSum) /\ Reduced(NoSum) = {}
<1>1. NoSum.lo = {} /\ NoSum.hi = {} /\ NoSum.mid = {}
  BY DEF NoSum
<1>2. IsSum(NoSum)
  BY <1>1 DEF IsSum
<1>3. PolyOf(NoSum) = {}
  <2>1. Xor({}, {}) = {}
    BY XorLaws
  <2>2. \A n : Raised({}, n) = {}
    BY DEF Raised
  <2> QED BY <1>1, <2>1, <2>2 DEF PolyOf, Middle
<1>4. FoldOnce({}) = {}
  BY FoldOnceOfBlock
<1>5. vrbitq_u8({}) = {}
  BY DEF vrbitq_u8
<1> QED BY <1>2, <1>3, <1>4, <1>5, ReducedIs

\* Karatsuba's three products of words and the reduction by shifts (gf_mul_arm)
\* multiply any block with any power, kept with its bits reversed, in GF(2^128).
THEOREM ArmMultiplies == \A a, g \in SUBSET Bits : gf_mul_arm(a, g) = Times(a, vrbitq_u8(g))
<1> SUFFICES ASSUME NEW a \in SUBSET Bits, NEW g \in SUBSET Bits
             PROVE  gf_mul_arm(a, g) = Times(a, vrbitq_u8(g))
  OBVIOUS
<1>1. Reduced(PMULL_ACCUMULATE_STD(a, g, NoSum)) = Xor({}, Times(a, vrbitq_u8(g)))
  BY NothingYet, Accumulate
<1>2. PICK t : t = Times(a, vrbitq_u8(g))
  OBVIOUS
<1>3. Xor({}, t) = t
  BY XorLaws
<1> QED BY <1>1, <1>2, <1>3 DEF gf_mul_arm

-----------------------------------------------------------------------------
(* The powers of the hash key.                                             *)

\* Eight powers of a hash key, each with its bits reversed.
Powers(p, h) ==
  /\ \A k \in 1..8 : p[k] \in SUBSET Bits
  /\ vrbitq_u8(p[1]) = h
  /\ \A k \in 1..7 : vrbitq_u8(p[k + 1]) = Times(vrbitq_u8(p[k]), h)

\* A sequence of powers.
Keys(s, n, h) == Len(s) = n /\ s[1] = h /\ \A k \in 1..n - 1 : s[k + 1] = Times(s[k], h)

LEMMA NextPower ==
  ASSUME NEW s \in Seq(SUBSET Bits), NEW n \in Nat \ {0}, NEW h \in SUBSET Bits, Keys(s, n, h)
  PROVE  WithNextPower(s, h) \in Seq(SUBSET Bits) /\ Keys(WithNextPower(s, h), n + 1, h)
<1>1. Len(s) = n /\ s[1] = h /\ \A k \in 1..n - 1 : s[k + 1] = Times(s[k], h)
  BY DEF Keys
<1>2. s[n] \in SUBSET Bits
  <2>1. n \in 1..Len(s)
    BY <1>1
  <2> QED BY <2>1
<1>3. PICK g \in SUBSET Bits : g = vrbitq_u8(h) /\ vrbitq_u8(g) = h
  BY Reversed
<1>4. gf_mul_internal(s[n], h) = Times(s[n], h)
  BY <1>2, <1>3, ArmMultiplies DEF gf_mul_internal
<1>5. PICK x \in SUBSET Bits : x = Times(s[n], h)
  BY <1>2, TimesLaws
<1>6. WithNextPower(s, h) = Append(s, x)
  BY <1>1, <1>4, <1>5 DEF WithNextPower
<1>7. PICK t \in Seq(SUBSET Bits) :
        t = Append(s, x) /\ Len(t) = n + 1 /\ (\A k \in 1..n : t[k] = s[k]) /\ t[n + 1] = x
  <2>1. /\ Append(s, x) \in Seq(SUBSET Bits) /\ Len(Append(s, x)) = Len(s) + 1
        /\ (\A k \in 1..Len(s) : Append(s, x)[k] = s[k]) /\ Append(s, x)[Len(s) + 1] = x
    BY AppendProperties
  <2>2. Len(s) = n
    BY <1>1
  <2> QED BY <2>1, <2>2
<1>8. t[1] = h
  BY <1>1, <1>7
<1>9. ASSUME NEW k \in 1..(n + 1) - 1 PROVE t[k + 1] = Times(t[k], h)
  <2>1. CASE k = n
    <3>1. n \in 1..n
      OBVIOUS
    <3> QED BY <1>5, <1>7, <2>1, <3>1
  <2>2. CASE k < n
    <3>1. k \in 1..n - 1 /\ k \in 1..n /\ k + 1 \in 1..n
      BY <2>2
    <3> QED BY <1>1, <1>7, <3>1
  <2> QED BY <2>1, <2>2
<1> QED BY <1>6, <1>7, <1>8, <1>9 DEF Keys

LEMMA HashKeysIs ==
  ASSUME NEW h \in SUBSET Bits
  PROVE  HashKeys(h) \in Seq(SUBSET Bits) /\ Powers(HashKeys(h), h)
<1> DEFINE Eq(f) == f = [i \in 1..8 |-> IF i = 1 THEN <<h>> ELSE WithNextPower(f[i - 1], h)]
           T == Seq(SUBSET Bits)
           Good(s, n) == s \in T /\ Keys(s, n, h)
<1>1. <<h>> \in T /\ Keys(<<h>>, 1, h)
  BY DEF Keys
<1>2. PICK f : Eq(f)
  <2>1. PICK x1, x2, x3, x4, x5, x6, x7, x8 :
          /\ x1 = <<h>> /\ x2 = WithNextPower(x1, h) /\ x3 = WithNextPower(x2, h)
          /\ x4 = WithNextPower(x3, h) /\ x5 = WithNextPower(x4, h) /\ x6 = WithNextPower(x5, h)
          /\ x7 = WithNextPower(x6, h) /\ x8 = WithNextPower(x7, h)
    OBVIOUS
  <2>2. PICK f : f = [i \in 1..8 |-> CASE i = 1 -> x1 [] i = 2 -> x2 [] i = 3 -> x3 [] i = 4 -> x4
                                       [] i = 5 -> x5 [] i = 6 -> x6 [] i = 7 -> x7 [] i = 8 -> x8]
    OBVIOUS
  <2>3. f[1] = x1 /\ f[2] = x2 /\ f[3] = x3 /\ f[4] = x4 /\ f[5] = x5 /\ f[6] = x6 /\ f[7] = x7 /\ f[8] = x8
    BY <2>2
  <2>4. PICK g : g = [i \in 1..8 |-> IF i = 1 THEN <<h>> ELSE WithNextPower(f[i - 1], h)]
    OBVIOUS
  <2>5. 2 - 1 = 1 /\ 3 - 1 = 2 /\ 4 - 1 = 3 /\ 5 - 1 = 4 /\ 6 - 1 = 5 /\ 7 - 1 = 6 /\ 8 - 1 = 7
    OBVIOUS
  <2>6. /\ g[1] = <<h>> /\ g[2] = WithNextPower(f[1], h) /\ g[3] = WithNextPower(f[2], h)
        /\ g[4] = WithNextPower(f[3], h) /\ g[5] = WithNextPower(f[4], h)
        /\ g[6] = WithNextPower(f[5], h) /\ g[7] = WithNextPower(f[6], h)
        /\ g[8] = WithNextPower(f[7], h)
    BY <2>4, <2>5
  <2>7. \A i \in 1..8 : i = 1 \/ i = 2 \/ i = 3 \/ i = 4 \/ i = 5 \/ i = 6 \/ i = 7 \/ i = 8
    OBVIOUS
  <2>8. \A i \in 1..8 : f[i] = g[i]
    BY <2>1, <2>3, <2>6, <2>7
  <2>9. f = [i \in 1..8 |-> f[i]] /\ g = [i \in 1..8 |-> g[i]]
    BY <2>2, <2>4
  <2>10. f = g
    BY <2>8, <2>9
  <2> QED BY <2>4, <2>10
<1>3. PICK g : g = CHOOSE x : Eq(x)
  OBVIOUS
<1>4. Eq(g)
  BY <1>2, <1>3
<1>5. PICK c : c = g[8]
  OBVIOUS
<1>6. HashKeys(h) = <<vrbitq_u8(c[1]), vrbitq_u8(c[2]), vrbitq_u8(c[3]), vrbitq_u8(c[4]),
                      vrbitq_u8(c[5]), vrbitq_u8(c[6]), vrbitq_u8(c[7]), vrbitq_u8(c[8])>>
  BY <1>3, <1>5 DEF HashKeys
<1>7. g[1] = <<h>> /\ \A i \in 2..8 : g[i] = WithNextPower(g[i - 1], h)
  <2>1. PICK z : z = [i \in 1..8 |-> IF i = 1 THEN <<h>> ELSE WithNextPower(g[i - 1], h)]
    OBVIOUS
  <2>2. z[1] = <<h>> /\ \A i \in 2..8 : z[i] = WithNextPower(g[i - 1], h)
    BY <2>1
  <2>3. g = z
    BY <1>4, <2>1
  <2> QED BY <2>2, <2>3
<1> HIDE DEF Eq
<1>8. Good(g[1], 1)
  BY <1>1, <1>7
<1>9. ASSUME NEW n \in 1..7, Good(g[n], n) PROVE Good(g[n + 1], n + 1)
  <2>1. n \in Nat \ {0} /\ n + 1 \in 2..8 /\ (n + 1) - 1 = n
    OBVIOUS
  <2>2. g[n + 1] = WithNextPower(g[n], h)
    BY <1>7, <2>1
  <2>3. PICK s \in T : s = g[n] /\ Keys(s, n, h)
    BY <1>9
  <2>4. WithNextPower(s, h) \in T /\ Keys(WithNextPower(s, h), n + 1, h)
    BY <2>1, <2>3, NextPower
  <2> QED BY <2>2, <2>3, <2>4
<1>10. Good(c, 8)
  <2> HIDE DEF Good
  <2>1. /\ 1 \in 1..7 /\ 2 \in 1..7 /\ 3 \in 1..7 /\ 4 \in 1..7 /\ 5 \in 1..7 /\ 6 \in 1..7 /\ 7 \in 1..7
        /\ 1 + 1 = 2 /\ 2 + 1 = 3 /\ 3 + 1 = 4 /\ 4 + 1 = 5 /\ 5 + 1 = 6 /\ 6 + 1 = 7 /\ 7 + 1 = 8
    OBVIOUS
  <2>2. Good(g[2], 2)
    BY <1>8, <1>9, <2>1
  <2>3. Good(g[3], 3)
    BY <1>9, <2>1, <2>2
  <2>4. Good(g[4], 4)
    BY <1>9, <2>1, <2>3
  <2>5. Good(g[5], 5)
    BY <1>9, <2>1, <2>4
  <2>6. Good(g[6], 6)
    BY <1>9, <2>1, <2>5
  <2>7. Good(g[7], 7)
    BY <1>9, <2>1, <2>6
  <2>8. Good(g[8], 8)
    BY <1>9, <2>1, <2>7
  <2> QED BY <1>5, <2>8
<1>11. /\ Len(c) = 8 /\ c[1] = h /\ \A k \in 1..7 : c[k + 1] = Times(c[k], h)
       /\ \A k \in 1..8 : c[k] \in SUBSET Bits
  <2>1. 8 - 1 = 7 /\ c \in Seq(SUBSET Bits) /\ Len(c) = 8
    BY <1>10 DEF Keys
  <2>2. c[1] = h /\ \A k \in 1..7 : c[k + 1] = Times(c[k], h)
    BY <1>10, <2>1 DEF Keys
  <2>3. \A k \in 1..8 : c[k] \in SUBSET Bits
    BY <2>1, ElementOfSeq
  <2> QED BY <2>1, <2>2, <2>3
<1>12. PICK p : p = HashKeys(h)
  OBVIOUS
<1>13. \A k \in 1..8 : vrbitq_u8(c[k]) \in SUBSET Bits /\ vrbitq_u8(vrbitq_u8(c[k])) = c[k]
  BY <1>11, Reversed
<1>14. PICK a1 \in SUBSET Bits, a2 \in SUBSET Bits, a3 \in SUBSET Bits, a4 \in SUBSET Bits,
            a5 \in SUBSET Bits, a6 \in SUBSET Bits, a7 \in SUBSET Bits, a8 \in SUBSET Bits :
         /\ a1 = vrbitq_u8(c[1]) /\ a2 = vrbitq_u8(c[2]) /\ a3 = vrbitq_u8(c[3])
         /\ a4 = vrbitq_u8(c[4]) /\ a5 = vrbitq_u8(c[5]) /\ a6 = vrbitq_u8(c[6])
         /\ a7 = vrbitq_u8(c[7]) /\ a8 = vrbitq_u8(c[8])
  <2>1. /\ 1 \in 1..8 /\ 2 \in 1..8 /\ 3 \in 1..8 /\ 4 \in 1..8 /\ 5 \in 1..8 /\ 6 \in 1..8
        /\ 7 \in 1..8 /\ 8 \in 1..8
    OBVIOUS
  <2> QED BY <1>13, <2>1
<1>15. p = <<a1, a2, a3, a4, a5, a6, a7, a8>>
  BY <1>6, <1>12, <1>14
<1>16. p \in Seq(SUBSET Bits)
  BY <1>15
<1>17. \A k \in 1..8 : p[k] = vrbitq_u8(c[k])
  <2>1. /\ p[1] = a1 /\ p[2] = a2 /\ p[3] = a3 /\ p[4] = a4
        /\ p[5] = a5 /\ p[6] = a6 /\ p[7] = a7 /\ p[8] = a8
    BY <1>15
  <2>2. \A k \in 1..8 : k = 1 \/ k = 2 \/ k = 3 \/ k = 4 \/ k = 5 \/ k = 6 \/ k = 7 \/ k = 8
    OBVIOUS
  <2> QED BY <1>14, <2>1, <2>2
<1>18. \A k \in 1..8 : p[k] \in SUBSET Bits /\ vrbitq_u8(p[k]) = c[k]
  BY <1>13, <1>17
<1>19. \A k \in 1..7 : vrbitq_u8(p[k + 1]) = Times(vrbitq_u8(p[k]), h)
  <2>1. \A k \in 1..7 : k \in 1..8 /\ k + 1 \in 1..8
    OBVIOUS
  <2> QED BY <1>11, <1>18, <2>1
<1>20. vrbitq_u8(p[1]) = h
  <2>1. 1 \in 1..8
    OBVIOUS
  <2> QED BY <1>11, <1>18, <2>1
<1>21. Powers(p, h)
  BY <1>18, <1>19, <1>20 DEF Powers
<1> QED BY <1>12, <1>16, <1>21

-----------------------------------------------------------------------------
(* Several blocks at once.                                                 *)

\* The sums of gf_sum_arm, one after another.
SumsOf(f, blocks, p) ==
  f[0] = NoSum /\ \A i \in 1..Len(blocks) :
    f[i] = PMULL_ACCUMULATE_STD(blocks[i], p[Len(blocks) + 1 - i], f[i - 1])

LEMMA SumsExist ==
  ASSUME NEW blocks \in Seq(SUBSET Bits), Len(blocks) \in 0..8, NEW p, NEW h, Powers(p, h)
  PROVE  \E f : SumsOf(f, blocks, p) /\ gf_sum_arm(blocks, p) = Reduced(f[Len(blocks)])
<1> DEFINE R == [lo : SUBSET Wide, hi : SUBSET Wide, mid : SUBSET Wide]
           Eq(f) == f = [i \in 0..Len(blocks) |->
              IF i = 0 THEN NoSum
              ELSE PMULL_ACCUMULATE_STD(blocks[i], p[Len(blocks) + 1 - i], f[i - 1])]
<1>0. PICK n \in 0..8 : n = Len(blocks)
  OBVIOUS
<1>1. \A i \in 1..n : blocks[i] \in SUBSET Bits /\ p[n + 1 - i] \in SUBSET Bits
  <2>1. \A i \in 1..n : n + 1 - i \in 1..8
    OBVIOUS
  <2>2. \A i \in 1..n : blocks[i] \in SUBSET Bits
    BY <1>0, ElementOfSeq
  <2>3. \A k \in 1..8 : p[k] \in SUBSET Bits
    BY DEF Powers
  <2> QED BY <2>1, <2>2, <2>3
<1>2. ASSUME NEW a, NEW g, NEW s \in R PROVE PMULL_ACCUMULATE_STD(a, g, s) \in R
  <2>1. PICK l \in SUBSET Wide, k \in SUBSET Wide, m \in SUBSET Wide : l = s.lo /\ k = s.hi /\ m = s.mid
    OBVIOUS
  <2>2. \A x, y : vmull_p64(x, y) \in SUBSET Wide
    BY VmullLaws DEF Wide
  <2>3. \A x, y : /\ Xor(l, vmull_p64(x, y)) \in SUBSET Wide
                  /\ Xor(k, vmull_p64(x, y)) \in SUBSET Wide
                  /\ Xor(m, vmull_p64(x, y)) \in SUBSET Wide
    BY <2>2, XorType
  <2> QED BY <2>1, <2>3 DEF PMULL_ACCUMULATE_STD
<1>3. NoSum \in R
  BY DEF NoSum
<1> HIDE DEF R
<1>4. PICK F : F = [x \in Nat \X R |->
                      IF x[1] \in 1..n THEN PMULL_ACCUMULATE_STD(blocks[x[1]], p[n + 1 - x[1]], x[2])
                      ELSE NoSum]
  OBVIOUS
<1>5. \A i \in Nat, s \in R : F[<<i, s>>] = IF i \in 1..n
                                           THEN PMULL_ACCUMULATE_STD(blocks[i], p[n + 1 - i], s)
                                           ELSE NoSum
  BY <1>4
<1>6. PICK f \in [0..n -> R] : Follow(f, n, NoSum, F)
  <2>1. \A i \in Nat, s \in R : F[<<i, s>>] \in R
    <3> SUFFICES ASSUME NEW i \in Nat, NEW s \in R PROVE F[<<i, s>>] \in R
      OBVIOUS
    <3>1. CASE i \in 1..n
      <4>1. F[<<i, s>>] = PMULL_ACCUMULATE_STD(blocks[i], p[n + 1 - i], s)
        BY <1>5, <3>1
      <4> QED BY <1>2, <4>1
    <3>2. CASE i \notin 1..n
      BY <1>3, <1>5, <3>2
    <3> QED BY <3>1, <3>2
  <2>2. n \in Nat
    OBVIOUS
  <2> QED BY <1>3, <2>1, <2>2, Recursion
<1>7. f[0] = NoSum /\ \A i \in 1..n : f[i] = PMULL_ACCUMULATE_STD(blocks[i], p[n + 1 - i], f[i - 1])
  <2>1. \A i \in 1..n : i \in Nat /\ f[i - 1] \in R
    OBVIOUS
  <2> QED BY <1>5, <1>6, <2>1 DEF Follow
<1>8. Eq(f)
  <2>1. PICK z : z = [i \in 0..n |-> IF i = 0 THEN NoSum
                        ELSE PMULL_ACCUMULATE_STD(blocks[i], p[n + 1 - i], f[i - 1])]
    OBVIOUS
  <2>2. \A i \in 0..n : z[i] = f[i]
    BY <1>7, <2>1
  <2>3. z = [i \in 0..n |-> z[i]] /\ f = [i \in 0..n |-> f[i]]
    BY <2>1
  <2>4. z = f
    BY <2>2, <2>3
  <2> QED BY <1>0, <2>1, <2>4
<1>9. PICK g : g = CHOOSE x : Eq(x)
  OBVIOUS
<1>10. Eq(g)
  BY <1>8, <1>9
<1>11. gf_sum_arm(blocks, p) = Reduced(g[Len(blocks)])
  BY <1>9 DEF gf_sum_arm
<1>12. SumsOf(g, blocks, p)
  <2>1. PICK z : z = [i \in 0..n |-> IF i = 0 THEN NoSum
                        ELSE PMULL_ACCUMULATE_STD(blocks[i], p[n + 1 - i], g[i - 1])]
    OBVIOUS
  <2>2. z[0] = NoSum /\ \A i \in 1..n : z[i] = PMULL_ACCUMULATE_STD(blocks[i], p[n + 1 - i], g[i - 1])
    BY <2>1
  <2>3. g = z
    BY <1>0, <1>10, <2>1
  <2> QED BY <1>0, <2>2, <2>3 DEF SumsOf
<1> QED BY <1>11, <1>12

\* Block after block into a hash.
Hashing(y, blocks, h) ==
  /\ \A i \in 0..Len(blocks) : y[i] \in SUBSET Bits
  /\ \A i \in 1..Len(blocks) : y[i] = Times(Xor(y[i - 1], blocks[i]), h)

\* Up to eight blocks, summed up with descending powers and reduced once, are
\* hashed to what GHASH makes of one after another (process_128bytes_fused_arm).
THEOREM WideHashes ==
  ASSUME NEW blocks \in Seq(SUBSET Bits), Len(blocks) \in 1..8, NEW h \in SUBSET Bits,
         NEW p, Powers(p, h), NEW y, Hashing(y, blocks, h)
  PROVE  gf_sum_arm(<<Xor(y[0], blocks[1])>> \o Tail(blocks), p) = y[Len(blocks)]
<1>1. PICK n \in 1..8 : n = Len(blocks)
  OBVIOUS
<1>2. /\ \A i \in 1..n : blocks[i] \in SUBSET Bits
      /\ \A i \in 0..n : y[i] \in SUBSET Bits
      /\ \A i \in 1..n : y[i] = Times(Xor(y[i - 1], blocks[i]), h)
  BY <1>1 DEF Hashing
<1>3. PICK first \in SUBSET Bits : first = Xor(y[0], blocks[1])
  <2>1. PICK a \in SUBSET Bits, b \in SUBSET Bits : a = y[0] /\ b = blocks[1]
    BY <1>2
  <2>2. Xor(a, b) \in SUBSET Bits
    BY XorType
  <2> QED BY <2>1, <2>2
<1>4. PICK bs \in Seq(SUBSET Bits) :
        /\ bs = <<Xor(y[0], blocks[1])>> \o Tail(blocks) /\ Len(bs) = n
        /\ bs[1] = first /\ \A i \in 2..n : bs[i] = blocks[i]
  <2>1. PICK t \in Seq(SUBSET Bits) : t = Tail(blocks) /\ Len(t) = n - 1 /\ \A i \in 1..n - 1 : t[i] = blocks[i + 1]
    <3>1. blocks # <<>>
      BY <1>1
    <3>2. /\ Tail(blocks) \in Seq(SUBSET Bits) /\ Len(Tail(blocks)) = Len(blocks) - 1
          /\ \A i \in 1..Len(Tail(blocks)) : Tail(blocks)[i] = blocks[i + 1]
      BY <3>1, HeadTailProperties
    <3> QED BY <1>1, <3>2
  <2>2. PICK s \in Seq(SUBSET Bits) : s = <<first>> /\ Len(s) = 1 /\ s[1] = first
    <3>1. <<first>> \in Seq(SUBSET Bits) /\ Len(<<first>>) = 1 /\ <<first>>[1] = first
      OBVIOUS
    <3> QED BY <3>1
  <2>3. PICK b : b = s \o t
    OBVIOUS
  <2>4. b \in Seq(SUBSET Bits) /\ Len(b) = Len(s) + Len(t)
        /\ \A i \in 1..(Len(s) + Len(t)) : b[i] = IF i <= Len(s) THEN s[i] ELSE t[i - Len(s)]
    BY <2>3, ConcatProperties
  <2>5. Len(b) = n /\ \A i \in 1..n : b[i] = IF i <= 1 THEN s[i] ELSE t[i - 1]
    BY <2>1, <2>2, <2>4
  <2>6. b[1] = first
    BY <2>2, <2>5
  <2>7. \A i \in 2..n : b[i] = blocks[i]
    <3>1. \A i \in 2..n : i \in 1..n /\ ~(i <= 1) /\ i - 1 \in 1..n - 1 /\ (i - 1) + 1 = i
      OBVIOUS
    <3> QED BY <2>1, <2>5, <3>1
  <2> QED BY <1>3, <2>1, <2>2, <2>3, <2>4, <2>5, <2>6, <2>7
<1>5. PICK f : SumsOf(f, bs, p) /\ gf_sum_arm(bs, p) = Reduced(f[n])
  <2>1. Len(bs) \in 0..8
    <3>1. PICK k \in 0..8 : k = n
      OBVIOUS
    <3>2. Len(bs) = k
      BY <1>4, <3>1
    <3> QED BY <3>2
  <2> QED BY <1>4, <2>1, SumsExist
<1>6. \A i \in 1..n : f[i] = PMULL_ACCUMULATE_STD(bs[i], p[n + 1 - i], f[i - 1])
  BY <1>4, <1>5 DEF SumsOf
<1>7. \A k \in 1..8 : p[k] \in SUBSET Bits /\ vrbitq_u8(p[k]) \in SUBSET Bits
  BY Reversed DEF Powers
<1> DEFINE Z(i) == Xor(y[i - 1], blocks[i])
           Right(i) == IsSum(f[i]) /\ Reduced(f[i]) = Times(Z(i), vrbitq_u8(p[n + 1 - i]))
           S == {i \in Nat : i + 1 <= n => Right(i + 1)}
<1>8. \A i \in 1..n : Z(i) \in SUBSET Bits
  <2>1. \A i \in 1..n : i - 1 \in 0..n
    OBVIOUS
  <2> QED BY <1>2, <2>1, XorType
<1>9. 0 \in S
  <2>1. 1 \in 1..n /\ 1 - 1 = 0 /\ n + 1 - 1 = n /\ n \in 1..8
    OBVIOUS
  <2>2. f[1] = PMULL_ACCUMULATE_STD(first, p[n], NoSum)
    <3>1. f[0] = NoSum
      BY <1>5 DEF SumsOf
    <3> QED BY <1>4, <1>6, <2>1, <3>1
  <2>3. PICK g \in SUBSET Bits : g = p[n]
    BY <1>7, <2>1
  <2>4. IsSum(f[1]) /\ Reduced(f[1]) = Xor({}, Times(first, vrbitq_u8(g)))
    <3>1. PICK next : next = PMULL_ACCUMULATE_STD(first, g, NoSum)
      OBVIOUS
    <3>2. IsSum(NoSum) /\ Reduced(NoSum) = {}
      BY NothingYet
    <3>3. IsSum(next) /\ Reduced(next) = Xor(Reduced(NoSum), Times(first, vrbitq_u8(g)))
      BY <3>1, <3>2, Accumulate
    <3>4. f[1] = next
      BY <2>2, <2>3, <3>1
    <3> QED BY <3>2, <3>3, <3>4
  <2>5. \A t : Xor({}, t) = t
    BY XorLaws
  <2>6. Right(1)
    BY <1>3, <2>1, <2>3, <2>4, <2>5
  <2> QED
    <3> HIDE DEF Right
    <3>1. 0 + 1 = 1
      OBVIOUS
    <3> QED BY <2>6, <3>1
<1>10. ASSUME NEW m \in Nat, m \in S PROVE m + 1 \in S
  <2> SUFFICES ASSUME (m + 1) + 1 <= n PROVE Right((m + 1) + 1)
    OBVIOUS
  <2>1. PICK i \in 1..n - 1 : i = m + 1
    OBVIOUS
  <2>2. Right(i)
    <3> HIDE DEF Right
    <3>1. m + 1 <= n
      OBVIOUS
    <3> QED BY <1>10, <2>1, <3>1
  <2>3. PICK k \in 1..7 : k = n - i
    OBVIOUS
  <2>4. n + 1 - i = k + 1 /\ n + 1 - (i + 1) = k /\ k \in 1..8 /\ k + 1 \in 1..8 /\ i \in 1..n
        /\ i + 1 \in 1..n /\ i + 1 \in 2..n /\ (i + 1) - 1 = i /\ i \in 0..n
    BY <2>3
  <2>5. PICK g \in SUBSET Bits, q \in SUBSET Bits : g = p[k] /\ q = vrbitq_u8(g)
    BY <1>7, <2>4
  <2>6. vrbitq_u8(p[k + 1]) = Times(q, h)
    BY <2>5 DEF Powers
  <2>7. PICK z \in SUBSET Bits, b \in SUBSET Bits, v \in SUBSET Bits : z = Z(i) /\ b = blocks[i + 1] /\ v = y[i]
    <3> HIDE DEF Z
    <3> QED BY <1>2, <1>8, <2>4
  <2>8. v = Times(z, h)
    BY <1>2, <2>4, <2>7
  <2>9. Reduced(f[i]) = Times(v, q)
    <3>1. Reduced(f[i]) = Times(z, Times(q, h))
      BY <2>2, <2>4, <2>6, <2>7
    <3>2. Times(z, Times(q, h)) = Times(z, Times(h, q))
      BY TimesLaws
    <3>3. Times(z, Times(h, q)) = Times(Times(z, h), q)
      BY TimesLaws
    <3> QED BY <2>8, <3>1, <3>2, <3>3
  <2>10. f[i + 1] = PMULL_ACCUMULATE_STD(b, g, f[i])
    <3>1. f[i + 1] = PMULL_ACCUMULATE_STD(bs[i + 1], p[n + 1 - (i + 1)], f[(i + 1) - 1])
      BY <1>6, <2>4
    <3>2. bs[i + 1] = b
      BY <1>4, <2>4, <2>7
    <3> QED BY <2>4, <2>5, <3>1, <3>2
  <2>11. IsSum(f[i])
    BY <2>2
  <2>12. IsSum(f[i + 1]) /\ Reduced(f[i + 1]) = Xor(Times(v, q), Times(b, q))
    <3>1. PICK last, next : last = f[i] /\ next = PMULL_ACCUMULATE_STD(b, g, last)
      OBVIOUS
    <3>2. IsSum(last)
      BY <2>11, <3>1
    <3>3. IsSum(next) /\ Reduced(next) = Xor(Reduced(last), Times(b, vrbitq_u8(g)))
      BY <3>1, <3>2, Accumulate
    <3>4. f[i + 1] = next
      BY <2>10, <3>1
    <3>5. Reduced(last) = Times(v, q)
      BY <2>9, <3>1
    <3> QED BY <2>5, <3>3, <3>4, <3>5
  <2>13. Times(Xor(v, b), q) = Xor(Times(v, q), Times(b, q))
    BY TimesLaws
  <2>14. Z(i + 1) = Xor(v, b)
    BY <2>4, <2>7
  <2>15. Right(i + 1)
    BY <2>4, <2>5, <2>12, <2>13, <2>14
  <2> QED BY <2>1, <2>15
<1>11. Right(n)
  <2> HIDE DEF Right
  <2>1. Nat \subseteq S
    <3> HIDE DEF S
    <3> QED BY <1>9, <1>10, SetInduction
  <2>2. n - 1 \in Nat /\ (n - 1) + 1 = n
    OBVIOUS
  <2> QED BY <2>1, <2>2
<1>12. Times(Z(n), vrbitq_u8(p[n + 1 - n])) = y[n]
  <2>1. n + 1 - n = 1 /\ n \in 1..n
    OBVIOUS
  <2>2. vrbitq_u8(p[1]) = h
    BY DEF Powers
  <2> QED BY <1>2, <2>1, <2>2
<1> QED BY <1>1, <1>4, <1>5, <1>11, <1>12

-----------------------------------------------------------------------------
(* GHASH, block after block.                                               *)

LEMMA GhashIs ==
  ASSUME NEW h \in SUBSET Bits, NEW s \in Seq(SUBSET Bits)
  PROVE  \E f : Hashing(f, s, h) /\ f[0] = {} /\ Ghash(h, s) = f[Len(s)]
<1> DEFINE Eq(f) == f = [i \in 0..Len(s) |-> IF i = 0 THEN {} ELSE Times(Xor(f[i - 1], s[i]), h)]
<1>0. PICK n \in Nat : n = Len(s) /\ \A i \in 1..n : s[i] \in SUBSET Bits
  OBVIOUS
<1>1. PICK F : F = [x \in Nat \X SUBSET Bits |->
                      IF x[1] \in 1..n THEN Times(Xor(x[2], s[x[1]]), h) ELSE {}]
  OBVIOUS
<1>2. \A i \in Nat, v \in SUBSET Bits :
         F[<<i, v>>] = IF i \in 1..n THEN Times(Xor(v, s[i]), h) ELSE {}
  BY <1>1
<1>3. ASSUME NEW i \in Nat, NEW v \in SUBSET Bits PROVE F[<<i, v>>] \in SUBSET Bits
  <2>1. CASE i \in 1..n
    <3>1. PICK x \in SUBSET Bits : x = Xor(v, s[i])
      BY <1>0, <2>1, XorType
    <3>2. Times(x, h) \in SUBSET Bits
      BY TimesLaws
    <3> QED BY <1>2, <2>1, <3>1, <3>2
  <2>2. CASE i \notin 1..n
    BY <1>2, <2>2
  <2> QED BY <2>1, <2>2
<1>4. PICK f \in [0..n -> SUBSET Bits] : Follow(f, n, {}, F)
  <2>1. {} \in SUBSET Bits
    OBVIOUS
  <2> QED BY <1>3, <2>1, Recursion
<1>5. f[0] = {} /\ \A i \in 1..n : f[i] = Times(Xor(f[i - 1], s[i]), h)
  <2>1. \A i \in 1..n : i \in Nat /\ f[i - 1] \in SUBSET Bits
    OBVIOUS
  <2> QED BY <1>2, <1>4, <2>1 DEF Follow
<1>6. Eq(f)
  <2>1. PICK z : z = [i \in 0..n |-> IF i = 0 THEN {} ELSE Times(Xor(f[i - 1], s[i]), h)]
    OBVIOUS
  <2>2. \A i \in 0..n : z[i] = f[i]
    BY <1>5, <2>1
  <2>3. z = [i \in 0..n |-> z[i]] /\ f = [i \in 0..n |-> f[i]]
    BY <2>1
  <2>4. z = f
    BY <2>2, <2>3
  <2> QED BY <1>0, <2>1, <2>4
<1>7. PICK g : g = CHOOSE x : Eq(x)
  OBVIOUS
<1>8. Eq(g)
  BY <1>6, <1>7
<1>9. Ghash(h, s) = g[n]
  BY <1>0, <1>7 DEF Ghash
<1>10. g[0] = {} /\ \A i \in 1..n : g[i] = Times(Xor(g[i - 1], s[i]), h)
  <2>1. PICK z : z = [i \in 0..n |-> IF i = 0 THEN {} ELSE Times(Xor(g[i - 1], s[i]), h)]
    OBVIOUS
  <2>2. z[0] = {} /\ \A i \in 1..n : z[i] = Times(Xor(g[i - 1], s[i]), h)
    BY <2>1
  <2>3. g = z
    BY <1>0, <1>8, <2>1
  <2> QED BY <2>2, <2>3
<1>11. \A i \in 0..n : g[i] = f[i]
  <2> DEFINE S == {i \in Nat : i <= n => g[i] = f[i]}
  <2>1. 0 \in S
    BY <1>5, <1>10
  <2>2. ASSUME NEW m \in Nat, m \in S PROVE m + 1 \in S
    <3> SUFFICES ASSUME m + 1 <= n PROVE g[m + 1] = f[m + 1]
      OBVIOUS
    <3>1. PICK k \in 1..n : k = m + 1 /\ k - 1 = m
      OBVIOUS
    <3>2. g[m] = f[m]
      BY <2>2, <3>1
    <3>3. g[k] = Times(Xor(g[k - 1], s[k]), h) /\ f[k] = Times(Xor(f[k - 1], s[k]), h)
      BY <1>5, <1>10
    <3> QED BY <3>1, <3>2, <3>3
  <2>3. Nat \subseteq S
    <3> HIDE DEF S
    <3> QED BY <2>1, <2>2, SetInduction
  <2> QED BY <2>3
<1>12. \A i \in 0..n : g[i] \in SUBSET Bits
  BY <1>11
<1>13. Hashing(g, s, h)
  BY <1>0, <1>10, <1>12 DEF Hashing
<1> QED BY <1>0, <1>9, <1>10, <1>13

\* Of blocks that go on in the same way, as far as they do.
LEMMA GhashAlong ==
  ASSUME NEW s \in Seq(SUBSET Bits), NEW h \in SUBSET Bits, NEW f, Hashing(f, s, h), f[0] = {},
         NEW t \in Seq(SUBSET Bits), Len(t) <= Len(s), \A i \in 1..Len(t) : t[i] = s[i]
  PROVE  Ghash(h, t) = f[Len(t)]
<1>1. PICK n \in Nat, m \in Nat : n = Len(t) /\ m = Len(s) /\ n <= m
  OBVIOUS
<1>2. PICK g : Hashing(g, t, h) /\ g[0] = {} /\ Ghash(h, t) = g[n]
  BY <1>1, GhashIs
<1>3. \A i \in 1..n : g[i] = Times(Xor(g[i - 1], t[i]), h) /\ f[i] = Times(Xor(f[i - 1], t[i]), h)
  <2>1. \A i \in 1..n : i \in 1..m
    BY <1>1
  <2>2. \A i \in 1..n : g[i] = Times(Xor(g[i - 1], t[i]), h)
    BY <1>1, <1>2 DEF Hashing
  <2>3. \A i \in 1..m : f[i] = Times(Xor(f[i - 1], s[i]), h)
    BY <1>1 DEF Hashing
  <2>4. \A i \in 1..n : t[i] = s[i]
    BY <1>1
  <2> QED BY <2>1, <2>2, <2>3, <2>4
<1> DEFINE S == {i \in Nat : i <= n => g[i] = f[i]}
<1>4. 0 \in S
  BY <1>2
<1>5. ASSUME NEW i \in Nat, i \in S PROVE i + 1 \in S
  <2> SUFFICES ASSUME i + 1 <= n PROVE g[i + 1] = f[i + 1]
    OBVIOUS
  <2>1. PICK k \in 1..n : k = i + 1 /\ k - 1 = i
    OBVIOUS
  <2>2. g[i] = f[i]
    BY <1>5, <2>1
  <2>3. g[k] = Times(Xor(g[k - 1], t[k]), h) /\ f[k] = Times(Xor(f[k - 1], t[k]), h)
    BY <1>3
  <2> QED BY <2>1, <2>2, <2>3
<1>6. n \in S
  <2> HIDE DEF S
  <2> QED BY <1>4, <1>5, SetInduction
<1> QED BY <1>1, <1>2, <1>6

\* One more block.
LEMMA GhashAppend ==
  ASSUME NEW h \in SUBSET Bits, NEW s \in Seq(SUBSET Bits), NEW b \in SUBSET Bits
  PROVE  /\ Ghash(h, s) \in SUBSET Bits
         /\ Ghash(h, Append(s, b)) = Times(Xor(Ghash(h, s), b), h)
<1>1. PICK n \in Nat : n = Len(s)
  OBVIOUS
<1>2. PICK t \in Seq(SUBSET Bits) :
        t = Append(s, b) /\ Len(t) = n + 1 /\ (\A i \in 1..n : t[i] = s[i]) /\ t[n + 1] = b
  <2>1. /\ Append(s, b) \in Seq(SUBSET Bits) /\ Len(Append(s, b)) = Len(s) + 1
        /\ (\A i \in 1..Len(s) : Append(s, b)[i] = s[i]) /\ Append(s, b)[Len(s) + 1] = b
    BY AppendProperties
  <2> QED BY <1>1, <2>1
<1>3. PICK f : Hashing(f, t, h) /\ f[0] = {} /\ Ghash(h, t) = f[n + 1]
  <2>1. PICK f : Hashing(f, t, h) /\ f[0] = {} /\ Ghash(h, t) = f[Len(t)]
    BY GhashIs
  <2>2. Len(t) = n + 1
    BY <1>2
  <2> QED BY <2>1, <2>2
<1>4. Ghash(h, s) = f[n]
  <2>1. Len(s) <= Len(t) /\ \A i \in 1..Len(s) : s[i] = t[i]
    BY <1>1, <1>2
  <2> QED BY <1>1, <1>3, <2>1, GhashAlong
<1>5. f[n] \in SUBSET Bits /\ f[n + 1] = Times(Xor(f[n], t[n + 1]), h)
  <2>1. n \in 0..n + 1 /\ n + 1 \in 1..n + 1 /\ (n + 1) - 1 = n
    OBVIOUS
  <2> QED BY <1>2, <1>3, <2>1 DEF Hashing
<1> QED BY <1>2, <1>3, <1>4, <1>5

LEMMA GhashOfNone ==
  ASSUME NEW h \in SUBSET Bits
  PROVE  Ghash(h, <<>>) = {}
<1>1. <<>> \in Seq(SUBSET Bits) /\ Len(<<>>) = 0
  OBVIOUS
<1>2. PICK f : f[0] = {} /\ Ghash(h, <<>>) = f[0]
  BY <1>1, GhashIs
<1> QED BY <1>2

-----------------------------------------------------------------------------
(* What GCM makes of a message.                                            *)

Message == [h : SUBSET Bits, aad : Seq(SUBSET Bits), aad_len : Nat,
            text : Seq(SUBSET Bits), text_len : Nat]

\* A message as ScheduleAssumption has it.
Good(m) ==
  /\ m \in Message /\ m.aad_len <= 16 * Len(m.aad) /\ m.text_len <= 16 * Len(m.text)
  /\ \A c \in 1..Len(m.text) + 1 : Aes(m.h, c) \in SUBSET Bits

Enciphered(m) == [i \in DOMAIN m.text |-> Xor(m.text[i], Aes(m.h, i + 1))]
AadOf(m) == Padded(m.aad, m.aad_len)
TextOf(m) == Padded(m.text, m.text_len)
CipherOf(m) == Padded(Enciphered(m), m.text_len)

\* The two lengths as bits of one block.
LengthBits(bytes) == {k \in 0..15 : ((8 * bytes) \div 2^k) % 2 = 1}
LengthsOf(m) == BigEndian(m.aad_len, 0) \cup BigEndian(m.text_len, 1)

LEMMA WholeAndRest ==
  ASSUME NEW len \in Nat
  PROVE  Whole(len) \in Nat /\ Rest(len) \in 0..15 /\ len = 16 * Whole(len) + Rest(len)
BY DEF Whole, Rest

LEMMA MaskedType ==
  ASSUME NEW b \in SUBSET Bits, NEW n
  PROVE  Masked(b, n) \in SUBSET Bits
BY DEF Masked

LEMMA PaddedIs ==
  ASSUME NEW s \in Seq(SUBSET Bits), NEW len \in Nat
  PROVE  /\ Padded(s, len) \in Seq(SUBSET Bits)
         /\ Len(Padded(s, len)) = Len(s)
         /\ \A i \in 1..Len(s) : Padded(s, len)[i] = IF i <= Whole(len) THEN s[i]
                                                     ELSE Masked(s[i], Rest(len))
<1>1. PICK n \in Nat : n = Len(s) /\ DOMAIN s = 1..n /\ \A i \in 1..n : s[i] \in SUBSET Bits
  OBVIOUS
<1>2. PICK p : p = [i \in 1..n |-> IF i <= Whole(len) THEN s[i] ELSE Masked(s[i], Rest(len))]
  OBVIOUS
<1>3. \A i \in 1..n : p[i] = IF i <= Whole(len) THEN s[i] ELSE Masked(s[i], Rest(len))
  BY <1>2
<1>4. \A i \in 1..n : p[i] \in SUBSET Bits
  BY <1>1, <1>3, MaskedType
<1>5. p = [i \in 1..n |-> p[i]]
  BY <1>2
<1>6. p \in Seq(SUBSET Bits) /\ Len(p) = n
  <2>1. p \in [1..n -> SUBSET Bits]
    BY <1>4, <1>5
  <2> QED BY <2>1
<1>7. Padded(s, len) = p
  BY <1>1, <1>2 DEF Padded
<1> QED BY <1>1, <1>3, <1>6, <1>7

LEMMA EncipheredIs ==
  ASSUME NEW m, Good(m)
  PROVE  /\ Enciphered(m) \in Seq(SUBSET Bits) /\ Len(Enciphered(m)) = Len(m.text)
         /\ \A i \in 1..Len(m.text) : Enciphered(m)[i] = Xor(m.text[i], Aes(m.h, i + 1))
<1>1. PICK s \in Seq(SUBSET Bits) : s = m.text
  BY DEF Good, Message
<1>2. PICK n \in Nat : n = Len(s) /\ DOMAIN s = 1..n /\ \A i \in 1..n : s[i] \in SUBSET Bits
  OBVIOUS
<1>3. \A i \in 1..n : Aes(m.h, i + 1) \in SUBSET Bits
  <2>1. \A i \in 1..n : i + 1 \in 1..n + 1
    OBVIOUS
  <2> QED BY <1>1, <1>2, <2>1 DEF Good
<1>4. \A i \in 1..n : Xor(s[i], Aes(m.h, i + 1)) \in SUBSET Bits
  BY <1>2, <1>3, XorType
<1>5. PICK p : p = [i \in 1..n |-> Xor(s[i], Aes(m.h, i + 1))]
  OBVIOUS
<1>6. \A i \in 1..n : p[i] = Xor(s[i], Aes(m.h, i + 1))
  BY <1>5
<1>7. p = [i \in 1..n |-> p[i]]
  BY <1>5
<1>8. p \in [1..n -> SUBSET Bits]
  BY <1>4, <1>6, <1>7
<1>9. p \in Seq(SUBSET Bits) /\ Len(p) = n
  BY <1>8
<1>10. Enciphered(m) = p
  BY <1>1, <1>2, <1>5 DEF Enciphered
<1> QED BY <1>1, <1>2, <1>6, <1>9, <1>10

\* The blocks of a message.
LEMMA MessageIs ==
  ASSUME NEW m, Good(m)
  PROVE  /\ AadOf(m) \in Seq(SUBSET Bits) /\ Len(AadOf(m)) = Len(m.aad)
         /\ TextOf(m) \in Seq(SUBSET Bits) /\ Len(TextOf(m)) = Len(m.text)
         /\ CipherOf(m) \in Seq(SUBSET Bits) /\ Len(CipherOf(m)) = Len(m.text)
         /\ m.h \in SUBSET Bits /\ Len(m.aad) \in Nat /\ Len(m.text) \in Nat
         /\ Whole(m.text_len) \in 0..Len(m.text)
         /\ Rest(m.text_len) > 0 => Whole(m.text_len) + 1 <= Len(m.text)
<1>1. PICK a \in Seq(SUBSET Bits), s \in Seq(SUBSET Bits), la \in Nat, ls \in Nat :
        /\ a = m.aad /\ s = m.text /\ la = m.aad_len /\ ls = m.text_len /\ ls <= 16 * Len(s)
  BY DEF Good, Message
<1>2. PICK e \in Seq(SUBSET Bits) : e = Enciphered(m) /\ Len(e) = Len(s)
  BY <1>1, EncipheredIs
<1>3. Padded(a, la) \in Seq(SUBSET Bits) /\ Len(Padded(a, la)) = Len(a)
  BY PaddedIs
<1>4. Padded(s, ls) \in Seq(SUBSET Bits) /\ Len(Padded(s, ls)) = Len(s)
  BY PaddedIs
<1>5. Padded(e, ls) \in Seq(SUBSET Bits) /\ Len(Padded(e, ls)) = Len(e)
  BY PaddedIs
<1>6. m.h \in SUBSET Bits
  BY DEF Good, Message
<1>7. Len(a) \in Nat /\ Len(s) \in Nat
  OBVIOUS
<1>8. PICK n \in Nat : n = Len(s)
  OBVIOUS
<1>9. Whole(ls) \in 0..n /\ (Rest(ls) > 0 => Whole(ls) + 1 <= n)
  <2>1. PICK w \in Nat : w = Whole(ls)
    BY WholeAndRest
  <2>2. PICK r \in 0..15 : r = Rest(ls)
    BY WholeAndRest
  <2>3. ls = 16 * w + r
    BY <2>1, <2>2, WholeAndRest
  <2>4. ls <= 16 * n
    BY <1>1, <1>8
  <2>5. w \in 0..n /\ (r > 0 => w + 1 <= n)
    BY <2>3, <2>4
  <2> QED BY <2>1, <2>2, <2>5
<1> QED BY <1>1, <1>2, <1>3, <1>4, <1>5, <1>6, <1>7, <1>8, <1>9 DEF AadOf, TextOf, CipherOf

-----------------------------------------------------------------------------
(* The block of lengths.                                                   *)

LEMMA InLengths ==
  ASSUME NEW b \in 0..15
  PROVE  /\ 64 + 8 * (7 - (b \div 8)) + (b % 8) = Mirror(127 - b)
         /\ 8 * (7 - (b \div 8)) + (b % 8) = Mirror(63 - b)
         /\ 63 - b \in Bits /\ 127 - b \in Bits
<1>1. PICK q \in 0..1, r \in 0..7 : q = b \div 8 /\ r = b % 8 /\ b = 8 * q + r
  OBVIOUS
<1>2. 63 - b = 8 * (7 - q) + (7 - r) /\ 127 - b = 8 * (15 - q) + (7 - r)
  BY <1>1
<1>3. (63 - b) \div 8 = 7 - q /\ (63 - b) % 8 = 7 - r
  BY <1>2
<1>4. (127 - b) \div 8 = 15 - q /\ (127 - b) % 8 = 7 - r
  BY <1>2
<1>5. 63 - b \in Bits /\ 127 - b \in Bits
  BY DEF Bits
<1> QED BY <1>1, <1>3, <1>4, <1>5 DEF Mirror

LEMMA LengthsAre ==
  ASSUME NEW K \in SUBSET (0..15), NEW L \in SUBSET (0..15)
  PROVE  /\ vrbitq_u8({63 - b : b \in K} \cup {127 - b : b \in L}) =
              {64 * 0 + 8 * (7 - (k \div 8)) + (k % 8) : k \in K} \cup
              {64 * 1 + 8 * (7 - (k \div 8)) + (k % 8) : k \in L}
         /\ {63 - b : b \in K} \cup {127 - b : b \in L} \in SUBSET Bits
<1>1. PICK v : v = {63 - b : b \in K} \cup {127 - b : b \in L}
  OBVIOUS
<1>2. v \in SUBSET Bits
  BY <1>1, InLengths
<1>3. vrbitq_u8(v) = {Mirror(i) : i \in v}
  BY DEF vrbitq_u8, Mirror
<1>4. {Mirror(i) : i \in v} = {Mirror(63 - b) : b \in K} \cup {Mirror(127 - b) : b \in L}
  BY <1>1
<1>5. {Mirror(63 - b) : b \in K} = {64 * 0 + 8 * (7 - (k \div 8)) + (k % 8) : k \in K}
  <2>1. \A b \in K : Mirror(63 - b) = 64 * 0 + 8 * (7 - (b \div 8)) + (b % 8)
    <3> SUFFICES ASSUME NEW b \in K PROVE Mirror(63 - b) = 64 * 0 + 8 * (7 - (b \div 8)) + (b % 8)
      OBVIOUS
    <3>1. PICK x \in Int, y \in Int : x = b \div 8 /\ y = b % 8
      OBVIOUS
    <3>2. Mirror(63 - b) = 8 * (7 - x) + y
      BY <3>1, InLengths
    <3>3. 64 * 0 + 8 * (7 - x) + y = 8 * (7 - x) + y
      OBVIOUS
    <3> QED BY <3>1, <3>2, <3>3
  <2> QED BY <2>1, Zenon
<1>6. {Mirror(127 - b) : b \in L} = {64 * 1 + 8 * (7 - (k \div 8)) + (k % 8) : k \in L}
  <2>1. \A b \in L : Mirror(127 - b) = 64 * 1 + 8 * (7 - (b \div 8)) + (b % 8)
    <3> SUFFICES ASSUME NEW b \in L PROVE Mirror(127 - b) = 64 * 1 + 8 * (7 - (b \div 8)) + (b % 8)
      OBVIOUS
    <3>1. PICK x \in Int, y \in Int : x = b \div 8 /\ y = b % 8
      OBVIOUS
    <3>2. Mirror(127 - b) = 64 + 8 * (7 - x) + y
      BY <3>1, InLengths
    <3>3. 64 * 1 + 8 * (7 - x) + y = 64 + 8 * (7 - x) + y
      OBVIOUS
    <3> QED BY <3>1, <3>2, <3>3
  <2> QED BY <2>1, Zenon
<1> QED BY <1>1, <1>2, <1>3, <1>4, <1>5, <1>6, Zenon

\* The lengths the engine adds are the block of lengths of GCM.
LEMMA LengthBlock ==
  ASSUME NEW la \in Nat, NEW ls \in Nat
  PROVE  /\ BigEndian(la, 0) \cup BigEndian(ls, 1) =
              vrbitq_u8({63 - b : b \in LengthBits(la)} \cup {127 - b : b \in LengthBits(ls)})
         /\ BigEndian(la, 0) \cup BigEndian(ls, 1) \in SUBSET Bits
<1>1. \A n : LengthBits(n) \in SUBSET (0..15)
  BY Zenon DEF LengthBits
<1>2. \A n, half : BigEndian(n, half) = {64 * half + 8 * (7 - (k \div 8)) + (k % 8) : k \in LengthBits(n)}
  BY Zenon DEF BigEndian, LengthBits
<1>3. PICK K \in SUBSET (0..15), L \in SUBSET (0..15) : K = LengthBits(la) /\ L = LengthBits(ls)
  BY <1>1
<1>4. PICK v \in SUBSET Bits : v = {63 - b : b \in K} \cup {127 - b : b \in L}
  BY LengthsAre
<1>5. BigEndian(la, 0) \cup BigEndian(ls, 1) = vrbitq_u8(v)
  BY <1>2, <1>3, <1>4, LengthsAre, Zenon
<1>6. vrbitq_u8(v) \in SUBSET Bits
  BY Reversed
<1> QED BY <1>3, <1>4, <1>5, <1>6

-----------------------------------------------------------------------------
(* The hash of a message as it grows.                                      *)

HashAt(m, a, p) == Ghash(m.h, SubSeq(AadOf(m), 1, a) \o SubSeq(CipherOf(m), 1, p))
FinalHash(m) ==
  Ghash(m.h, Append(SubSeq(AadOf(m), 1, Len(m.aad)) \o SubSeq(CipherOf(m), 1, Len(m.text)),
                    LengthsOf(m)))

LEMMA Prefix ==
  ASSUME NEW t \in Seq(SUBSET Bits), NEW n \in 0..Len(t)
  PROVE  SubSeq(t, 1, n) \in Seq(SUBSET Bits) /\ Len(SubSeq(t, 1, n)) = n
         /\ \A i \in 1..n : SubSeq(t, 1, n)[i] = t[i]
<1>1. \A i \in 1..n : i \in 1..Len(t) /\ t[i] \in SUBSET Bits
  OBVIOUS
<1>2. 1 \in Int /\ n \in Int /\ (n < 1 => n = 0)
  OBVIOUS
<1>3. /\ SubSeq(t, 1, n) \in Seq(SUBSET Bits)
      /\ Len(SubSeq(t, 1, n)) = IF 1 <= n THEN n - 1 + 1 ELSE 0
      /\ \A i \in 1..n - 1 + 1 : SubSeq(t, 1, n)[i] = t[1 + i - 1]
  BY <1>1, <1>2, SubSeqProperties
<1>4. n - 1 + 1 = n /\ \A i \in 1..n : 1 + i - 1 = i
  OBVIOUS
<1> QED BY <1>2, <1>3, <1>4

LEMMA PrefixNext ==
  ASSUME NEW t \in Seq(SUBSET Bits), NEW n \in 1..Len(t)
  PROVE  SubSeq(t, 1, n) = SubSeq(t, 1, n - 1) \o <<t[n]>>
<1>1. 1 \in 1..Len(t) /\ n \in 1..Len(t)
  OBVIOUS
<1> QED BY <1>1, SubSeqRecursiveSecond

LEMMA BlocksAssociate ==
  ASSUME NEW s \in Seq(SUBSET Bits), NEW t \in Seq(SUBSET Bits), NEW u \in Seq(SUBSET Bits)
  PROVE  (s \o t) \o u = s \o (t \o u)
OBVIOUS

LEMMA Longer ==
  ASSUME NEW s \in Seq(SUBSET Bits), NEW t \in Seq(SUBSET Bits), NEW n \in 1..Len(t)
  PROVE  /\ s \o SubSeq(t, 1, n - 1) \in Seq(SUBSET Bits)
         /\ s \o SubSeq(t, 1, n) = Append(s \o SubSeq(t, 1, n - 1), t[n])
<1>1. PICK k \in 0..Len(t) : k = n - 1
  OBVIOUS
<1>2. PICK u \in Seq(SUBSET Bits) : u = SubSeq(t, 1, k)
  BY Prefix
<1>3. PICK b \in SUBSET Bits : b = t[n]
  BY ElementOfSeq
<1>4. PICK e \in Seq(SUBSET Bits) : e = <<b>>
  <2>1. <<b>> \in Seq(SUBSET Bits)
    OBVIOUS
  <2> QED BY <2>1
<1>5. SubSeq(t, 1, n) = u \o e
  BY <1>1, <1>2, <1>3, <1>4, PrefixNext
<1>6. PICK v \in Seq(SUBSET Bits) : v = s \o u
  BY ConcatProperties
<1>7. s \o (u \o e) = v \o e
  <2>1. (s \o u) \o e = s \o (u \o e)
    BY BlocksAssociate
  <2> QED BY <1>6, <2>1
<1>8. Append(v, b) = v \o e
  BY <1>4, AppendIsConcat
<1> QED BY <1>1, <1>2, <1>3, <1>5, <1>6, <1>7, <1>8

\* What one block makes of the hash.
LEMMA HashSteps ==
  ASSUME NEW m, Good(m)
  PROVE  /\ HashAt(m, 0, 0) = {}
         /\ \A a \in 1..Len(m.aad) :
               HashAt(m, a, 0) = Times(Xor(HashAt(m, a - 1, 0), AadOf(m)[a]), m.h)
         /\ \A p \in 1..Len(m.text) : HashAt(m, Len(m.aad), p) =
               Times(Xor(HashAt(m, Len(m.aad), p - 1), CipherOf(m)[p]), m.h)
         /\ \A a \in 0..Len(m.aad), p \in 0..Len(m.text) : HashAt(m, a, p) \in SUBSET Bits
         /\ FinalHash(m) = Times(Xor(HashAt(m, Len(m.aad), Len(m.text)), LengthsOf(m)), m.h)
<1>1. PICK a \in Seq(SUBSET Bits), c \in Seq(SUBSET Bits), h \in SUBSET Bits :
        a = AadOf(m) /\ c = CipherOf(m) /\ h = m.h
  BY MessageIs
<1>2. PICK x \in Nat, y \in Nat : x = Len(m.aad) /\ y = Len(m.text) /\ Len(a) = x /\ Len(c) = y
  BY <1>1, MessageIs
<1>3. \A i, k : HashAt(m, i, k) = Ghash(h, SubSeq(a, 1, i) \o SubSeq(c, 1, k))
  BY <1>1 DEF HashAt
<1>4. SubSeq(c, 1, 0) = <<>> /\ SubSeq(a, 1, 0) = <<>> /\ <<>> \in Seq(SUBSET Bits)
  <2>1. 1 \in Int /\ 0 \in Int /\ 0 < 1
    OBVIOUS
  <2> QED BY <2>1, SubSeqEmpty
<1>5. HashAt(m, 0, 0) = {}
  <2>1. SubSeq(a, 1, 0) \o SubSeq(c, 1, 0) = <<>>
    BY <1>4, ConcatEmptySeq
  <2>2. HashAt(m, 0, 0) = Ghash(h, <<>>)
    BY <1>3, <2>1
  <2>3. Ghash(h, <<>>) = {}
    BY GhashOfNone
  <2> QED BY <2>2, <2>3
<1>6. \A i \in 0..x, k \in 0..y : HashAt(m, i, k) \in SUBSET Bits
  <2> SUFFICES ASSUME NEW i \in 0..x, NEW k \in 0..y PROVE HashAt(m, i, k) \in SUBSET Bits
    OBVIOUS
  <2>1. SubSeq(a, 1, i) \in Seq(SUBSET Bits) /\ SubSeq(c, 1, k) \in Seq(SUBSET Bits)
    BY <1>2, Prefix
  <2>2. PICK s \in Seq(SUBSET Bits) : s = SubSeq(a, 1, i) \o SubSeq(c, 1, k)
    BY <2>1, ConcatProperties
  <2>3. {} \in SUBSET Bits
    OBVIOUS
  <2>4. Ghash(h, s) \in SUBSET Bits
    BY <2>3, GhashAppend
  <2> QED BY <1>3, <2>2, <2>4
<1>7. ASSUME NEW i \in 1..x PROVE HashAt(m, i, 0) = Times(Xor(HashAt(m, i - 1, 0), a[i]), h)
  <2>1. PICK k \in 0..x : k = i - 1
    OBVIOUS
  <2>2. PICK s \in Seq(SUBSET Bits), t \in Seq(SUBSET Bits) : s = SubSeq(a, 1, k) /\ t = SubSeq(a, 1, i)
    <3>1. k \in 0..Len(a) /\ i \in 0..Len(a)
      BY <1>2
    <3>2. SubSeq(a, 1, k) \in Seq(SUBSET Bits) /\ SubSeq(a, 1, i) \in Seq(SUBSET Bits)
      BY <3>1, Prefix
    <3> QED BY <3>2
  <2>3. PICK b \in SUBSET Bits : b = a[i]
    BY <1>2, ElementOfSeq
  <2>4. t = Append(s, b)
    <3>1. i \in 1..Len(a)
      BY <1>2
    <3>2. t = s \o <<b>>
      BY <2>1, <2>2, <2>3, <3>1, PrefixNext
    <3> QED BY <3>2, AppendIsConcat
  <2>5. s \o <<>> = s /\ t \o <<>> = t
    BY ConcatEmptySeq
  <2>6. HashAt(m, i, 0) = Ghash(h, t) /\ HashAt(m, k, 0) = Ghash(h, s)
    BY <1>3, <1>4, <2>2, <2>5
  <2>7. Ghash(h, Append(s, b)) = Times(Xor(Ghash(h, s), b), h)
    BY GhashAppend
  <2> QED BY <2>1, <2>3, <2>4, <2>6, <2>7
<1>8. PICK s \in Seq(SUBSET Bits) : s = SubSeq(a, 1, x)
  <2>1. x \in 0..Len(a)
    BY <1>2
  <2> QED BY <2>1, Prefix
<1>9. ASSUME NEW i \in 1..y PROVE HashAt(m, x, i) = Times(Xor(HashAt(m, x, i - 1), c[i]), h)
  <2>1. i \in 1..Len(c)
    BY <1>2
  <2>2. PICK u \in Seq(SUBSET Bits) : u = s \o SubSeq(c, 1, i - 1)
    BY <2>1, Longer
  <2>3. PICK b \in SUBSET Bits : b = c[i]
    BY <2>1, ElementOfSeq
  <2>4. s \o SubSeq(c, 1, i) = Append(u, b)
    BY <2>1, <2>2, <2>3, Longer
  <2>5. Ghash(h, Append(u, b)) = Times(Xor(Ghash(h, u), b), h)
    BY GhashAppend
  <2> QED BY <1>3, <1>8, <2>2, <2>3, <2>4, <2>5
<1>10. FinalHash(m) = Times(Xor(HashAt(m, x, y), LengthsOf(m)), h)
  <2>1. PICK u \in Seq(SUBSET Bits) : u = s \o SubSeq(c, 1, y)
    <3>1. y \in 0..Len(c)
      BY <1>2
    <3>2. SubSeq(c, 1, y) \in Seq(SUBSET Bits)
      BY <3>1, Prefix
    <3> QED BY <3>2, ConcatProperties
  <2>2. PICK b \in SUBSET Bits : b = LengthsOf(m)
    <3>1. m.aad_len \in Nat /\ m.text_len \in Nat
      BY DEF Good, Message
    <3> QED BY <3>1, LengthBlock DEF LengthsOf
  <2>3. FinalHash(m) = Ghash(h, Append(u, b))
    BY <1>1, <1>2, <1>8, <2>1, <2>2 DEF FinalHash
  <2>4. HashAt(m, x, y) = Ghash(h, u)
    BY <1>3, <1>8, <2>1
  <2>5. Ghash(h, Append(u, b)) = Times(Xor(Ghash(h, u), b), h)
    BY GhashAppend
  <2> QED BY <2>2, <2>3, <2>4, <2>5
<1> QED BY <1>1, <1>2, <1>5, <1>6, <1>7, <1>9, <1>10

\* Several blocks of ciphertext on end.
LEMMA HashStretch ==
  ASSUME NEW m, Good(m), NEW p \in Nat, NEW n \in Nat, p + n <= Len(m.text),
         NEW blocks \in Seq(SUBSET Bits), Len(blocks) = n,
         \A i \in 1..n : blocks[i] = CipherOf(m)[p + i]
  PROVE  \E y : /\ Hashing(y, blocks, m.h)
                /\ y[0] = HashAt(m, Len(m.aad), p) /\ y[n] = HashAt(m, Len(m.aad), p + n)
<1>1. PICK x \in Nat, z \in Nat : x = Len(m.aad) /\ z = Len(m.text)
  BY MessageIs
<1>2. PICK y : y = [i \in 0..n |-> HashAt(m, x, p + i)]
  OBVIOUS
<1>3. \A i \in 0..n : y[i] = HashAt(m, x, p + i)
  BY <1>2
<1>4. p + 0 = p /\ x \in 0..x /\ \A i \in 0..n : p + i \in 0..z
  BY <1>1
<1>5. ASSUME NEW i \in 0..n PROVE y[i] \in SUBSET Bits
  <2>1. PICK k \in 0..z : k = p + i
    BY <1>4
  <2>2. \A a \in 0..x, q \in 0..z : HashAt(m, a, q) \in SUBSET Bits
    BY <1>1, HashSteps
  <2>3. HashAt(m, x, k) \in SUBSET Bits
    BY <1>4, <2>1, <2>2
  <2> QED BY <1>3, <2>1, <2>3
<1>6. ASSUME NEW i \in 1..n PROVE y[i] = Times(Xor(y[i - 1], blocks[i]), m.h)
  <2>1. PICK k \in 1..z : k = p + i
    <3>1. p + n <= z /\ i \in Nat /\ 1 <= i /\ i <= n
      BY <1>1
    <3>2. p + i \in 1..z
      BY <3>1
    <3> QED BY <3>2
  <2>3. k - 1 = p + (i - 1) /\ i \in 0..n /\ i - 1 \in 0..n
    BY <2>1
  <2>2. HashAt(m, x, k) = Times(Xor(HashAt(m, x, k - 1), CipherOf(m)[k]), m.h)
    BY <1>1, HashSteps
  <2> QED BY <1>3, <2>1, <2>2, <2>3
<1>7. Hashing(y, blocks, m.h)
  BY <1>5, <1>6 DEF Hashing
<1>8. y[0] = HashAt(m, x, p) /\ y[n] = HashAt(m, x, p + n)
  BY <1>3, <1>4
<1> QED BY <1>1, <1>7, <1>8

-----------------------------------------------------------------------------
(* One engine.                                                             *)

Engine == [is_key_cached : BOOLEAN, key : SUBSET Bits, powers : Seq(SUBSET Bits),
           current_hash : SUBSET Bits, ctr : Nat, on : BOOLEAN, aad : Nat, pos : Nat,
           done : BOOLEAN, verified : BOOLEAN]

\* What is cached belongs to the key.
EngineOk(e) ==
  /\ e \in Engine
  /\ e.is_key_cached => Powers(e.powers, e.key)
  /\ ~e.on => ~e.done

\* An engine that is on message m: how far it is fits its counter and its hash.
Works(e, m) ==
  /\ e.is_key_cached /\ e.key = m.h
  /\ e.aad \in 0..Len(m.aad) /\ e.pos \in 0..Len(m.text) /\ e.ctr = e.pos + 2
  /\ e.aad < Len(m.aad) => e.pos = 0
  /\ ~e.done => e.current_hash = HashAt(m, e.aad, e.pos)
  /\ e.done => /\ e.aad = Len(m.aad) /\ e.pos = Len(m.text)
               /\ e.current_hash = FinalHash(m)

LEMMA AbsorbOne ==
  ASSUME NEW e, EngineOk(e), e.is_key_cached, NEW b \in SUBSET Bits
  PROVE  Absorb(e, b) = Times(Xor(e.current_hash, b), e.key) /\ Absorb(e, b) \in SUBSET Bits
<1>1. PICK h \in SUBSET Bits, k \in SUBSET Bits : h = e.current_hash /\ k = e.key
  BY DEF EngineOk, Engine
<1>2. PICK g \in SUBSET Bits : g = e.powers[1] /\ vrbitq_u8(g) = k
  <2>1. 1 \in 1..8 /\ Powers(e.powers, e.key)
    BY DEF EngineOk
  <2> QED BY <1>1, <2>1 DEF Powers
<1>3. PICK x \in SUBSET Bits : x = Xor(h, b)
  BY XorType
<1>4. gf_mul_arm(x, g) = Times(x, k)
  BY <1>2, ArmMultiplies
<1>5. Times(x, k) \in SUBSET Bits
  BY TimesLaws
<1>6. Absorb(e, b) = gf_mul_arm(x, g)
  BY <1>1, <1>2, <1>3 DEF Absorb
<1> QED BY <1>1, <1>3, <1>4, <1>5, <1>6

LEMMA AbsorbSeveral ==
  ASSUME NEW e, EngineOk(e), e.is_key_cached, NEW blocks \in Seq(SUBSET Bits), Len(blocks) \in 1..8,
         NEW y, Hashing(y, blocks, e.key), y[0] = e.current_hash
  PROVE  AbsorbWide(e, blocks) = y[Len(blocks)]
<1>1. PICK k, p : k \in SUBSET Bits /\ k = e.key /\ p = e.powers /\ Powers(p, k)
  BY DEF EngineOk, Engine
<1>2. gf_sum_arm(<<Xor(y[0], blocks[1])>> \o Tail(blocks), p) = y[Len(blocks)]
  BY <1>1, WideHashes
<1> QED BY <1>1, <1>2 DEF AbsorbWide

\* An engine in front of a new message.
LEMMA Begun ==
  ASSUME NEW e, EngineOk(e), NEW m, Good(m)
  PROVE  /\ EngineOk(init(e, m.h)) /\ Works(init(e, m.h), m)
         /\ init(e, m.h).on /\ ~init(e, m.h).done /\ init(e, m.h).pos = 0
<1>1. PICK h \in SUBSET Bits : h = m.h
  BY DEF Good, Message
<1>2. PICK p \in Seq(SUBSET Bits) :
        p = (IF e.is_key_cached /\ e.key = h THEN e.powers ELSE HashKeys(h)) /\ Powers(p, h)
  <2>1. CASE e.is_key_cached /\ e.key = h
    BY <2>1 DEF EngineOk, Engine
  <2>2. CASE ~(e.is_key_cached /\ e.key = h)
    BY <2>2, HashKeysIs
  <2> QED BY <2>1, <2>2
<1>3. PICK f : f = [is_key_cached |-> TRUE, key |-> h, powers |-> p, current_hash |-> {},
                    ctr |-> 2, on |-> TRUE, aad |-> 0, pos |-> 0, done |-> FALSE,
                    verified |-> FALSE]
  OBVIOUS
<1>4. f = init(e, m.h)
  BY <1>1, <1>2, <1>3 DEF init
<1>5. /\ f.is_key_cached = TRUE /\ f.key = h /\ f.powers = p /\ f.current_hash = {} /\ f.ctr = 2
      /\ f.on = TRUE /\ f.aad = 0 /\ f.pos = 0 /\ f.done = FALSE
  BY <1>3
<1>6. f \in Engine
  BY <1>3 DEF Engine
<1>7. EngineOk(f)
  BY <1>2, <1>5, <1>6 DEF EngineOk
<1>8. Works(f, m)
  <2>1. HashAt(m, 0, 0) = {} /\ Len(m.aad) \in Nat /\ Len(m.text) \in Nat
    BY HashSteps, MessageIs
  <2>2. 0 \in 0..Len(m.aad) /\ 0 \in 0..Len(m.text) /\ 2 = 0 + 2
    BY <2>1
  <2> QED BY <1>1, <1>5, <2>1, <2>2 DEF Works
<1> QED BY <1>4, <1>5, <1>7, <1>8

\* One block of additional data.
LEMMA AadStep ==
  ASSUME NEW e, NEW m, m = msg, Good(m), EngineOk(e), Works(e, m), AadNext(e)
  PROVE  /\ EngineOk(WithAad(e)) /\ Works(WithAad(e), m)
         /\ WithAad(e).on /\ ~WithAad(e).done /\ WithAad(e).pos = e.pos /\ ~e.done
<1>1. PICK s \in Seq(SUBSET Bits), len \in Nat, h \in SUBSET Bits : s = m.aad /\ len = m.aad_len /\ h = m.h
  BY DEF Good, Message
<1>2. PICK n \in Nat : n = Len(s)
  OBVIOUS
<1>3. PICK a \in 0..n : a = e.aad
  BY <1>1, <1>2 DEF Works
<1>4. a < n /\ e.on /\ e.pos = 0 /\ ~e.done
  <2>1. a < n /\ e.on
    BY <1>1, <1>2, <1>3 DEF AadNext
  <2> QED BY <1>1, <1>2, <1>3, <2>1 DEF Works
<1>5. PICK k \in 1..n : k = a + 1 /\ k - 1 = a
  BY <1>4
<1>6. PICK b \in SUBSET Bits : b = AadOf(m)[k]
  <2>1. k \in 1..Len(AadOf(m)) /\ AadOf(m) \in Seq(SUBSET Bits)
    BY <1>1, <1>2, MessageIs
  <2> QED BY <2>1, ElementOfSeq
<1>7. b = IF k <= Whole(len) THEN s[k] ELSE Masked(s[k], Rest(len))
  <2>1. k \in 1..Len(s)
    BY <1>2
  <2> QED BY <1>1, <1>6, <2>1, PaddedIs DEF AadOf
<1>8. PICK x : x = Absorb(e, b)
  OBVIOUS
<1>9a. PICK j \in Nat : j = e.aad + 1
  <2>1. a + 1 \in Nat
    OBVIOUS
  <2> QED BY <1>3, <2>1
<1>9. PICK f : f = [e EXCEPT !.current_hash = x, !.aad = j]
  OBVIOUS
<1>10. WithAad(e) = f
  <2>1. PICK w \in Nat : w = Whole(len)
    BY WholeAndRest
  <2>2. a < w <=> k <= w
    BY <1>5
  <2>3. CASE a < w
    <3>1. b = m.aad[e.aad + 1]
      BY <1>1, <1>3, <1>5, <1>7, <2>1, <2>2, <2>3
    <3>2. WithAad(e) = process_aad_16bytes_fused(e)
      BY <1>1, <1>3, <2>1, <2>3 DEF WithAad
    <3> QED BY <1>8, <1>9, <1>9a, <3>1, <3>2 DEF process_aad_16bytes_fused
  <2>4. CASE ~(a < w)
    <3>1. b = Masked(m.aad[e.aad + 1], Rest(m.aad_len))
      BY <1>1, <1>3, <1>5, <1>7, <2>1, <2>2, <2>4
    <3>2. WithAad(e) = process_aad_tail_fused(e)
      BY <1>1, <1>3, <2>1, <2>4 DEF WithAad
    <3> QED BY <1>8, <1>9, <1>9a, <3>1, <3>2 DEF process_aad_tail_fused
  <2> QED BY <2>3, <2>4
<1>11. x = HashAt(m, k, 0) /\ x \in SUBSET Bits
  <2>1. e.current_hash = HashAt(m, a, 0) /\ e.is_key_cached /\ e.key = h
    BY <1>1, <1>3, <1>4 DEF Works
  <2>2. x = Times(Xor(e.current_hash, b), e.key) /\ x \in SUBSET Bits
    BY <1>8, <2>1, AbsorbOne
  <2>3. HashAt(m, k, 0) = Times(Xor(HashAt(m, k - 1, 0), AadOf(m)[k]), m.h)
    BY <1>1, <1>2, HashSteps
  <2> QED BY <1>1, <1>5, <1>6, <2>1, <2>2, <2>3
<1>12. e \in Engine
  BY DEF EngineOk
<1>13. /\ f \in Engine /\ f.is_key_cached = e.is_key_cached /\ f.key = e.key /\ f.powers = e.powers
       /\ f.current_hash = x /\ f.ctr = e.ctr /\ f.on = e.on /\ f.aad = e.aad + 1 /\ f.pos = e.pos
       /\ f.done = e.done
  <2>1. f = [e EXCEPT !.current_hash = x, !.aad = j] /\ x \in SUBSET Bits
    BY <1>9, <1>9a, <1>11
  <2>2. /\ f \in Engine /\ f.is_key_cached = e.is_key_cached /\ f.key = e.key
        /\ f.powers = e.powers /\ f.current_hash = x /\ f.ctr = e.ctr /\ f.on = e.on
        /\ f.aad = j /\ f.pos = e.pos /\ f.done = e.done
    BY <1>12, <2>1 DEF Engine
  <2> QED BY <1>9, <1>9a, <2>2
<1>14. EngineOk(f)
  BY <1>13 DEF EngineOk
<1>15. Works(f, m)
  <2>1. f.aad = k /\ k \in 0..Len(m.aad)
    BY <1>1, <1>2, <1>3, <1>5, <1>13
  <2> QED BY <1>4, <1>11, <1>13, <2>1 DEF Works
<1> QED BY <1>4, <1>10, <1>13, <1>14, <1>15

\* Further in the text.
LEMMA Furthers ==
  ASSUME NEW e, NEW m, Good(m), EngineOk(e), Works(e, m), e.on, ~e.done, e.aad = Len(m.aad),
         NEW n \in Nat, e.pos + n <= Len(m.text),
         NEW x, x = HashAt(m, Len(m.aad), e.pos + n)
  PROVE  /\ EngineOk(Advanced(e, n, x)) /\ Works(Advanced(e, n, x), m)
         /\ Advanced(e, n, x).on /\ ~Advanced(e, n, x).done
         /\ Advanced(e, n, x).pos = e.pos + n
<1>1. PICK z \in Nat, l \in Nat : z = Len(m.text) /\ l = Len(m.aad)
  BY MessageIs
<1>2. PICK p \in Nat : p = e.pos /\ p \in 0..z /\ e.ctr = p + 2
  BY <1>1 DEF Works
<1>3. p + n \in 0..z /\ l \in 0..l
  BY <1>1, <1>2
<1>4. x \in SUBSET Bits
  BY <1>1, <1>2, <1>3, HashSteps
<1>5a. PICK j \in Nat, c \in Nat : j = e.pos + n /\ c = e.ctr + n
  <2>1. p + n \in Nat /\ (p + 2) + n \in Nat
    OBVIOUS
  <2> QED BY <1>2, <2>1
<1>5. PICK f : f = [e EXCEPT !.current_hash = x, !.pos = j, !.ctr = c]
  OBVIOUS
<1>6. Advanced(e, n, x) = f
  BY <1>5, <1>5a DEF Advanced, INC_ARM_CTR32
<1>7. e \in Engine
  BY DEF EngineOk
<1>8. /\ f \in Engine /\ f.is_key_cached = e.is_key_cached /\ f.key = e.key /\ f.powers = e.powers
      /\ f.current_hash = x /\ f.ctr = e.ctr + n /\ f.on = e.on /\ f.aad = e.aad
      /\ f.pos = e.pos + n /\ f.done = e.done
  <2>1. f = [e EXCEPT !.current_hash = x, !.pos = j, !.ctr = c]
    BY <1>5
  <2>2. /\ f \in Engine /\ f.is_key_cached = e.is_key_cached /\ f.key = e.key
        /\ f.powers = e.powers /\ f.current_hash = x /\ f.ctr = c /\ f.on = e.on
        /\ f.aad = e.aad /\ f.pos = j /\ f.done = e.done
    BY <1>4, <1>7, <2>1 DEF Engine
  <2> QED BY <1>5a, <2>2
<1>9. EngineOk(f)
  BY <1>8 DEF EngineOk
<1>10. f.ctr = f.pos + 2 /\ f.pos = p + n
  BY <1>2, <1>8
<1>11. Works(f, m)
  <2>1. f.pos \in 0..Len(m.text) /\ ~(f.aad < Len(m.aad)) /\ f.aad \in 0..Len(m.aad)
    BY <1>1, <1>3, <1>8, <1>10
  <2>2. f.current_hash = HashAt(m, f.aad, f.pos) /\ ~f.done /\ f.is_key_cached /\ f.key = m.h
    BY <1>8 DEF Works
  <2> QED BY <1>10, <2>1, <2>2 DEF Works
<1> QED BY <1>6, <1>8, <1>9, <1>11

\* The end of a message.
LEMMA Finalizes ==
  ASSUME NEW e, NEW m, m = msg, Good(m), EngineOk(e), Works(e, m), AllDone(e)
  PROVE  /\ EngineOk(finalize(e)) /\ Works(finalize(e), m)
         /\ finalize(e).on /\ finalize(e).done /\ finalize(e).pos = e.pos
         /\ TagOf(e) = Xor(FinalHash(m), Aes(m.h, 1))
<1>1. e.on /\ ~e.done /\ e.aad = Len(m.aad) /\ e.pos = Len(m.text)
  BY DEF AllDone
<1>2. PICK b \in SUBSET Bits : b = LengthsOf(m)
  <2>1. m.aad_len \in Nat /\ m.text_len \in Nat
    BY DEF Good, Message
  <2> QED BY <2>1, LengthBlock DEF LengthsOf
<1>3. PICK x : x = Absorb(e, b)
  OBVIOUS
<1>4. x = FinalHash(m) /\ x \in SUBSET Bits
  <2>1. e.current_hash = HashAt(m, Len(m.aad), Len(m.text)) /\ e.is_key_cached /\ e.key = m.h
    BY <1>1 DEF Works
  <2>2. x = Times(Xor(e.current_hash, b), e.key) /\ x \in SUBSET Bits
    BY <1>3, <2>1, AbsorbOne
  <2>3. FinalHash(m) = Times(Xor(HashAt(m, Len(m.aad), Len(m.text)), LengthsOf(m)), m.h)
    BY HashSteps
  <2> QED BY <1>2, <2>1, <2>2, <2>3
<1>5. PICK f : f = [e EXCEPT !.current_hash = x, !.done = TRUE]
  OBVIOUS
<1>6. finalize(e) = f
  BY <1>2, <1>3, <1>5 DEF finalize, LengthsOf
<1>7. e \in Engine
  BY DEF EngineOk
<1>8. /\ f \in Engine /\ f.is_key_cached = e.is_key_cached /\ f.key = e.key /\ f.powers = e.powers
      /\ f.current_hash = x /\ f.ctr = e.ctr /\ f.on = e.on /\ f.aad = e.aad
      /\ f.pos = e.pos /\ f.done = TRUE
  BY <1>4, <1>5, <1>7 DEF Engine
<1>9. EngineOk(f)
  BY <1>1, <1>8 DEF EngineOk
<1>10. Works(f, m)
  BY <1>1, <1>4, <1>8 DEF Works
<1>11. TagOf(e) = Xor(FinalHash(m), Aes(m.h, 1))
  <2>1. TagOf(e) = Xor(x, Aes(e.key, 1))
    BY <1>6, <1>8 DEF TagOf
  <2> QED BY <1>4, <2>1 DEF Works
<1> QED BY <1>1, <1>6, <1>8, <1>9, <1>10, <1>11

-----------------------------------------------------------------------------
(* The text, some blocks at a time.                                        *)

LEMMA Stretch ==
  ASSUME NEW t \in Seq(SUBSET Bits), NEW p \in Nat, NEW w \in Seq(SUBSET Bits), NEW n \in Nat,
         n = Len(w), p + n <= Len(t), \A i \in 1..n : w[i] = t[p + i]
  PROVE  SubSeq(t, 1, p) \o w = SubSeq(t, 1, p + n)
<1>1. PICK q \in Nat : q = p + n /\ q \in 0..Len(t) /\ p \in 0..Len(t)
  <2>1. p + n \in Nat /\ p + n \in 0..Len(t) /\ p \in 0..Len(t)
    OBVIOUS
  <2> QED BY <2>1
<1>2. PICK u \in Seq(SUBSET Bits) :
        u = SubSeq(t, 1, p) /\ Len(u) = p /\ \A i \in 1..p : u[i] = t[i]
  BY <1>1, Prefix
<1>3. PICK v \in Seq(SUBSET Bits) :
        v = SubSeq(t, 1, q) /\ Len(v) = q /\ \A i \in 1..q : v[i] = t[i]
  BY <1>1, Prefix
<1>4. PICK c : c = u \o w
  OBVIOUS
<1>5. c \in Seq(SUBSET Bits) /\ Len(c) = Len(u) + Len(w)
      /\ \A i \in 1..Len(u) + Len(w) : c[i] = IF i <= Len(u) THEN u[i] ELSE w[i - Len(u)]
  BY <1>4, ConcatProperties
<1>6. Len(c) = q /\ \A i \in 1..q : c[i] = IF i <= p THEN u[i] ELSE w[i - p]
  BY <1>1, <1>2, <1>5
<1>7. ASSUME NEW i \in 1..q PROVE c[i] = v[i]
  <2>1. CASE i <= p
    <3>1. i \in 1..p
      BY <2>1
    <3> QED BY <1>2, <1>3, <1>6, <2>1, <3>1
  <2>2. CASE ~(i <= p)
    <3>1. PICK k \in 1..n : k = i - p /\ p + k = i
      <4>1. i - p \in 1..n /\ p + (i - p) = i
        BY <1>1, <2>2
      <4> QED BY <4>1
    <3>2. w[k] = t[i]
      BY <3>1
    <3> QED BY <1>3, <1>6, <2>2, <3>1, <3>2
  <2> QED BY <2>1, <2>2
<1>8. c = v
  <2>1. Len(c) = Len(v) /\ \A i \in 1..Len(c) : c[i] = v[i]
    BY <1>3, <1>6, <1>7
  <2> QED BY <1>5, <2>1, SeqEqual
<1> QED BY <1>1, <1>2, <1>3, <1>4, <1>8

\* Before whole blocks of text, and before its tail.
LEMMA InText ==
  ASSUME NEW e, NEW m, m = msg, Good(m), EngineOk(e), Works(e, m), NEW n \in 1..8, Left(e, n)
  PROVE  /\ e.on /\ ~e.done /\ e.aad = Len(m.aad) /\ e.pos \in Nat
         /\ e.pos + n <= Whole(m.text_len) /\ e.pos + n <= Len(m.text)
<1>1. PICK z \in Nat, w \in Nat : z = Len(m.text) /\ w = Whole(m.text_len) /\ w <= z
  <2>1. Len(m.text) \in Nat /\ Whole(m.text_len) \in 0..Len(m.text)
    BY MessageIs
  <2> QED BY <2>1
<1>2. PICK p \in Nat : p = e.pos
  BY <1>1 DEF Works
<1>3. e.on /\ e.aad = Len(m.aad) /\ p + n <= w
  BY <1>1, <1>2 DEF Left
<1>4. ~e.done
  <2>1. e.done => p = z
    BY <1>1, <1>2 DEF Works
  <2> QED BY <1>1, <1>3, <2>1
<1> QED BY <1>1, <1>2, <1>3, <1>4

LEMMA AtTail ==
  ASSUME NEW e, NEW m, m = msg, Good(m), EngineOk(e), Works(e, m), TailLeft(e)
  PROVE  /\ e.on /\ ~e.done /\ e.aad = Len(m.aad) /\ e.pos \in Nat
         /\ e.pos = Whole(m.text_len) /\ e.pos + 1 <= Len(m.text)
<1>1. e.on /\ e.aad = Len(m.aad) /\ e.pos = Whole(m.text_len) /\ Rest(m.text_len) > 0
  BY DEF TailLeft
<1>2. PICK z \in Nat, w \in Nat : z = Len(m.text) /\ w = Whole(m.text_len) /\ w + 1 <= z
  <2>1. Len(m.text) \in Nat /\ Whole(m.text_len) \in 0..Len(m.text)
        /\ Whole(m.text_len) + 1 <= Len(m.text)
    BY <1>1, MessageIs
  <2> QED BY <2>1
<1>3. ~e.done
  <2>1. e.done => w = z
    BY <1>1, <1>2 DEF Works
  <2> QED BY <1>2, <2>1
<1> QED BY <1>1, <1>2, <1>3

\* The next blocks of ciphertext into the hash of an engine.
LEMMA HashesOn ==
  ASSUME NEW e, NEW m, Good(m), EngineOk(e), Works(e, m), ~e.done, e.aad = Len(m.aad),
         NEW n \in 1..8, e.pos + n <= Len(m.text),
         NEW w \in Seq(SUBSET Bits), Len(w) = n, \A i \in 1..n : w[i] = CipherOf(m)[e.pos + i]
  PROVE  /\ AbsorbWide(e, w) = HashAt(m, Len(m.aad), e.pos + n)
         /\ n = 1 => Absorb(e, w[1]) = HashAt(m, Len(m.aad), e.pos + n)
<1>1. PICK z \in Nat, l \in Nat : z = Len(m.text) /\ l = Len(m.aad)
  BY MessageIs
<1>2. PICK p \in Nat : p = e.pos /\ p + n <= z
  BY <1>1 DEF Works
<1>3. /\ e.current_hash = HashAt(m, l, p) /\ e.is_key_cached /\ e.key = m.h
  BY <1>1, <1>2 DEF Works
<1>4. PICK y : Hashing(y, w, m.h) /\ y[0] = HashAt(m, l, p) /\ y[n] = HashAt(m, l, p + n)
  <2>1. \A i \in 1..n : w[i] = CipherOf(m)[p + i]
    BY <1>2
  <2>2. PICK k \in Nat : k = n
    OBVIOUS
  <2>3. p + k <= Len(m.text) /\ Len(w) = k /\ \A i \in 1..k : w[i] = CipherOf(m)[p + i]
    BY <1>1, <1>2, <2>1, <2>2
  <2>4. PICK y : /\ Hashing(y, w, m.h)
                 /\ y[0] = HashAt(m, Len(m.aad), p) /\ y[k] = HashAt(m, Len(m.aad), p + k)
    BY <2>3, HashStretch
  <2> QED BY <1>1, <2>2, <2>4
<1>5. AbsorbWide(e, w) = y[n]
  BY <1>3, <1>4, AbsorbSeveral
<1>6. ASSUME n = 1 PROVE Absorb(e, w[1]) = HashAt(m, l, p + n)
  <2>1. PICK b \in SUBSET Bits : b = w[1]
    <3>1. 1 \in 1..Len(w)
      BY <1>6
    <3> QED BY <3>1, ElementOfSeq
  <2>2. PICK k \in 1..z : k = p + 1 /\ k - 1 = p
    <3>1. p + 1 \in 1..z /\ (p + 1) - 1 = p
      BY <1>2, <1>6
    <3> QED BY <3>1
  <2>3. HashAt(m, l, k) = Times(Xor(HashAt(m, l, k - 1), CipherOf(m)[k]), m.h)
    BY <1>1, HashSteps
  <2>4. b = CipherOf(m)[k]
    <3>1. 1 \in 1..n
      BY <1>6
    <3>2. w[1] = CipherOf(m)[e.pos + 1]
      BY <3>1
    <3> QED BY <1>2, <2>1, <2>2, <3>2
  <2>5. Absorb(e, b) = Times(Xor(e.current_hash, b), e.key)
    BY <1>3, AbsorbOne
  <2> QED BY <1>3, <1>6, <2>1, <2>2, <2>3, <2>4, <2>5
<1> QED BY <1>1, <1>2, <1>4, <1>5, <1>6

-----------------------------------------------------------------------------
(* What is written and what is read.                                       *)

LEMMA CipheredIs ==
  ASSUME NEW m, m = msg, Good(m), EngineOk(tx), Works(tx, m),
         NEW n \in 1..8, tx.pos + n <= Len(m.text)
  PROVE  /\ Ciphered(n) \in Seq(SUBSET Bits) /\ Len(Ciphered(n)) = n
         /\ \A i \in 1..n : Ciphered(n)[i] = Enciphered(m)[tx.pos + i]
<1>1. PICK z \in Nat : z = Len(m.text)
  BY MessageIs
<1>2. PICK p \in Nat : p = tx.pos /\ p + n <= z /\ tx.ctr = p + 2 /\ tx.key = m.h
  BY <1>1 DEF Works
<1>3. PICK e \in Seq(SUBSET Bits) : e = Enciphered(m) /\ Len(e) = z
  BY <1>1, EncipheredIs
<1>4. \A i \in 1..n : p + i \in 1..z /\ (p + 2) + (i - 1) = (p + i) + 1
  <2> SUFFICES ASSUME NEW i \in 1..n
               PROVE  p + i \in 1..z /\ (p + 2) + (i - 1) = (p + i) + 1
    OBVIOUS
  <2>1. i \in Nat /\ 1 <= i /\ i <= n /\ p + n <= z
    BY <1>2
  <2> QED BY <2>1
<1>5. ASSUME NEW i \in 1..n
      PROVE  /\ Xor(msg.text[tx.pos + i], Aes(tx.key, INC_ARM_CTR32(tx.ctr, i - 1))) = e[p + i]
             /\ e[p + i] \in SUBSET Bits
  <2>1. PICK k \in 1..z : k = p + i /\ (p + 2) + (i - 1) = k + 1
    BY <1>4
  <2>2. e[k] = Xor(m.text[k], Aes(m.h, k + 1))
    BY <1>1, <1>3, EncipheredIs
  <2>3. INC_ARM_CTR32(tx.ctr, i - 1) = k + 1
    BY <1>2, <2>1 DEF INC_ARM_CTR32
  <2>4. e[k] \in SUBSET Bits
    BY <1>3, ElementOfSeq
  <2> QED BY <1>2, <2>1, <2>2, <2>3, <2>4
<1>6. PICK c : c = [i \in 1..n |-> e[p + i]]
  OBVIOUS
<1>7. Ciphered(n) = c
  BY <1>5, <1>6, Zenon DEF Ciphered
<1>8. \A i \in 1..n : c[i] = e[p + i] /\ c[i] \in SUBSET Bits
  BY <1>5, <1>6
<1>9. c = [i \in 1..n |-> c[i]]
  BY <1>6
<1>10. c \in [1..n -> SUBSET Bits]
  BY <1>8, <1>9
<1>11. c \in Seq(SUBSET Bits) /\ Len(c) = n
  BY <1>10
<1> QED BY <1>2, <1>3, <1>7, <1>8, <1>11

\* Whole blocks and the tail of a ciphertext, and what they are enciphered from.
LEMMA CipherIs ==
  ASSUME NEW m, Good(m), NEW k \in 1..Len(m.text)
  PROVE  /\ k <= Whole(m.text_len) => CipherOf(m)[k] = Enciphered(m)[k]
         /\ k = Whole(m.text_len) + 1 =>
               CipherOf(m)[k] = Masked(Enciphered(m)[k], Rest(m.text_len))
         /\ k <= Whole(m.text_len) => TextOf(m)[k] = Xor(CipherOf(m)[k], Aes(m.h, k + 1))
         /\ k = Whole(m.text_len) + 1 => TextOf(m)[k] =
               Masked(Xor(CipherOf(m)[k], Aes(m.h, k + 1)), Rest(m.text_len))
<1>1. PICK s \in Seq(SUBSET Bits), len \in Nat : s = m.text /\ len = m.text_len
  BY DEF Good, Message
<1>2. PICK e \in Seq(SUBSET Bits) : e = Enciphered(m) /\ Len(e) = Len(s)
  BY <1>1, EncipheredIs
<1>3. CipherOf(m)[k] = IF k <= Whole(len) THEN e[k] ELSE Masked(e[k], Rest(len))
  <2>1. k \in 1..Len(e)
    BY <1>1, <1>2
  <2> QED BY <1>1, <1>2, <2>1, PaddedIs DEF CipherOf
<1>4. TextOf(m)[k] = IF k <= Whole(len) THEN s[k] ELSE Masked(s[k], Rest(len))
  <2>1. k \in 1..Len(s)
    BY <1>1
  <2> QED BY <1>1, <2>1, PaddedIs DEF TextOf
<1>5. PICK b, a : b = s[k] /\ a = Aes(m.h, k + 1) /\ e[k] = Xor(b, a)
  BY <1>1, <1>2, EncipheredIs
<1>6. Xor(Xor(b, a), a) = b
  <2>1. \A x : x \in Xor(Xor(b, a), a) <=> x \in b
    BY InXor
  <2> QED BY <2>1
<1>7. \A r : Masked(Xor(Masked(Xor(b, a), r), a), r) = Masked(b, r)
  <2> SUFFICES ASSUME NEW r PROVE Masked(Xor(Masked(Xor(b, a), r), a), r) = Masked(b, r)
    OBVIOUS
  <2>1. \A v, x : x \in Masked(v, r) <=> x \in v /\ x < 8 * r
    BY DEF Masked
  <2>2. \A x : x \in Masked(Xor(Masked(Xor(b, a), r), a), r) <=> x \in Masked(b, r)
    <3> SUFFICES ASSUME NEW x
                 PROVE  x \in Masked(Xor(Masked(Xor(b, a), r), a), r) <=> x \in Masked(b, r)
      OBVIOUS
    <3>1. /\ x \in Masked(Xor(Masked(Xor(b, a), r), a), r)
               <=> x \in Xor(Masked(Xor(b, a), r), a) /\ x < 8 * r
          /\ x \in Masked(Xor(b, a), r) <=> x \in Xor(b, a) /\ x < 8 * r
          /\ x \in Masked(b, r) <=> x \in b /\ x < 8 * r
      BY <2>1
    <3>2. /\ x \in Xor(Masked(Xor(b, a), r), a) <=> ~(x \in Masked(Xor(b, a), r) <=> x \in a)
          /\ x \in Xor(b, a) <=> ~(x \in b <=> x \in a)
      BY InXor
    <3> QED BY <3>1, <3>2
  <2> QED BY <2>2
<1>8. PICK w \in Nat : w = Whole(len)
  BY WholeAndRest
<1>9. k = w + 1 => ~(k <= w)
  OBVIOUS
<1> QED BY <1>1, <1>2, <1>3, <1>4, <1>5, <1>6, <1>7, <1>8, <1>9

-----------------------------------------------------------------------------
(* The inductive invariant.                                                *)

GoodTodo(t) == t \in Seq(Message) /\ \A i \in 1..Len(t) : Good(t[i])

\* The sender has written the ciphertext as far as it is, and its tag at the end.
Sender(t, e, c, o) ==
  /\ EngineOk(e)
  /\ e.on => t # <<>> /\ Works(e, t[1]) /\ c = SubSeq(CipherOf(t[1]), 1, e.pos)
  /\ ~e.on => c = <<>>
  /\ e.done => o = Xor(FinalHash(t[1]), Aes(t[1].h, 1))

\* The receiver starts when sender s has come to the end, and has read the text
\* as far as it is itself.
Receiver(t, e, s, p) ==
  /\ EngineOk(e)
  /\ e.on => s.done /\ Works(e, t[1]) /\ p = SubSeq(TextOf(t[1]), 1, e.pos)
  /\ ~e.on => p = <<>>
  /\ e.done => e.verified

EngineInv ==
  /\ GoodTodo(todo)
  /\ Sender(todo, tx, cipher, out_tag)
  /\ Receiver(todo, rx, tx, plain)

LEMMA Handled ==
  ASSUME EngineInv, todo # <<>>
  PROVE  \E m : m = msg /\ Good(m) /\ m = todo[1]
<1>1. todo \in Seq(Message) /\ \A i \in 1..Len(todo) : Good(todo[i])
  BY DEF EngineInv, GoodTodo
<1>2. 1 \in 1..Len(todo)
  BY <1>1
<1> QED BY <1>1, <1>2 DEF msg

LEMMA TxWorks ==
  ASSUME EngineInv, tx.on
  PROVE  \E m : /\ m = msg /\ Good(m) /\ m = todo[1] /\ todo # <<>> /\ EngineOk(tx) /\ Works(tx, m)
                /\ cipher = SubSeq(CipherOf(m), 1, tx.pos)
<1>1. /\ todo # <<>> /\ EngineOk(tx) /\ Works(tx, todo[1])
      /\ cipher = SubSeq(CipherOf(todo[1]), 1, tx.pos)
  BY DEF EngineInv, Sender
<1>2. PICK m : m = msg /\ Good(m) /\ m = todo[1]
  BY <1>1, Handled
<1> QED BY <1>1, <1>2

\* A receiver has the whole ciphertext and its tag.
LEMMA RxWorks ==
  ASSUME EngineInv, rx.on
  PROVE  \E m : /\ m = msg /\ Good(m) /\ m = todo[1] /\ todo # <<>> /\ EngineOk(rx) /\ Works(rx, m)
                /\ tx.on /\ tx.done /\ cipher = CipherOf(m)
                /\ out_tag = Xor(FinalHash(m), Aes(m.h, 1))
                /\ plain = SubSeq(TextOf(m), 1, rx.pos)
<1>1. /\ tx.done /\ EngineOk(rx) /\ Works(rx, todo[1])
      /\ plain = SubSeq(TextOf(todo[1]), 1, rx.pos)
  BY DEF EngineInv, Receiver
<1>2. tx.on
  BY <1>1 DEF EngineInv, Sender, EngineOk, Engine
<1>3. PICK m : /\ m = msg /\ Good(m) /\ m = todo[1] /\ todo # <<>> /\ Works(tx, m)
               /\ cipher = SubSeq(CipherOf(m), 1, tx.pos)
  BY <1>2, TxWorks
<1>4. tx.pos = Len(CipherOf(m)) /\ CipherOf(m) \in Seq(SUBSET Bits)
  <2>1. tx.pos = Len(m.text)
    BY <1>1, <1>3 DEF Works
  <2> QED BY <1>3, <2>1, MessageIs
<1>5. cipher = CipherOf(m)
  BY <1>3, <1>4, SubSeqFull
<1>6. out_tag = Xor(FinalHash(m), Aes(m.h, 1))
  BY <1>1, <1>3 DEF EngineInv, Sender
<1> QED BY <1>1, <1>2, <1>3, <1>5, <1>6

\* The receiver is off before the sender has come to the end.
LEMMA RxOff ==
  ASSUME EngineInv, ~tx.done, NEW s
  PROVE  Receiver(todo, rx, s, plain) /\ ~rx.on
<1>1. ~rx.on
  BY DEF EngineInv, Receiver
<1> QED BY <1>1 DEF EngineInv, Receiver, EngineOk

\* Blocks of ciphertext are written and hashed.
LEMMA SealStep ==
  ASSUME EngineInv, tx.on, ~tx.done, tx.aad = Len(msg.aad),
         NEW n \in 1..8, tx.pos + n <= Len(msg.text),
         NEW w \in Seq(SUBSET Bits), Len(w) = n,
         \A i \in 1..n : w[i] = CipherOf(msg)[tx.pos + i],
         NEW x, x = AbsorbWide(tx, w) \/ (n = 1 /\ x = Absorb(tx, w[1])), Seal(w, x)
  PROVE  EngineInv'
<1>1. PICK m : /\ m = msg /\ Good(m) /\ m = todo[1] /\ todo # <<>> /\ EngineOk(tx) /\ Works(tx, m)
               /\ cipher = SubSeq(CipherOf(m), 1, tx.pos)
  BY TxWorks
<1>2. x = HashAt(m, Len(m.aad), tx.pos + n)
  <2>1. /\ tx.aad = Len(m.aad) /\ tx.pos + n <= Len(m.text)
        /\ \A i \in 1..n : w[i] = CipherOf(m)[tx.pos + i]
    BY <1>1
  <2>2. /\ AbsorbWide(tx, w) = HashAt(m, Len(m.aad), tx.pos + n)
        /\ n = 1 => Absorb(tx, w[1]) = HashAt(m, Len(m.aad), tx.pos + n)
    BY <1>1, <2>1, HashesOn
  <2> QED BY <2>2
<1>3. PICK f : /\ f = Advanced(tx, n, x) /\ EngineOk(f) /\ Works(f, m) /\ f.on /\ ~f.done
               /\ f.pos = tx.pos + n
  <2>1. n \in Nat
    OBVIOUS
  <2> QED BY <1>1, <1>2, <2>1, Furthers
<1>4. cipher \o w = SubSeq(CipherOf(m), 1, f.pos)
  <2>1. PICK t \in Seq(SUBSET Bits) : t = CipherOf(m) /\ Len(t) = Len(m.text)
    BY <1>1, MessageIs
  <2>2. PICK p \in Nat : p = tx.pos
    BY <1>1, MessageIs DEF Works
  <2>3. n \in Nat /\ p + n <= Len(t) /\ \A i \in 1..n : w[i] = t[p + i]
    BY <1>1, <2>1, <2>2
  <2>4. SubSeq(t, 1, p) \o w = SubSeq(t, 1, p + n)
    BY <2>3, Stretch
  <2> QED BY <1>1, <1>3, <2>1, <2>2, <2>4
<1>5. Sender(todo, f, cipher \o w, out_tag)
  BY <1>1, <1>3, <1>4 DEF Sender
<1>6. Receiver(todo, rx, f, plain)
  BY RxOff
<1>7. /\ cipher' = cipher \o w /\ tx' = f /\ todo' = todo /\ rx' = rx /\ out_tag' = out_tag
      /\ plain' = plain
  BY <1>3 DEF Seal
<1>8. GoodTodo(todo)
  BY DEF EngineInv
<1> QED BY <1>5, <1>6, <1>7, <1>8 DEF EngineInv

\* Blocks of ciphertext are hashed and read.
LEMMA OpenStep ==
  ASSUME EngineInv, rx.on, ~rx.done, rx.aad = Len(msg.aad),
         NEW n \in 1..8, rx.pos + n <= Len(msg.text),
         NEW w \in Seq(SUBSET Bits), Len(w) = n,
         \A i \in 1..n : w[i] = CipherOf(msg)[rx.pos + i],
         NEW r \in Seq(SUBSET Bits), Len(r) = n,
         \A i \in 1..n : r[i] = TextOf(msg)[rx.pos + i],
         NEW x, x = AbsorbWide(rx, w) \/ (n = 1 /\ x = Absorb(rx, w[1])), Open(r, x)
  PROVE  EngineInv'
<1>1. PICK m : /\ m = msg /\ Good(m) /\ m = todo[1] /\ todo # <<>> /\ EngineOk(rx) /\ Works(rx, m)
               /\ tx.done /\ plain = SubSeq(TextOf(m), 1, rx.pos)
  BY RxWorks
<1>2. x = HashAt(m, Len(m.aad), rx.pos + n)
  <2>1. /\ rx.aad = Len(m.aad) /\ rx.pos + n <= Len(m.text)
        /\ \A i \in 1..n : w[i] = CipherOf(m)[rx.pos + i]
    BY <1>1
  <2>2. /\ AbsorbWide(rx, w) = HashAt(m, Len(m.aad), rx.pos + n)
        /\ n = 1 => Absorb(rx, w[1]) = HashAt(m, Len(m.aad), rx.pos + n)
    BY <1>1, <2>1, HashesOn
  <2> QED BY <2>2
<1>3. PICK f : /\ f = Advanced(rx, n, x) /\ EngineOk(f) /\ Works(f, m) /\ f.on /\ ~f.done
               /\ f.pos = rx.pos + n
  <2>1. n \in Nat
    OBVIOUS
  <2> QED BY <1>1, <1>2, <2>1, Furthers
<1>4. plain \o r = SubSeq(TextOf(m), 1, f.pos)
  <2>1. PICK t \in Seq(SUBSET Bits) : t = TextOf(m) /\ Len(t) = Len(m.text)
    BY <1>1, MessageIs
  <2>2. PICK p \in Nat : p = rx.pos
    BY <1>1, MessageIs DEF Works
  <2>3. n \in Nat /\ p + n <= Len(t) /\ \A i \in 1..n : r[i] = t[p + i]
    BY <1>1, <2>1, <2>2
  <2>4. SubSeq(t, 1, p) \o r = SubSeq(t, 1, p + n)
    BY <2>3, Stretch
  <2> QED BY <1>1, <1>3, <2>1, <2>2, <2>4
<1>5. Receiver(todo, f, tx, plain \o r)
  BY <1>1, <1>3, <1>4 DEF Receiver
<1>6. /\ plain' = plain \o r /\ rx' = f /\ todo' = todo /\ tx' = tx /\ cipher' = cipher
      /\ out_tag' = out_tag
  BY <1>3 DEF Open
<1>7. GoodTodo(todo) /\ Sender(todo, tx, cipher, out_tag)
  BY DEF EngineInv
<1> QED BY <1>5, <1>6, <1>7 DEF EngineInv

-----------------------------------------------------------------------------
(* The steps of the sender.                                                *)

\* Whole blocks, however many at once.
LEMMA SealBlocks ==
  ASSUME EngineInv, NEW n \in 1..8, Left(tx, n),
         NEW x, x = AbsorbWide(tx, Ciphered(n)) \/ (n = 1 /\ x = Absorb(tx, Ciphered(n)[1])),
         Seal(Ciphered(n), x)
  PROVE  EngineInv'
<1>0. tx.on
  BY DEF Left
<1>1. PICK m : m = msg /\ Good(m) /\ EngineOk(tx) /\ Works(tx, m)
  BY <1>0, TxWorks
<1>2. /\ ~tx.done /\ tx.aad = Len(m.aad) /\ tx.pos \in Nat
      /\ tx.pos + n <= Whole(m.text_len) /\ tx.pos + n <= Len(m.text)
  BY <1>1, InText
<1>3. PICK w \in Seq(SUBSET Bits) :
        w = Ciphered(n) /\ Len(w) = n /\ \A i \in 1..n : w[i] = Enciphered(m)[tx.pos + i]
  BY <1>1, <1>2, CipheredIs
<1>4. \A i \in 1..n : w[i] = CipherOf(m)[tx.pos + i]
  <2> SUFFICES ASSUME NEW i \in 1..n PROVE w[i] = CipherOf(m)[tx.pos + i]
    OBVIOUS
  <2>1. PICK z \in Nat, v \in Nat, p \in Nat :
          z = Len(m.text) /\ v = Whole(m.text_len) /\ p = tx.pos
    BY <1>1, <1>2, MessageIs
  <2>2. PICK k \in 1..z : k = p + i /\ k <= v
    <3>1. p + n <= v /\ p + n <= z /\ i \in Nat /\ 1 <= i /\ i <= n
      BY <1>2, <2>1
    <3>2. p + i \in 1..z /\ p + i <= v
      BY <3>1
    <3> QED BY <3>2
  <2>3. CipherOf(m)[k] = Enciphered(m)[k]
    BY <1>1, <2>1, <2>2, CipherIs
  <2> QED BY <1>3, <2>1, <2>2, <2>3
<1>5. /\ tx.aad = Len(msg.aad) /\ tx.pos + n <= Len(msg.text)
      /\ \A i \in 1..n : w[i] = CipherOf(msg)[tx.pos + i]
  BY <1>1, <1>2, <1>4
<1>6. (x = AbsorbWide(tx, w) \/ (n = 1 /\ x = Absorb(tx, w[1]))) /\ Seal(w, x)
  BY <1>3
<1> QED BY <1>0, <1>2, <1>3, <1>5, <1>6, SealStep

LEMMA SealTail ==
  ASSUME EngineInv, process_tail_fused
  PROVE  EngineInv'
<1>0. tx.on /\ TailLeft(tx)
  BY DEF process_tail_fused, TailLeft
<1>1. PICK m : m = msg /\ Good(m) /\ EngineOk(tx) /\ Works(tx, m)
  BY <1>0, TxWorks
<1>2. /\ ~tx.done /\ tx.aad = Len(m.aad) /\ tx.pos \in Nat
      /\ tx.pos = Whole(m.text_len) /\ tx.pos + 1 <= Len(m.text)
  BY <1>0, <1>1, AtTail
<1>3. PICK z \in Nat, p \in Nat : z = Len(m.text) /\ p = tx.pos /\ p + 1 \in 1..z
  <2>1. PICK z \in Nat, p \in Nat : z = Len(m.text) /\ p = tx.pos
    BY <1>1, <1>2, MessageIs
  <2>2. p + 1 \in 1..z
    BY <1>2, <2>1
  <2> QED BY <2>1, <2>2
<1>4. PICK c : c = Ciphered(1)[1] /\ c = Enciphered(m)[p + 1] /\ c \in SUBSET Bits
  <2>1. 1 \in 1..8 /\ 1 \in 1..1
    OBVIOUS
  <2>2. /\ Ciphered(1) \in Seq(SUBSET Bits) /\ Len(Ciphered(1)) = 1
        /\ Ciphered(1)[1] = Enciphered(m)[tx.pos + 1]
    BY <1>1, <1>2, <2>1, CipheredIs
  <2>3. Ciphered(1)[1] \in SUBSET Bits
    BY <2>1, <2>2, ElementOfSeq
  <2> QED BY <1>3, <2>2, <2>3
<1>5. PICK b \in SUBSET Bits : b = Masked(c, Rest(m.text_len))
  BY <1>4, MaskedType
<1>6. b = CipherOf(m)[p + 1]
  BY <1>1, <1>2, <1>3, <1>4, <1>5, CipherIs
<1>7. PICK w \in Seq(SUBSET Bits) : w = <<b>> /\ Len(w) = 1 /\ w[1] = b
  <2>1. <<b>> \in Seq(SUBSET Bits) /\ Len(<<b>>) = 1 /\ <<b>>[1] = b
    OBVIOUS
  <2> QED BY <2>1
<1>8. PICK x : x = Absorb(tx, b)
  OBVIOUS
<1>9. Seal(w, x)
  BY <1>1, <1>4, <1>5, <1>7, <1>8 DEF process_tail_fused
<1>10. /\ tx.aad = Len(msg.aad) /\ tx.pos + 1 <= Len(msg.text)
       /\ \A i \in 1..1 : w[i] = CipherOf(msg)[tx.pos + i]
  <2>1. \A i \in 1..1 : i = 1
    OBVIOUS
  <2> QED BY <1>1, <1>2, <1>3, <1>6, <1>7, <2>1
<1>11. 1 \in 1..8 /\ (x = AbsorbWide(tx, w) \/ (1 = 1 /\ x = Absorb(tx, w[1])))
  BY <1>7, <1>8
<1> QED BY <1>0, <1>2, <1>7, <1>9, <1>10, <1>11, SealStep

LEMMA TxBegins ==
  ASSUME EngineInv, TxInit
  PROVE  EngineInv'
<1>1. todo # <<>> /\ ~tx.on
  BY DEF TxInit
<1>2. PICK m : m = msg /\ Good(m) /\ m = todo[1]
  BY <1>1, Handled
<1>3. EngineOk(tx) /\ ~tx.done /\ cipher = <<>>
  BY <1>1 DEF EngineInv, Sender, EngineOk
<1>4. PICK f : f = init(tx, m.h) /\ EngineOk(f) /\ Works(f, m) /\ f.on /\ ~f.done /\ f.pos = 0
  BY <1>2, <1>3, Begun
<1>5. SubSeq(CipherOf(m), 1, 0) = <<>>
  <2>1. 1 \in Int /\ 0 \in Int /\ 0 < 1
    OBVIOUS
  <2> QED BY <2>1, SubSeqEmpty
<1>6. Sender(todo, f, cipher, out_tag)
  BY <1>1, <1>2, <1>3, <1>4, <1>5 DEF Sender
<1>7. Receiver(todo, rx, f, plain)
  BY <1>3, RxOff
<1>8. /\ cipher' = cipher /\ tx' = f /\ todo' = todo /\ rx' = rx /\ out_tag' = out_tag
      /\ plain' = plain
  BY <1>2, <1>4 DEF TxInit
<1>9. GoodTodo(todo)
  BY DEF EngineInv
<1> QED BY <1>6, <1>7, <1>8, <1>9 DEF EngineInv

LEMMA TxAddsAad ==
  ASSUME EngineInv, TxAad
  PROVE  EngineInv'
<1>1. AadNext(tx) /\ tx.on
  BY DEF TxAad, AadNext
<1>2. PICK m : /\ m = msg /\ Good(m) /\ m = todo[1] /\ todo # <<>> /\ EngineOk(tx) /\ Works(tx, m)
               /\ cipher = SubSeq(CipherOf(m), 1, tx.pos)
  BY <1>1, TxWorks
<1>3. PICK f : /\ f = WithAad(tx) /\ EngineOk(f) /\ Works(f, m) /\ f.on /\ ~f.done
               /\ f.pos = tx.pos /\ ~tx.done
  BY <1>1, <1>2, AadStep
<1>4. Sender(todo, f, cipher, out_tag)
  BY <1>2, <1>3 DEF Sender
<1>5. Receiver(todo, rx, f, plain)
  BY <1>3, RxOff
<1>6. /\ cipher' = cipher /\ tx' = f /\ todo' = todo /\ rx' = rx /\ out_tag' = out_tag
      /\ plain' = plain
  BY <1>3 DEF TxAad
<1>7. GoodTodo(todo)
  BY DEF EngineInv
<1> QED BY <1>4, <1>5, <1>6, <1>7 DEF EngineInv

LEMMA TxEnds ==
  ASSUME EngineInv, TxFinalize
  PROVE  EngineInv'
<1>1. AllDone(tx) /\ tx.on /\ ~tx.done
  BY DEF TxFinalize, AllDone
<1>2. PICK m : /\ m = msg /\ Good(m) /\ m = todo[1] /\ todo # <<>> /\ EngineOk(tx) /\ Works(tx, m)
               /\ cipher = SubSeq(CipherOf(m), 1, tx.pos)
  BY <1>1, TxWorks
<1>3. PICK f, o : /\ f = finalize(tx) /\ EngineOk(f) /\ Works(f, m) /\ f.on /\ f.done
                  /\ f.pos = tx.pos /\ o = TagOf(tx) /\ o = Xor(FinalHash(m), Aes(m.h, 1))
  BY <1>1, <1>2, Finalizes
<1>4. Sender(todo, f, cipher, o)
  BY <1>2, <1>3 DEF Sender
<1>5. Receiver(todo, rx, f, plain)
  BY <1>1, RxOff
<1>6. cipher' = cipher /\ tx' = f /\ todo' = todo /\ rx' = rx /\ out_tag' = o /\ plain' = plain
  BY <1>3 DEF TxFinalize
<1>7. GoodTodo(todo)
  BY DEF EngineInv
<1> QED BY <1>4, <1>5, <1>6, <1>7 DEF EngineInv

-----------------------------------------------------------------------------
(* The steps of the receiver.                                              *)

\* What has arrived, and what it is deciphered to.
LEMMA DecipheredIs ==
  ASSUME EngineInv, rx.on, NEW n \in 1..8, rx.pos + n <= Len(msg.text)
  PROVE  /\ Arrived(n) \in Seq(SUBSET Bits) /\ Len(Arrived(n)) = n
         /\ \A i \in 1..n : Arrived(n)[i] = CipherOf(msg)[rx.pos + i]
         /\ Deciphered(n) \in Seq(SUBSET Bits) /\ Len(Deciphered(n)) = n
         /\ \A i \in 1..n : Deciphered(n)[i] =
               Xor(CipherOf(msg)[rx.pos + i], Aes(msg.h, rx.pos + i + 1))
<1>1. PICK m : m = msg /\ Good(m) /\ Works(rx, m) /\ cipher = CipherOf(m)
  BY RxWorks
<1>2. PICK c \in Seq(SUBSET Bits), z \in Nat : c = CipherOf(m) /\ z = Len(m.text) /\ Len(c) = z
  BY <1>1, MessageIs
<1>3. PICK p \in Nat : p = rx.pos /\ p + n <= z /\ rx.ctr = p + 2 /\ rx.key = m.h
  BY <1>1, <1>2 DEF Works
<1>4. \A i \in 1..n : p + i \in 1..z /\ (p + 2) + (i - 1) = (p + i) + 1
  <2> SUFFICES ASSUME NEW i \in 1..n
               PROVE  p + i \in 1..z /\ (p + 2) + (i - 1) = (p + i) + 1
    OBVIOUS
  <2>1. i \in Nat /\ 1 <= i /\ i <= n /\ p + n <= z
    BY <1>3
  <2> QED BY <2>1
<1>5. PICK a : a = Arrived(n)
  OBVIOUS
<1>6. a \in Seq(SUBSET Bits) /\ Len(a) = n /\ \A i \in 1..n : a[i] = c[p + i]
  <2>1. PICK u \in Nat, v \in Nat : u = p + 1 /\ v = p + n /\ u <= v /\ v - u + 1 = n
    <3>1. p + 1 \in Nat /\ p + n \in Nat /\ p + 1 <= p + n /\ (p + n) - (p + 1) + 1 = n
      OBVIOUS
    <3> QED BY <3>1
  <2>2. a = SubSeq(c, u, v)
    BY <1>1, <1>2, <1>3, <1>5, <2>1 DEF Arrived
  <2>3. \A i \in u..v : c[i] \in SUBSET Bits
    <3> SUFFICES ASSUME NEW i \in u..v PROVE c[i] \in SUBSET Bits
      OBVIOUS
    <3>1. i \in Nat /\ p + 1 <= i /\ i <= p + n /\ p + n <= z
      BY <1>3, <2>1
    <3>2. i \in 1..z
      BY <3>1
    <3>3. i \in 1..Len(c)
      BY <1>2, <3>2
    <3> QED BY <3>3, ElementOfSeq
  <2>4. /\ SubSeq(c, u, v) \in Seq(SUBSET Bits)
        /\ Len(SubSeq(c, u, v)) = IF u <= v THEN v - u + 1 ELSE 0
        /\ \A i \in 1..v - u + 1 : SubSeq(c, u, v)[i] = c[u + i - 1]
    <3>1. u \in Int /\ v \in Int
      OBVIOUS
    <3> QED BY <2>3, <3>1, SubSeqProperties
  <2>5. \A i \in 1..n : u + i - 1 = p + i
    BY <2>1
  <2> QED BY <2>1, <2>2, <2>4, <2>5
<1>7. ASSUME NEW i \in 1..n
      PROVE  /\ Xor(cipher[rx.pos + i], Aes(rx.key, INC_ARM_CTR32(rx.ctr, i - 1))) =
                  Xor(c[p + i], Aes(m.h, (p + i) + 1))
             /\ Xor(c[p + i], Aes(m.h, (p + i) + 1)) \in SUBSET Bits
  <2>1. PICK k \in 1..z : k = p + i /\ (p + 2) + (i - 1) = k + 1
    BY <1>4
  <2>2. INC_ARM_CTR32(rx.ctr, i - 1) = k + 1
    BY <1>3, <2>1 DEF INC_ARM_CTR32
  <2>3. PICK b \in SUBSET Bits : b = c[k]
    BY <1>2, ElementOfSeq
  <2>4. PICK g \in SUBSET Bits : g = Aes(m.h, k + 1)
    <3>1. k + 1 \in 1..z + 1
      OBVIOUS
    <3> QED BY <1>1, <1>2, <3>1 DEF Good
  <2>5. Xor(b, g) \in SUBSET Bits
    BY XorType
  <2> QED BY <1>1, <1>2, <1>3, <2>1, <2>2, <2>3, <2>4, <2>5
<1>8. PICK d : d = [i \in 1..n |-> Xor(c[p + i], Aes(m.h, (p + i) + 1))]
  OBVIOUS
<1>9. Deciphered(n) = d
  BY <1>7, <1>8, Zenon DEF Deciphered
<1>10. \A i \in 1..n : d[i] = Xor(c[p + i], Aes(m.h, (p + i) + 1)) /\ d[i] \in SUBSET Bits
  BY <1>7, <1>8
<1>11. d = [i \in 1..n |-> d[i]]
  BY <1>8
<1>12. d \in [1..n -> SUBSET Bits]
  BY <1>10, <1>11
<1>13. d \in Seq(SUBSET Bits) /\ Len(d) = n
  BY <1>12
<1> QED BY <1>1, <1>2, <1>3, <1>5, <1>6, <1>9, <1>10, <1>13

LEMMA OpenBlocks ==
  ASSUME EngineInv, NEW n \in 1..8, Left(rx, n),
         NEW x, x = AbsorbWide(rx, Arrived(n)) \/ (n = 1 /\ x = Absorb(rx, Arrived(n)[1])),
         Open(Deciphered(n), x)
  PROVE  EngineInv'
<1>0. rx.on
  BY DEF Left
<1>1. PICK m : m = msg /\ Good(m) /\ EngineOk(rx) /\ Works(rx, m)
  BY <1>0, RxWorks
<1>2. /\ ~rx.done /\ rx.aad = Len(m.aad) /\ rx.pos \in Nat
      /\ rx.pos + n <= Whole(m.text_len) /\ rx.pos + n <= Len(m.text)
  BY <1>1, InText
<1>3. PICK w \in Seq(SUBSET Bits), r \in Seq(SUBSET Bits) :
        /\ w = Arrived(n) /\ Len(w) = n /\ \A i \in 1..n : w[i] = CipherOf(m)[rx.pos + i]
        /\ r = Deciphered(n) /\ Len(r) = n
        /\ \A i \in 1..n : r[i] = Xor(CipherOf(m)[rx.pos + i], Aes(m.h, rx.pos + i + 1))
  <2>1. rx.pos + n <= Len(msg.text)
    BY <1>1, <1>2
  <2> QED BY <1>0, <1>1, <2>1, DecipheredIs
<1>4. \A i \in 1..n : r[i] = TextOf(m)[rx.pos + i]
  <2> SUFFICES ASSUME NEW i \in 1..n PROVE r[i] = TextOf(m)[rx.pos + i]
    OBVIOUS
  <2>1. PICK z \in Nat, v \in Nat, p \in Nat :
          z = Len(m.text) /\ v = Whole(m.text_len) /\ p = rx.pos
    BY <1>1, <1>2, MessageIs
  <2>2. PICK k \in 1..z : k = p + i /\ k <= v
    <3>1. p + n <= v /\ p + n <= z /\ i \in Nat /\ 1 <= i /\ i <= n
      BY <1>2, <2>1
    <3>2. p + i \in 1..z /\ p + i <= v
      BY <3>1
    <3> QED BY <3>2
  <2>3. TextOf(m)[k] = Xor(CipherOf(m)[k], Aes(m.h, k + 1))
    BY <1>1, <2>1, <2>2, CipherIs
  <2> QED BY <1>3, <2>1, <2>2, <2>3
<1>5. /\ rx.aad = Len(msg.aad) /\ rx.pos + n <= Len(msg.text)
      /\ \A i \in 1..n : w[i] = CipherOf(msg)[rx.pos + i]
      /\ \A i \in 1..n : r[i] = TextOf(msg)[rx.pos + i]
  BY <1>1, <1>2, <1>3, <1>4
<1>6. (x = AbsorbWide(rx, w) \/ (n = 1 /\ x = Absorb(rx, w[1]))) /\ Open(r, x)
  BY <1>3
<1> QED BY <1>0, <1>2, <1>3, <1>5, <1>6, OpenStep

LEMMA OpenTail ==
  ASSUME EngineInv, decrypt_tail_fused
  PROVE  EngineInv'
<1>0. rx.on /\ TailLeft(rx)
  BY DEF decrypt_tail_fused, TailLeft
<1>1. PICK m : m = msg /\ Good(m) /\ EngineOk(rx) /\ Works(rx, m)
  BY <1>0, RxWorks
<1>2. /\ ~rx.done /\ rx.aad = Len(m.aad) /\ rx.pos \in Nat
      /\ rx.pos = Whole(m.text_len) /\ rx.pos + 1 <= Len(m.text)
  BY <1>0, <1>1, AtTail
<1>3. PICK z \in Nat, p \in Nat : z = Len(m.text) /\ p = rx.pos /\ p + 1 \in 1..z
  <2>1. PICK z \in Nat, p \in Nat : z = Len(m.text) /\ p = rx.pos
    BY <1>1, <1>2, MessageIs
  <2>2. p + 1 \in 1..z
    BY <1>2, <2>1
  <2> QED BY <2>1, <2>2
<1>4. PICK w \in Seq(SUBSET Bits), c \in SUBSET Bits :
        /\ w = Arrived(1) /\ Len(w) = 1 /\ w[1] = CipherOf(m)[p + 1]
        /\ c = Deciphered(1)[1]
        /\ c = Xor(CipherOf(m)[p + 1], Aes(m.h, (p + 1) + 1))
  <2>1. 1 \in 1..8 /\ 1 \in 1..1 /\ rx.pos + 1 <= Len(msg.text)
    BY <1>1, <1>2
  <2>2. /\ Arrived(1) \in Seq(SUBSET Bits) /\ Len(Arrived(1)) = 1
        /\ Arrived(1)[1] = CipherOf(msg)[rx.pos + 1]
        /\ Deciphered(1) \in Seq(SUBSET Bits) /\ Len(Deciphered(1)) = 1
        /\ Deciphered(1)[1] = Xor(CipherOf(msg)[rx.pos + 1], Aes(msg.h, rx.pos + 1 + 1))
    BY <1>0, <2>1, DecipheredIs
  <2>3. Deciphered(1)[1] \in SUBSET Bits
    BY <2>1, <2>2, ElementOfSeq
  <2> QED BY <1>1, <1>3, <2>2, <2>3
<1>5. PICK b \in SUBSET Bits : b = Masked(c, Rest(m.text_len))
  BY <1>4, MaskedType
<1>6. b = TextOf(m)[p + 1]
  BY <1>1, <1>2, <1>3, <1>4, <1>5, CipherIs
<1>7. PICK r \in Seq(SUBSET Bits) : r = <<b>> /\ Len(r) = 1 /\ r[1] = b
  <2>1. <<b>> \in Seq(SUBSET Bits) /\ Len(<<b>>) = 1 /\ <<b>>[1] = b
    OBVIOUS
  <2> QED BY <2>1
<1>8. PICK x : x = Absorb(rx, w[1])
  OBVIOUS
<1>9. Open(r, x)
  BY <1>1, <1>4, <1>5, <1>7, <1>8 DEF decrypt_tail_fused
<1>10. /\ rx.aad = Len(msg.aad) /\ rx.pos + 1 <= Len(msg.text)
       /\ \A i \in 1..1 : w[i] = CipherOf(msg)[rx.pos + i]
       /\ \A i \in 1..1 : r[i] = TextOf(msg)[rx.pos + i]
  <2>1. \A i \in 1..1 : i = 1
    OBVIOUS
  <2> QED BY <1>1, <1>2, <1>3, <1>4, <1>6, <1>7, <2>1
<1>11. PICK k \in 1..8 : k = 1
  OBVIOUS
<1>12. /\ ~rx.done /\ rx.aad = Len(msg.aad) /\ rx.pos + k <= Len(msg.text)
       /\ Len(w) = k /\ (\A i \in 1..k : w[i] = CipherOf(msg)[rx.pos + i])
       /\ Len(r) = k /\ (\A i \in 1..k : r[i] = TextOf(msg)[rx.pos + i])
       /\ (x = AbsorbWide(rx, w) \/ (k = 1 /\ x = Absorb(rx, w[1])))
  BY <1>2, <1>4, <1>7, <1>8, <1>10, <1>11
<1> QED BY <1>0, <1>9, <1>12, OpenStep

LEMMA RxBegins ==
  ASSUME EngineInv, RxInit
  PROVE  EngineInv'
<1>1. tx.done /\ ~rx.on
  BY DEF RxInit
<1>2. tx.on
  BY <1>1 DEF EngineInv, Sender, EngineOk, Engine
<1>3. PICK m : m = msg /\ Good(m) /\ m = todo[1] /\ todo # <<>>
  BY <1>2, TxWorks
<1>4. EngineOk(rx) /\ plain = <<>>
  BY <1>1 DEF EngineInv, Receiver
<1>5. PICK f : f = init(rx, m.h) /\ EngineOk(f) /\ Works(f, m) /\ f.on /\ ~f.done /\ f.pos = 0
  BY <1>3, <1>4, Begun
<1>6. SubSeq(TextOf(m), 1, 0) = <<>>
  <2>1. 1 \in Int /\ 0 \in Int /\ 0 < 1
    OBVIOUS
  <2> QED BY <2>1, SubSeqEmpty
<1>7. Receiver(todo, f, tx, plain)
  BY <1>1, <1>3, <1>4, <1>5, <1>6 DEF Receiver
<1>8. /\ plain' = plain /\ rx' = f /\ todo' = todo /\ tx' = tx /\ cipher' = cipher
      /\ out_tag' = out_tag
  BY <1>3, <1>5 DEF RxInit
<1>9. GoodTodo(todo) /\ Sender(todo, tx, cipher, out_tag)
  BY DEF EngineInv
<1> QED BY <1>7, <1>8, <1>9 DEF EngineInv

LEMMA RxAddsAad ==
  ASSUME EngineInv, RxAad
  PROVE  EngineInv'
<1>1. AadNext(rx) /\ rx.on
  BY DEF RxAad, AadNext
<1>2. PICK m : /\ m = msg /\ Good(m) /\ m = todo[1] /\ todo # <<>> /\ EngineOk(rx) /\ Works(rx, m)
               /\ tx.done /\ plain = SubSeq(TextOf(m), 1, rx.pos)
  BY <1>1, RxWorks
<1>3. PICK f : /\ f = WithAad(rx) /\ EngineOk(f) /\ Works(f, m) /\ f.on /\ ~f.done
               /\ f.pos = rx.pos
  BY <1>1, <1>2, AadStep
<1>4. Receiver(todo, f, tx, plain)
  BY <1>2, <1>3 DEF Receiver
<1>5. /\ plain' = plain /\ rx' = f /\ todo' = todo /\ tx' = tx /\ cipher' = cipher
      /\ out_tag' = out_tag
  BY <1>3 DEF RxAad
<1>6. GoodTodo(todo) /\ Sender(todo, tx, cipher, out_tag)
  BY DEF EngineInv
<1> QED BY <1>4, <1>5, <1>6 DEF EngineInv

\* The tag the receiver computes is the one that came.
LEMMA RxVerifies ==
  ASSUME EngineInv, verify_tag
  PROVE  EngineInv'
<1>1. AllDone(rx) /\ rx.on
  BY DEF verify_tag, AllDone
<1>2. PICK m : /\ m = msg /\ Good(m) /\ m = todo[1] /\ todo # <<>> /\ EngineOk(rx) /\ Works(rx, m)
               /\ tx.done /\ out_tag = Xor(FinalHash(m), Aes(m.h, 1))
               /\ plain = SubSeq(TextOf(m), 1, rx.pos)
  BY <1>1, RxWorks
<1>3. PICK g : /\ g = finalize(rx) /\ EngineOk(g) /\ Works(g, m) /\ g.on /\ g.done
               /\ g.pos = rx.pos /\ TagOf(rx) = out_tag
  <2>1. /\ EngineOk(finalize(rx)) /\ Works(finalize(rx), m) /\ finalize(rx).on
        /\ finalize(rx).done /\ finalize(rx).pos = rx.pos
        /\ TagOf(rx) = Xor(FinalHash(m), Aes(m.h, 1))
    BY <1>1, <1>2, Finalizes
  <2> QED BY <1>2, <2>1
<1>4. PICK f : f = [g EXCEPT !.verified = TRUE]
  OBVIOUS
<1>5. g \in Engine
  BY <1>3 DEF EngineOk
<1>6. /\ f \in Engine /\ f.is_key_cached = g.is_key_cached /\ f.key = g.key /\ f.powers = g.powers
      /\ f.current_hash = g.current_hash /\ f.ctr = g.ctr /\ f.on = g.on /\ f.aad = g.aad
      /\ f.pos = g.pos /\ f.done = g.done /\ f.verified
  BY <1>4, <1>5 DEF Engine
<1>7. EngineOk(f)
  BY <1>3, <1>6 DEF EngineOk
<1>8. Works(f, m)
  BY <1>3, <1>6 DEF Works
<1>9. Receiver(todo, f, tx, plain)
  BY <1>2, <1>3, <1>6, <1>7, <1>8 DEF Receiver
<1>10. /\ plain' = plain /\ rx' = f /\ todo' = todo /\ tx' = tx /\ cipher' = cipher
       /\ out_tag' = out_tag
  <2>1. (TagOf(rx) = out_tag) = TRUE
    BY <1>3
  <2> QED BY <1>3, <1>4, <2>1 DEF verify_tag
<1>11. GoodTodo(todo) /\ Sender(todo, tx, cipher, out_tag)
  BY DEF EngineInv
<1> QED BY <1>9, <1>10, <1>11 DEF EngineInv

-----------------------------------------------------------------------------
(* From one message to the next, and the invariant.                        *)

LEMMA SwitchedOff ==
  ASSUME NEW e, EngineOk(e)
  PROVE  /\ EngineOk([e EXCEPT !.on = FALSE, !.done = FALSE])
         /\ ~[e EXCEPT !.on = FALSE, !.done = FALSE].on
         /\ ~[e EXCEPT !.on = FALSE, !.done = FALSE].done
<1>1. PICK f : f = [e EXCEPT !.on = FALSE, !.done = FALSE]
  OBVIOUS
<1>2. e \in Engine
  BY DEF EngineOk
<1>3. /\ f \in Engine /\ f.is_key_cached = e.is_key_cached /\ f.key = e.key /\ f.powers = e.powers
      /\ f.on = FALSE /\ f.done = FALSE
  BY <1>1, <1>2 DEF Engine
<1> QED BY <1>1, <1>3 DEF EngineOk

LEMMA GoesOn ==
  ASSUME EngineInv, NextMessage
  PROVE  EngineInv'
<1>1. rx.done /\ rx.on
  BY DEF NextMessage, EngineInv, Receiver, EngineOk, Engine
<1>2. todo # <<>>
  BY <1>1, RxWorks
<1>3. PICK t : t = Tail(todo) /\ GoodTodo(t)
  <2>1. todo \in Seq(Message) /\ \A i \in 1..Len(todo) : Good(todo[i])
    BY DEF EngineInv, GoodTodo
  <2>2. /\ Tail(todo) \in Seq(Message) /\ Len(Tail(todo)) = Len(todo) - 1
        /\ \A i \in 1..Len(Tail(todo)) : Tail(todo)[i] = todo[i + 1]
    BY <1>2, <2>1, HeadTailProperties
  <2>3. \A i \in 1..Len(todo) - 1 : i + 1 \in 1..Len(todo)
    BY <2>1
  <2>4. GoodTodo(Tail(todo))
    BY <2>1, <2>2, <2>3 DEF GoodTodo
  <2> QED BY <2>4
<1>4. PICK f : f = [tx EXCEPT !.on = FALSE, !.done = FALSE] /\ EngineOk(f) /\ ~f.on /\ ~f.done
  <2>1. EngineOk(tx)
    BY DEF EngineInv, Sender
  <2> QED BY <2>1, SwitchedOff
<1>5. PICK g : g = [rx EXCEPT !.on = FALSE, !.done = FALSE] /\ EngineOk(g) /\ ~g.on /\ ~g.done
  <2>1. EngineOk(rx)
    BY DEF EngineInv, Receiver
  <2> QED BY <2>1, SwitchedOff
<1>6. Sender(t, f, <<>>, NoTag) /\ Receiver(t, g, f, <<>>)
  BY <1>4, <1>5 DEF Sender, Receiver
<1>7. todo' = t /\ tx' = f /\ rx' = g /\ cipher' = <<>> /\ plain' = <<>> /\ out_tag' = NoTag
  BY <1>3, <1>4, <1>5 DEF NextMessage
<1> QED BY <1>3, <1>6, <1>7 DEF EngineInv

LEMMA Starts == CpuInit => EngineInv
<1> SUFFICES ASSUME CpuInit PROVE EngineInv
  OBVIOUS
<1>1. todo \in Schedules /\ tx = Unused /\ rx = Unused /\ cipher = <<>> /\ plain = <<>>
  BY DEF CpuInit
<1>2. todo \in Seq(Message)
  BY <1>1, ScheduleAssumption DEF Message
<1>3. ASSUME NEW i \in 1..Len(todo) PROVE Good(todo[i])
  <2>1. i \in DOMAIN todo /\ todo[i] \in Message
    BY <1>2
  <2>2. /\ todo[i].aad_len <= 16 * Len(todo[i].aad) /\ todo[i].text_len <= 16 * Len(todo[i].text)
        /\ \A c \in 1..Len(todo[i].text) + 1 : Aes(todo[i].h, c) \in SUBSET Bits
    BY <1>1, <2>1, ScheduleAssumption
  <2> QED BY <2>1, <2>2 DEF Good
<1>4. GoodTodo(todo)
  BY <1>2, <1>3 DEF GoodTodo
<1>5. PICK e : e = Unused
  OBVIOUS
<1>6. e \in Engine /\ e.is_key_cached = FALSE /\ e.on = FALSE /\ e.done = FALSE
  <2>1. <<>> \in Seq(SUBSET Bits) /\ {} \in SUBSET Bits /\ 0 \in Nat
    OBVIOUS
  <2> QED BY <1>5, <2>1 DEF Unused, Engine
<1>7. EngineOk(e)
  BY <1>6 DEF EngineOk
<1>8. Sender(todo, e, <<>>, out_tag) /\ Receiver(todo, e, e, <<>>)
  BY <1>6, <1>7 DEF Sender, Receiver
<1> QED BY <1>1, <1>4, <1>5, <1>8 DEF EngineInv

LEMMA Keeps == EngineInv /\ [CpuNext]_cpuVars => EngineInv'
<1> SUFFICES ASSUME EngineInv, [CpuNext]_cpuVars PROVE EngineInv'
  OBVIOUS
<1>1. CASE TxInit
  BY <1>1, TxBegins
<1>2. CASE TxAad
  BY <1>2, TxAddsAad
<1>3. CASE TxFinalize
  BY <1>3, TxEnds
<1>4. CASE process_16bytes_fused
  <2>1. PICK x : x = Absorb(tx, Ciphered(1)[1])
    OBVIOUS
  <2>2. 1 \in 1..8 /\ Left(tx, 1) /\ Seal(Ciphered(1), x)
    BY <1>4, <2>1 DEF process_16bytes_fused
  <2> QED BY <2>1, <2>2, SealBlocks
<1>5. CASE process_64bytes_fused
  <2>1. PICK x : x = AbsorbWide(tx, Ciphered(4))
    OBVIOUS
  <2>2. 4 \in 1..8 /\ Left(tx, 4) /\ Seal(Ciphered(4), x)
    BY <1>5, <2>1 DEF process_64bytes_fused
  <2> QED BY <2>1, <2>2, SealBlocks
<1>6. CASE process_128bytes_fused_arm
  <2>1. PICK x : x = AbsorbWide(tx, Ciphered(8))
    OBVIOUS
  <2>2. 8 \in 1..8 /\ Left(tx, 8) /\ Seal(Ciphered(8), x)
    BY <1>6, <2>1 DEF process_128bytes_fused_arm
  <2> QED BY <2>1, <2>2, SealBlocks
<1>7. CASE process_tail_fused
  BY <1>7, SealTail
<1>8. CASE RxInit
  BY <1>8, RxBegins
<1>9. CASE RxAad
  BY <1>9, RxAddsAad
<1>10. CASE verify_tag
  BY <1>10, RxVerifies
<1>11. CASE decrypt_16bytes_fused
  <2>1. PICK x : x = Absorb(rx, Arrived(1)[1])
    OBVIOUS
  <2>2. 1 \in 1..8 /\ Left(rx, 1) /\ Open(Deciphered(1), x)
    BY <1>11, <2>1 DEF decrypt_16bytes_fused
  <2> QED BY <2>1, <2>2, OpenBlocks
<1>12. CASE decrypt_64bytes_fused
  <2>1. PICK x : x = AbsorbWide(rx, Arrived(4))
    OBVIOUS
  <2>2. 4 \in 1..8 /\ Left(rx, 4) /\ Open(Deciphered(4), x)
    BY <1>12, <2>1 DEF decrypt_64bytes_fused
  <2> QED BY <2>1, <2>2, OpenBlocks
<1>13. CASE decrypt_128bytes_fused_arm
  <2>1. PICK x : x = AbsorbWide(rx, Arrived(8))
    OBVIOUS
  <2>2. 8 \in 1..8 /\ Left(rx, 8) /\ Open(Deciphered(8), x)
    BY <1>13, <2>1 DEF decrypt_128bytes_fused_arm
  <2> QED BY <2>1, <2>2, OpenBlocks
<1>14. CASE decrypt_tail_fused
  BY <1>14, OpenTail
<1>15. CASE NextMessage
  BY <1>15, GoesOn
<1>16. CASE UNCHANGED cpuVars
  BY <1>16 DEF cpuVars, EngineInv
<1> QED BY <1>1, <1>2, <1>3, <1>4, <1>5, <1>6, <1>7, <1>8, <1>9, <1>10, <1>11, <1>12, <1>13,
           <1>14, <1>15, <1>16 DEF CpuNext, TxNext, RxNext

-----------------------------------------------------------------------------
(* The properties.                                                         *)

LEMMA HashOfEngine ==
  ASSUME NEW e, NEW m, m = msg, Good(m), EngineOk(e), Works(e, m)
  PROVE  e.current_hash = GhashOf(e)
<1>1. PICK a \in 0..Len(m.aad), p \in 0..Len(m.text) : a = e.aad /\ p = e.pos
  BY DEF Works
<1>2. PICK s \in Seq(SUBSET Bits) : s = SubSeq(AadOf(m), 1, a) \o SubSeq(CipherOf(m), 1, p)
  <2>1. a \in 0..Len(AadOf(m)) /\ AadOf(m) \in Seq(SUBSET Bits)
        /\ p \in 0..Len(CipherOf(m)) /\ CipherOf(m) \in Seq(SUBSET Bits)
    BY MessageIs
  <2>2. SubSeq(AadOf(m), 1, a) \in Seq(SUBSET Bits) /\ SubSeq(CipherOf(m), 1, p) \in Seq(SUBSET Bits)
    BY <2>1, Prefix
  <2> QED BY <2>2, ConcatProperties
<1>3. PICK b \in SUBSET Bits : b = LengthsOf(m) /\ b = GcmLengths
  <2>1. m.aad_len \in Nat /\ m.text_len \in Nat
    BY DEF Good, Message
  <2>2. GcmLengths = vrbitq_u8({63 - b : b \in LengthBits(m.aad_len)} \cup
                               {127 - b : b \in LengthBits(m.text_len)})
    BY Zenon DEF GcmLengths, LengthBits
  <2> QED BY <2>1, <2>2, LengthBlock DEF LengthsOf
<1>4. AadOf(m) = Padded(msg.aad, msg.aad_len) /\ CipherOf(m) = GcmCipher
  BY Zenon DEF AadOf, CipherOf, Enciphered, GcmCipher
<1>5. GhashOf(e) = Ghash(m.h, s \o (IF e.done THEN <<b>> ELSE <<>>))
  BY <1>1, <1>2, <1>3, <1>4 DEF GhashOf
<1>6. CASE ~e.done
  <2>1. s \o <<>> = s
    BY ConcatEmptySeq
  <2>2. e.current_hash = Ghash(m.h, s)
    BY <1>1, <1>2, <1>6 DEF Works, HashAt
  <2>3. GhashOf(e) = Ghash(m.h, s \o <<>>)
    BY <1>5, <1>6
  <2> QED BY <2>1, <2>2, <2>3
<1>7. CASE e.done
  <2>1. s \o <<b>> = Append(s, b)
    BY AppendIsConcat
  <2>2. e.current_hash = FinalHash(m) /\ a = Len(m.aad) /\ p = Len(m.text)
    BY <1>1, <1>7 DEF Works
  <2>3. FinalHash(m) = Ghash(m.h, Append(s, b))
    BY <1>2, <1>3, <2>2 DEF FinalHash
  <2>4. GhashOf(e) = Ghash(m.h, s \o <<b>>)
    BY <1>5, <1>7
  <2> QED BY <2>1, <2>2, <2>3, <2>4
<1> QED BY <1>6, <1>7

\* HashIsGhash: whatever the messages, their lengths, the order of the steps of
\* 16, 64 and 128 bytes and the key before, the hash of either engine is GHASH
\* of what it has processed.
THEOREM EngineHashes == CpuSpec => []HashIsGhash
<1>1. EngineInv => HashIsGhash
  <2> SUFFICES ASSUME EngineInv PROVE HashIsGhash
    OBVIOUS
  <2>1. ASSUME tx.on PROVE tx.current_hash = GhashOf(tx)
    <3>1. PICK m : m = msg /\ Good(m) /\ EngineOk(tx) /\ Works(tx, m)
      BY <2>1, TxWorks
    <3> QED BY <3>1, HashOfEngine
  <2>2. ASSUME rx.on PROVE rx.current_hash = GhashOf(rx)
    <3>1. PICK m : m = msg /\ Good(m) /\ EngineOk(rx) /\ Works(rx, m)
      BY <2>2, RxWorks
    <3> QED BY <3>1, HashOfEngine
  <2> QED BY <2>1, <2>2 DEF HashIsGhash
<1> QED BY <1>1, Starts, Keeps, PTL DEF CpuSpec

\* OpensInAnySteps: the receiver, in steps of its own, reads the text that was
\* sealed, and the tag it computes is the one it was sent.
THEOREM EngineOpens == CpuSpec => []OpensInAnySteps
<1>1. EngineInv => OpensInAnySteps
  <2> SUFFICES ASSUME EngineInv PROVE OpensInAnySteps
    OBVIOUS
  <2>1. CASE ~rx.on
    <3>1. plain = <<>> /\ ~rx.done
      BY <2>1 DEF EngineInv, Receiver, EngineOk
    <3>2. Len(<<>>) = 0 /\ \A t : SubSeq(t, 1, 0) = <<>>
      <4>1. 1 \in Int /\ 0 \in Int /\ 0 < 1 /\ Len(<<>>) = 0
        OBVIOUS
      <4> QED BY <4>1, SubSeqEmpty
    <3> QED BY <3>1, <3>2 DEF OpensInAnySteps
  <2>2. CASE rx.on
    <3>1. PICK m : /\ m = msg /\ Good(m) /\ Works(rx, m)
                   /\ plain = SubSeq(TextOf(m), 1, rx.pos)
      BY <2>2, RxWorks
    <3>2. PICK t, p :
            t \in Seq(SUBSET Bits) /\ t = TextOf(m) /\ p = rx.pos /\ p \in 0..Len(t) /\ Len(t) = Len(m.text)
      BY <3>1, MessageIs DEF Works
    <3>3. Len(plain) = p
      BY <3>1, <3>2, Prefix
    <3>4. plain = SubSeq(Padded(msg.text, msg.text_len), 1, Len(plain))
      BY <3>1, <3>2, <3>3 DEF TextOf
    <3>5. rx.done => rx.verified /\ p = Len(msg.text)
      BY <3>1, <3>2 DEF Works, EngineInv, Receiver
    <3> QED BY <3>3, <3>4, <3>5 DEF OpensInAnySteps
  <2> QED BY <2>1, <2>2
<1> QED BY <1>1, Starts, Keeps, PTL DEF CpuSpec

\* ProductsAgree: the vector product with the powers an engine holds and the bit
\* loop of the GPU are multiplication in GF(2^128).
THEOREM EngineMultiplies == CpuSpec => []ProductsAgree
<1>1. EngineInv => ProductsAgree
  <2> SUFFICES ASSUME EngineInv, tx.on, NEW j \in Bits
               PROVE  /\ gf_mul_arm({j}, tx.powers[1]) = Times({j}, msg.h)
                      /\ gf_mul_64({j}, msg.h) = Times({j}, msg.h)
    BY DEF ProductsAgree
  <2>1. PICK m : m = msg /\ Good(m) /\ EngineOk(tx) /\ Works(tx, m)
    BY TxWorks
  <2>2. PICK h \in SUBSET Bits, b \in SUBSET Bits : h = msg.h /\ b = {j}
    BY <2>1 DEF Good, Message
  <2>3. Powers(tx.powers, h)
    BY <2>1, <2>2 DEF EngineOk, Works
  <2>4. PICK g \in SUBSET Bits : g = tx.powers[1] /\ vrbitq_u8(g) = h
    <3>1. 1 \in 1..8
      OBVIOUS
    <3> QED BY <2>3, <3>1 DEF Powers
  <2>5. gf_mul_arm(b, g) = Times(b, h)
    BY <2>4, ArmMultiplies
  <2>6. gf_mul_64(b, h) = Times(b, h)
    BY LoopMultiplies
  <2> QED BY <2>2, <2>4, <2>5, <2>6
<1> QED BY <1>1, Starts, Keeps, PTL DEF CpuSpec
=============================================================================
