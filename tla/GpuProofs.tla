----------------------------- MODULE GpuProofs ------------------------------
(***************************************************************************)
(* Proofs about the two kernels of GpuGhash, for any depth of the trees,   *)
(* any size of text and any interleaving of the threads.                   *)
(***************************************************************************)
EXTENDS GpuGhash, NumberProofs

-----------------------------------------------------------------------------
(* Powers of two.                                                          *)

Doubling(n, f) == f = [i \in 0..n |-> IF i = 0 THEN 1 ELSE 2 * f[i - 1]]

\* Every solution takes the same values.
LEMMA DoublingValues ==
  ASSUME NEW n \in Nat, NEW f, Doubling(n, f)
  PROVE  f[0] = 1 /\ \A i \in 1..n : f[i] = 2 * f[i - 1]
<1>1. PICK h : h = [i \in 0..n |-> IF i = 0 THEN 1 ELSE 2 * f[i - 1]]
  OBVIOUS
<1>2. h[0] = 1 /\ \A i \in 1..n : h[i] = 2 * f[i - 1]
  BY <1>1
<1>3. f = h
  BY <1>1 DEF Doubling
<1> QED BY <1>2, <1>3

LEMMA DoublingExists ==
  ASSUME NEW n \in Nat
  PROVE  \E f : Doubling(n, f)
<1>1. PICK F : F = [x \in Nat \X Nat |-> 2 * x[2]]
  OBVIOUS
<1>2. \A i \in Nat, v \in Nat : F[<<i, v>>] = 2 * v /\ 2 * v \in Nat
  BY <1>1
<1>t. \A i \in Nat, v \in Nat : F[<<i, v>>] \in Nat
  BY <1>2
<1>3. PICK f \in [0..n -> Nat] : Follow(f, n, 1, F)
  BY <1>t, Recursion
<1>4. f[0] = 1 /\ \A i \in 1..n : f[i] = 2 * f[i - 1]
  <2>1. \A i \in 1..n : i \in Nat /\ f[i - 1] \in Nat
    OBVIOUS
  <2> QED BY <1>2, <1>3, <2>1 DEF Follow
<1>5. Doubling(n, f)
  BY <1>4 DEF Doubling
<1> QED BY <1>5

\* Pow2(n) is the last value of a solution.
LEMMA Pow2IsLast ==
  ASSUME NEW n \in Nat
  PROVE  \E f : /\ Pow2(n) = f[n] /\ f[0] = 1
                /\ \A i \in 1..n : f[i] = 2 * f[i - 1]
<1>1. PICK f : f = CHOOSE p : Doubling(n, p)
  OBVIOUS
<1>2. Doubling(n, f)
  BY <1>1, DoublingExists
<1>3. Pow2(n) = f[n]
  BY <1>1 DEF Pow2, Doubling
<1> QED BY <1>2, <1>3, DoublingValues

\* A solution starts like every shorter one.
LEMMA DoublingUnique ==
  ASSUME NEW m \in Nat, NEW f, NEW g, f[0] = 1, g[0] = 1,
         \A i \in 1..m : f[i] = 2 * f[i - 1] /\ g[i] = 2 * g[i - 1]
  PROVE  \A i \in 0..m : f[i] = g[i] /\ f[i] \in Nat \ {0}
<1> DEFINE S == {i \in Nat : i <= m => f[i] = g[i] /\ f[i] \in Nat \ {0}}
<1>1. 0 \in S
  OBVIOUS
<1>2. ASSUME NEW i \in Nat, i \in S PROVE i + 1 \in S
  <2> SUFFICES ASSUME i + 1 <= m PROVE f[i + 1] = g[i + 1] /\ f[i + 1] \in Nat \ {0}
    OBVIOUS
  <2>1. i + 1 \in 1..m /\ (i + 1) - 1 = i
    OBVIOUS
  <2>2. f[i + 1] = 2 * f[i] /\ g[i + 1] = 2 * g[i]
    BY <2>1
  <2>3. f[i] = g[i] /\ f[i] \in Nat \ {0}
    BY <1>2
  <2> QED BY <2>2, <2>3
<1>3. Nat \subseteq S
  <2> HIDE DEF S
  <2> QED BY <1>1, <1>2, SetInduction
<1> QED BY <1>3

LEMMA Pow2Zero == Pow2(0) = 1
BY Pow2IsLast

LEMMA Pow2Type ==
  ASSUME NEW n \in Nat
  PROVE  Pow2(n) \in Nat \ {0}
<1>1. PICK f : Pow2(n) = f[n] /\ f[0] = 1 /\ \A i \in 1..n : f[i] = 2 * f[i - 1]
  BY Pow2IsLast
<1> QED BY <1>1, DoublingUnique

LEMMA Pow2Next ==
  ASSUME NEW n \in Nat
  PROVE  Pow2(n + 1) = 2 * Pow2(n)
<1>1. PICK f : Pow2(n) = f[n] /\ f[0] = 1 /\ \A i \in 1..n : f[i] = 2 * f[i - 1]
  BY Pow2IsLast
<1>2. PICK g : Pow2(n + 1) = g[n + 1] /\ g[0] = 1 /\ \A i \in 1..(n + 1) : g[i] = 2 * g[i - 1]
  BY Pow2IsLast
<1>3. f[n] = g[n]
  <2>1. \A i \in 1..n : f[i] = 2 * f[i - 1] /\ g[i] = 2 * g[i - 1]
    BY <1>1, <1>2
  <2>2. \A i \in 0..n : f[i] = g[i]
    BY <1>1, <1>2, <2>1, DoublingUnique
  <2> QED BY <2>2
<1>4. g[n + 1] = 2 * g[(n + 1) - 1] /\ (n + 1) - 1 = n
  BY <1>2
<1> QED BY <1>1, <1>2, <1>3, <1>4

\* The powers of H that are kept: H to the powers of two.
LEMMA PowersKept == \A s \in Nat : h_pow(s) = Pow2(s)
BY DEF h_pow, Pow2

\* A power of two is a multiple of every lower one.
LEMMA Pow2Sum ==
  ASSUME NEW k \in Nat, NEW n \in Nat
  PROVE  Pow2(k + n) = Pow2(k) * Pow2(n)
<1> DEFINE S == {i \in Nat : Pow2(k + i) = Pow2(k) * Pow2(i)}
<1>1. 0 \in S
  BY Pow2Zero, Pow2Type
<1>2. ASSUME NEW i \in Nat, i \in S PROVE i + 1 \in S
  <2>1. PICK a \in Nat, b \in Nat, c \in Nat : a = Pow2(k) /\ b = Pow2(i) /\ c = Pow2(k + i)
    BY Pow2Type
  <2>2. Pow2(k + (i + 1)) = 2 * c /\ Pow2(i + 1) = 2 * b
    <3>1. k + (i + 1) = (k + i) + 1 /\ k + i \in Nat
      OBVIOUS
    <3> QED BY <2>1, <3>1, Pow2Next
  <2>3. c = a * b
    BY <1>2, <2>1
  <2>4. 2 * (a * b) = a * (2 * b)
    OBVIOUS
  <2> QED BY <2>1, <2>2, <2>3, <2>4
<1>3. Nat \subseteq S
  <2> HIDE DEF S
  <2> QED BY <1>1, <1>2, SetInduction
<1> QED BY <1>3

LEMMA Scaled ==
  ASSUME NEW d \in Nat \ {0}, NEW a \in Nat, NEW b \in Nat
  PROVE  /\ d * a < d * b <=> a < b
         /\ d * a = d * b <=> a = b
         /\ d * a \in Nat /\ d * a >= a
OBVIOUS

-----------------------------------------------------------------------------
(* Sums of n leaves from leaf c on, the first times the highest power.     *)

Terms(a) == \A x \in a : x = <<x[1], x[2]>> /\ x[1] \in Int /\ x[2] \in Int

\* No two leaves have a block of text in common.
Apart(leaf, n) ==
    /\ \A i \in 0..n - 1 : Terms(leaf[i])
    /\ \A i, k \in 0..n - 1 : \A x \in leaf[i], y \in leaf[k] : x[1] = y[1] => i = k

Tree(leaf, u, c, n) == UNION {TimesPower(leaf[c + j], u * (n - 1 - j)) : j \in 0..n - 1}

LEMMA InProduct ==
  ASSUME NEW a, NEW k, NEW y
  PROVE  y \in TimesPower(a, k) <=> \E x \in a : y = <<x[1], x[2] + k>>
BY DEF TimesPower

Term(leaf, u, c, n, y) ==
    \E j \in 0..n - 1 : \E x \in leaf[c + j] : y = <<x[1], x[2] + u * (n - 1 - j)>>

LEMMA InTree ==
  ASSUME NEW leaf, NEW u, NEW c, NEW n, NEW y
  PROVE  y \in Tree(leaf, u, c, n) <=> Term(leaf, u, c, n, y)
<1>1. y \in Tree(leaf, u, c, n) <=>
         \E j \in 0..n - 1 : y \in TimesPower(leaf[c + j], u * (n - 1 - j))
  BY DEF Tree
<1> QED BY <1>1, InProduct DEF Term

LEMMA TreeOfOne ==
  ASSUME NEW leaf, NEW u \in Nat, NEW c \in Nat, Terms(leaf[c])
  PROVE  Tree(leaf, u, c, 1) = leaf[c]
<1>1. ASSUME NEW y PROVE y \in Tree(leaf, u, c, 1) <=> y \in leaf[c]
  <2>1. y \in Tree(leaf, u, c, 1) <=> \E x \in leaf[c + 0] : y = <<x[1], x[2] + u * (1 - 1 - 0)>>
    <3>1. y \in Tree(leaf, u, c, 1) <=> Term(leaf, u, c, 1, y)
      BY InTree
    <3> QED BY <3>1 DEF Term
  <2>2. c + 0 = c /\ u * (1 - 1 - 0) = 0
    OBVIOUS
  <2>3. \A x \in leaf[c] : <<x[1], x[2] + 0>> = x
    BY DEF Terms
  <2> QED BY <2>1, <2>2, <2>3
<1> QED BY <1>1

\* The first n of 2 * n leaves, times a power, and the others.
LEMMA TreeJoin ==
  ASSUME NEW leaf, NEW u \in Nat, NEW n \in Nat \ {0}, NEW c \in Nat, NEW cells \in Nat,
         c + 2 * n <= cells, Apart(leaf, cells)
  PROVE  Plus(TimesPower(Tree(leaf, u, c, n), u * n), Tree(leaf, u, c + n, n))
           = Tree(leaf, u, c, 2 * n)
<1> DEFINE A == TimesPower(Tree(leaf, u, c, n), u * n)
           B == Tree(leaf, u, c + n, n)
           T == Tree(leaf, u, c, 2 * n)
<1>a. ASSUME NEW y
      PROVE  y \in A <=> \E j \in 0..n - 1 : \E x \in leaf[c + j] :
                            y = <<x[1], x[2] + u * (2 * n - 1 - j)>>
  <2>1. y \in A <=> \E z \in Tree(leaf, u, c, n) : y = <<z[1], z[2] + u * n>>
    BY InProduct
  <2>5. ASSUME y \in A
        PROVE  \E j \in 0..n - 1 : \E x \in leaf[c + j] :
                  y = <<x[1], (x[2] + u * (n - 1 - j)) + u * n>>
    <3>1. PICK z \in Tree(leaf, u, c, n) : y = <<z[1], z[2] + u * n>>
      BY <2>1, <2>5
    <3>2. PICK j \in 0..n - 1 : \E x \in leaf[c + j] : z = <<x[1], x[2] + u * (n - 1 - j)>>
      <4>1. Term(leaf, u, c, n, z)
        BY InTree
      <4> QED BY <4>1 DEF Term
    <3>3. PICK x \in leaf[c + j] : z = <<x[1], x[2] + u * (n - 1 - j)>>
      BY <3>2
    <3>4. z[1] = x[1] /\ z[2] = x[2] + u * (n - 1 - j)
      BY <3>3
    <3> QED BY <3>1, <3>4
  <2>6. ASSUME NEW j \in 0..n - 1, NEW x \in leaf[c + j],
               y = <<x[1], (x[2] + u * (n - 1 - j)) + u * n>>
        PROVE  y \in A
    <3>1. PICK z : z = <<x[1], x[2] + u * (n - 1 - j)>>
      OBVIOUS
    <3>2. z \in Tree(leaf, u, c, n)
      <4>1. Term(leaf, u, c, n, z)
        BY <3>1 DEF Term
      <4> QED BY <4>1, InTree
    <3>3. z[1] = x[1] /\ z[2] = x[2] + u * (n - 1 - j)
      BY <3>1
    <3>4. y = <<z[1], z[2] + u * n>>
      BY <3>3, <2>6
    <3> HIDE DEF A
    <3> QED BY <2>1, <3>2, <3>4
  <2>3. y \in A <=> \E j \in 0..n - 1 : \E x \in leaf[c + j] :
                       y = <<x[1], (x[2] + u * (n - 1 - j)) + u * n>>
    <3> HIDE DEF A
    <3> QED BY <2>5, <2>6
  <2>4. ASSUME NEW j \in 0..n - 1, NEW x \in leaf[c + j]
        PROVE  (x[2] + u * (n - 1 - j)) + u * n = x[2] + u * (2 * n - 1 - j)
    <3>1. x[2] \in Int
      BY DEF Apart, Terms
    <3>2. u * (n - 1 - j) + u * n = u * (2 * n - 1 - j)
      OBVIOUS
    <3>3. PICK p \in Int, q \in Int, r \in Int :
            p = u * (n - 1 - j) /\ q = u * n /\ r = u * (2 * n - 1 - j)
      OBVIOUS
    <3> QED BY <3>1, <3>2, <3>3
  <2> QED BY <2>3, <2>4
<1>b. ASSUME NEW y
      PROVE  y \in B <=> \E j \in n..2 * n - 1 : \E x \in leaf[c + j] :
                            y = <<x[1], x[2] + u * (2 * n - 1 - j)>>
  <2>1. y \in B <=> \E j \in 0..n - 1 : \E x \in leaf[(c + n) + j] :
                       y = <<x[1], x[2] + u * (n - 1 - j)>>
    <3>1. y \in B <=> Term(leaf, u, c + n, n, y)
      BY InTree
    <3> QED BY <3>1 DEF Term
  <2>2. ASSUME NEW j \in 0..n - 1
        PROVE  /\ n + j \in n..2 * n - 1 /\ (c + n) + j = c + (n + j)
               /\ n - 1 - j = 2 * n - 1 - (n + j)
    OBVIOUS
  <2>3. ASSUME NEW j \in n..2 * n - 1
        PROVE  /\ j - n \in 0..n - 1 /\ (c + n) + (j - n) = c + j
               /\ n - 1 - (j - n) = 2 * n - 1 - j
    OBVIOUS
  <2>4. ASSUME y \in B
        PROVE  \E j \in n..2 * n - 1 : \E x \in leaf[c + j] :
                  y = <<x[1], x[2] + u * (2 * n - 1 - j)>>
    <3>1. PICK j \in 0..n - 1 : \E x \in leaf[(c + n) + j] : y = <<x[1], x[2] + u * (n - 1 - j)>>
      BY <2>1, <2>4
    <3> QED BY <3>1, <2>2
  <2>5. ASSUME NEW j \in n..2 * n - 1, NEW x \in leaf[c + j],
               y = <<x[1], x[2] + u * (2 * n - 1 - j)>>
        PROVE  y \in B
    <3> HIDE DEF B
    <3> QED BY <2>1, <2>3, <2>5
  <2> QED BY <2>4, <2>5
<1>t. ASSUME NEW y
      PROVE  y \in T <=> \E j \in 0..2 * n - 1 : \E x \in leaf[c + j] :
                            y = <<x[1], x[2] + u * (2 * n - 1 - j)>>
  <2>1. y \in T <=> Term(leaf, u, c, 2 * n, y)
    BY InTree
  <2> HIDE DEF T
  <2> QED BY <2>1 DEF Term
<1> HIDE DEF A, B, T
<1>1. ASSUME NEW y PROVE y \in T <=> y \in A \/ y \in B
  <2>1. \A j : j \in 0..2 * n - 1 <=> j \in 0..n - 1 \/ j \in n..2 * n - 1
    OBVIOUS
  <2> QED BY <1>a, <1>b, <1>t, <2>1
<1>2. ASSUME NEW y PROVE ~(y \in A /\ y \in B)
  <2> SUFFICES ASSUME y \in A, y \in B PROVE FALSE
    OBVIOUS
  <2>1. PICK j \in 0..n - 1 : \E x \in leaf[c + j] : y = <<x[1], x[2] + u * (2 * n - 1 - j)>>
    BY <1>a
  <2>2. PICK x \in leaf[c + j] : y[1] = x[1]
    BY <2>1
  <2>3. PICK k \in n..2 * n - 1 : \E z \in leaf[c + k] : y = <<z[1], z[2] + u * (2 * n - 1 - k)>>
    BY <1>b
  <2>4. PICK z \in leaf[c + k] : y[1] = z[1]
    BY <2>3
  <2>5. c + j \in 0..cells - 1 /\ c + k \in 0..cells - 1 /\ c + j # c + k
    OBVIOUS
  <2> QED BY <2>2, <2>4, <2>5 DEF Apart
<1>3. Plus(A, B) = T
  BY <1>1, <1>2 DEF Plus
<1> QED BY <1>3 DEF A, B, T

-----------------------------------------------------------------------------
(* The invariants.                                                         *)

\* What a whole thread block leaves of the text, and what the second kernel
\* finds of it.
Share(b) == {<<b * Threads + j, Threads - j>> : j \in 0..Threads - 1}
Sum(b) == IF b < blocks_pass1(size) THEN Share(b) ELSE Garbage(b)

\* The leaves of the kernel that runs, and the sum of n of them.
Leaf(c) == IF kernel = "pass1" THEN {<<global_idx(c), 1>>} ELSE Sum(c)
Leaves == [c \in 0..Cells - 1 |-> Leaf(c)]
Part(c, n) == Tree(Leaves, Pow2(First), c, n)

Running == kernel \in {"pass1", "pass2"}

GpuTypes ==
    /\ size \in Nat /\ grid \subseteq 0..blocks_pass1(size) - 1 /\ blockIdx \in Nat
    /\ kernel \in {"none", "pass1", "pass2", "over"}
    /\ DOMAIN masked = 0..size - 1 /\ DOMAIN partial = 0..blocks_pass1(size) - 1
    /\ kernel = "pass1" => blockIdx \in 0..blocks_pass1(size) - 1 /\ blockIdx \notin grid
    /\ kernel \in {"pass2", "over"} => grid = {}
    /\ Running => /\ DOMAIN passed = 0..Threads + Partials
                  /\ DOMAIN temp = 0..Threads + Partials
                  /\ DOMAIN shm = 0..Cells - 1

\* A block of text is enciphered by the thread that has it, and by no other.
Waiting(b, t) == b \in grid \/ (kernel = "pass1" /\ b = blockIdx /\ passed[t] = 0)
Masking ==
    /\ \A b \in 0..blocks_pass1(size) - 1, t \in 0..Threads - 1 :
          masked[b * Threads + t] = IF Waiting(b, t) THEN <<>> ELSE <<b * Threads + t + 2>>
    /\ \A i \in DOMAIN masked : i >= blocks_pass1(size) * Threads => masked[i] = <<>>

\* The thread blocks that are through have left their shares.
Shares ==
    \A b \in 0..blocks_pass1(size) - 1 :
        partial[b] = IF b \in grid \/ (kernel = "pass1" /\ b = blockIdx) THEN Garbage(b)
                     ELSE Share(b)

\* The thread that stores leaf c.
Owner(c) == IF kernel = "pass1" \/ c < Partials \div 2 THEN c ELSE c - Partials \div 2

\* Every thread has come to barrier p or to the next.
Lockstep(p) == \A t \in ThreadIdx : passed[t] \in {p, p + 1}

Stored == \A c \in 0..Cells - 1 : passed[Owner(c)] = 1 => shm[c] = Leaf(c)

\* Between barriers p and p + 1: pairs d apart are summed up, and the right
\* cell of a pair stays as it is.
LeftCells(p, d) == \A t \in 0..Cells - 1 :
    2 * d * t < Cells => shm[2 * d * t] = Part(2 * d * t, IF passed[t] = p + 1 THEN 2 * d ELSE d)
RightCells(d) == \A t \in 0..Cells - 1 :
    2 * d * t + d < Cells => shm[2 * d * t + d] = Part(2 * d * t + d, d)

\* A product somebody holds is that of the cell as it was at the barrier.
Held(p, d) == \A t \in ThreadIdx :
    temp[t] # Empty =>
        /\ p > 0 /\ passed[t] = p /\ 2 * d * t < Cells
        /\ temp[t] = TimesPower(Part(2 * d * t, d), Pow2(First) * d)

Phase(p) ==
    /\ Lockstep(p) /\ Held(p, Pow2(p - 1))
    /\ p = 0 => Stored
    /\ p > 0 => LeftCells(p, Pow2(p - 1)) /\ RightCells(Pow2(p - 1))

Phases == Running => \E p \in 0..Levels : Phase(p)

Result == kernel = "over" => final_mac = Tree([c \in 0..Partials - 1 |-> Sum(c)], Threads, 0, Partials)

IGpu == GpuTypes /\ Masking /\ Shares /\ Phases /\ Result

-----------------------------------------------------------------------------
LEMMA Dimensions ==
  /\ Threads \in Nat \ {0} /\ Partials \in Nat \ {0}
  /\ Partials = 2 * (Partials \div 2) /\ Partials \div 2 \in Nat \ {0}
  /\ Cells \in Nat \ {0} /\ Levels \in Nat \ {0} /\ First \in Nat
  /\ Cells = Pow2(Levels)
<1>1. PassOneLevels \in Nat \ {0} /\ PassTwoLevels \in Nat \ {0}
  BY GpuAssumption
<1>2. Threads \in Nat \ {0} /\ Partials \in Nat \ {0}
  BY <1>1, Pow2Type DEF Threads, Partials
<1>3. PICK k \in Nat : k + 1 = PassTwoLevels
  <2>1. PassTwoLevels - 1 \in Nat /\ (PassTwoLevels - 1) + 1 = PassTwoLevels
    BY <1>1
  <2> QED BY <2>1
<1>4. Partials = 2 * Pow2(k) /\ Pow2(k) \in Nat \ {0}
  <2>1. Pow2(k + 1) = 2 * Pow2(k) /\ Pow2(k) \in Nat \ {0}
    BY Pow2Next, Pow2Type
  <2> QED BY <1>3, <2>1 DEF Partials
<1>5. Partials = 2 * (Partials \div 2) /\ Partials \div 2 \in Nat \ {0}
  <2>1. PICK x \in Nat \ {0} : x = Pow2(k)
    BY <1>4
  <2>2. Partials = 2 * x
    BY <1>4, <2>1
  <2>3. (2 * x) \div 2 = x
    BY <2>1
  <2> QED BY <2>1, <2>2, <2>3
<1>6. Cells = Pow2(Levels)
  BY DEF Cells, Levels, Threads, Partials
<1> QED BY <1>1, <1>2, <1>5, <1>6 DEF Cells, Levels, First

\* Which threads there are.
LEMMA ThreadRange ==
  ASSUME Running
  PROVE  /\ \A t \in ThreadIdx : t \in 0..Threads + Partials /\ t \in 0..Cells - 1
         /\ \A c \in 0..Cells - 1 : Owner(c) \in ThreadIdx
         /\ \A t \in Nat : 2 * t < Cells => t \in ThreadIdx
         /\ 0 \in ThreadIdx
<1>1. CASE kernel = "pass1"
  BY <1>1, Dimensions DEF ThreadIdx, Cells, Owner
<1>2. CASE kernel = "pass2"
  <2>1. PICK h \in Nat \ {0} : h = Partials \div 2 /\ Partials = 2 * h
    BY Dimensions
  <2>2. ThreadIdx = 0..h - 1 /\ Cells = 2 * h
    BY <1>2, <2>1 DEF ThreadIdx, Cells
  <2>3. \A c : Owner(c) = IF c < h THEN c ELSE c - h
    BY <1>2, <2>1 DEF Owner
  <2> QED BY <2>1, <2>2, <2>3, Dimensions
<1> QED BY <1>1, <1>2 DEF Running

\* A block of text has one place.
LEMMA OnePlace ==
  ASSUME NEW n \in Nat \ {0}, NEW b \in Nat, NEW c \in Nat, NEW i \in 0..n - 1, NEW j \in 0..n - 1,
         b * n + i = c * n + j
  PROVE  b = c /\ i = j
<1>1. CASE b < c
  <2>1. PICK k \in Nat : c = b + 1 + k
    <3>1. c - b - 1 \in Nat /\ c = b + 1 + (c - b - 1)
      BY <1>1
    <3> QED BY <3>1
  <2>2. c * n = b * n + n + k * n /\ k * n \in Nat /\ b * n \in Nat
    BY <2>1
  <2> QED BY <2>2
<1>2. CASE c < b
  <2>1. PICK k \in Nat : b = c + 1 + k
    <3>1. b - c - 1 \in Nat /\ b = c + 1 + (b - c - 1)
      BY <1>2
    <3> QED BY <3>1
  <2>2. b * n = c * n + n + k * n /\ k * n \in Nat /\ c * n \in Nat
    BY <2>1
  <2> QED BY <2>2
<1>3. CASE b = c
  <2>1. b * n = c * n /\ b * n \in Nat
    BY <1>3
  <2> QED BY <1>3, <2>1
<1> QED BY <1>1, <1>2, <1>3

\* The place of a block within the first k thread blocks.
LEMMA PlaceBelow ==
  ASSUME NEW n \in Nat \ {0}, NEW b \in Nat, NEW k \in Nat, b < k, NEW i \in 0..n - 1
  PROVE  b * n + i \in Nat /\ b * n + i < k * n
<1>1. PICK r \in Nat : k = b + 1 + r
  <2>1. k - b - 1 \in Nat /\ k = b + 1 + (k - b - 1)
    OBVIOUS
  <2> QED BY <2>1
<1>2. k * n = b * n + n + r * n /\ r * n \in Nat /\ b * n \in Nat
  BY <1>1
<1> QED BY <1>2

\* Whole thread blocks of a text.
LEMMA WholeBlocks ==
  ASSUME NEW s \in Nat
  PROVE  /\ blocks_pass1(s) \in Nat
         /\ blocks_pass1(s) * Threads <= s /\ s < blocks_pass1(s) * Threads + Threads
         /\ blocks_pass1(s) * Threads \in Nat
<1>1. PICK n \in Nat \ {0} : n = Threads
  BY Dimensions
<1>2. PICK q \in Int : q = s \div n
  OBVIOUS
<1>3. q \in Nat /\ q * n <= s /\ s < q * n + n
  BY <1>2
<1>4. q * n \in Nat
  BY <1>3
<1> QED BY <1>1, <1>2, <1>3, <1>4 DEF blocks_pass1

\* The blocks of whole thread blocks are in the text.
LEMMA BlockIndex ==
  ASSUME NEW s \in Nat, NEW b \in 0..blocks_pass1(s) - 1, NEW t \in 0..Threads - 1
  PROVE  /\ b * Threads + t \in 0..s - 1
         /\ ~(b * Threads + t >= blocks_pass1(s) * Threads)
<1>1. PICK n \in Nat \ {0} : n = Threads
  BY Dimensions
<1>2. PICK k \in Nat : k = blocks_pass1(s)
  BY WholeBlocks
<1>3. PICK q \in Nat : q = k * n
  BY <1>1, <1>2
<1>4. q <= s
  BY <1>1, <1>2, <1>3, WholeBlocks
<1>5. b \in Nat /\ b < k /\ t \in 0..n - 1
  BY <1>1, <1>2
<1>6. PICK x \in Nat : x = b * n + t /\ x < q
  BY <1>3, <1>5, PlaceBelow
<1> QED BY <1>1, <1>2, <1>3, <1>4, <1>6

LEMMA LeavesApart ==
  ASSUME GpuTypes, Running
  PROVE  Apart(Leaves, Cells)
<1>0. Cells \in Nat /\ Threads \in Nat \ {0} /\ blocks_pass1(size) \in Nat /\ blockIdx \in Nat
  BY Dimensions, WholeBlocks DEF GpuTypes
<1>1. \A c \in 0..Cells - 1 : Leaves[c] = Leaf(c)
  BY DEF Leaves
<1>2. CASE kernel = "pass1"
  <2>1. \A c \in 0..Cells - 1 : Leaves[c] = {<<blockIdx * Threads + c, 1>>}
    BY <1>1, <1>2 DEF Leaf, global_idx
  <2>2. PICK s \in Nat : s = blockIdx * Threads
    BY <1>0
  <2>3. \A c \in 0..Cells - 1 : Leaves[c] = {<<s + c, 1>>}
    BY <2>1, <2>2
  <2> QED BY <1>0, <2>3 DEF Apart, Terms
<1>3. CASE kernel = "pass2"
  <2>1. \A c \in 0..Cells - 1 : Leaves[c] = Sum(c)
    BY <1>1, <1>3 DEF Leaf
  <2>2. ASSUME NEW c \in 0..Cells - 1, NEW x \in Sum(c)
        PROVE  /\ x = <<x[1], x[2]>> /\ x[2] \in Int
               /\ \/ x[1] = -1 - c
                  \/ \E j \in 0..Threads - 1 : x[1] = c * Threads + j
    <3>1. CASE c < blocks_pass1(size)
      <4>1. PICK j \in 0..Threads - 1 : x = <<c * Threads + j, Threads - j>>
        BY <3>1 DEF Sum, Share
      <4>2. x[1] = c * Threads + j /\ x[2] = Threads - j /\ x = <<x[1], x[2]>>
        BY <4>1
      <4> QED BY <1>0, <4>2
    <3>2. CASE ~(c < blocks_pass1(size))
      BY <3>2 DEF Sum, Garbage
    <3> QED BY <3>1, <3>2
  <2>3. ASSUME NEW c \in 0..Cells - 1, NEW j \in 0..Threads - 1
        PROVE  c * Threads + j \in Nat
    BY <1>0
  <2>4. ASSUME NEW c \in 0..Cells - 1 PROVE Terms(Sum(c))
    BY <1>0, <2>2, <2>3 DEF Terms
  <2>5. ASSUME NEW c \in 0..Cells - 1, NEW d \in 0..Cells - 1, NEW x \in Sum(c), NEW y \in Sum(d),
               x[1] = y[1]
        PROVE  c = d
    <3>1. c \in Nat /\ d \in Nat
      BY <1>0
    <3>2. CASE x[1] = -1 - c
      <4>1. -1 - c \notin Nat /\ (-1 - c = -1 - d => c = d)
        BY <3>1
      <4>2. y[1] = -1 - d
        <5>1. y[1] \notin Nat
          BY <2>5, <3>2, <4>1
        <5> QED BY <2>2, <2>3, <5>1
      <4> QED BY <2>5, <3>2, <4>1, <4>2
    <3>3. CASE x[1] # -1 - c
      <4>1. PICK j \in 0..Threads - 1 : x[1] = c * Threads + j
        BY <2>2, <3>3
      <4>2. y[1] # -1 - d
        BY <2>3, <2>5, <3>1, <4>1
      <4>3. PICK k \in 0..Threads - 1 : y[1] = d * Threads + k
        BY <2>2, <4>2
      <4> QED BY <1>0, <2>5, <3>1, <4>1, <4>3, OnePlace
    <3> QED BY <3>2, <3>3
  <2> QED BY <2>1, <2>4, <2>5 DEF Apart
<1> QED BY <1>2, <1>3 DEF Running

\* Every block of text has a place.
LEMMA Placed ==
  ASSUME NEW n \in Nat \ {0}, NEW i \in Nat, NEW k \in Nat
  PROVE  \E b \in Nat, t \in 0..n - 1 : i = b * n + t /\ (i < k * n => b < k)
<1>1. PICK b \in Int, t \in Int : b = i \div n /\ t = i % n
  OBVIOUS
<1>2. b \in Nat /\ t \in 0..n - 1 /\ i = b * n + t
  BY <1>1
<1>3. ASSUME i < k * n, ~(b < k) PROVE FALSE
  <2>1. PICK r \in Nat : b = k + r
    <3>1. b - k \in Nat /\ b = k + (b - k)
      BY <1>2, <1>3
    <3> QED BY <3>1
  <2>2. b * n = k * n + r * n /\ r * n \in Nat /\ k * n \in Nat
    BY <2>1
  <2> QED BY <1>2, <1>3, <2>2
<1> QED BY <1>2, <1>3

-----------------------------------------------------------------------------
(* Steps.                                                                  *)

Steady == size' = size /\ grid' = grid /\ kernel' = kernel /\ blockIdx' = blockIdx

LEMMA ThreadSteady ==
  ASSUME NEW t \in ThreadIdx, Thread(t)
  PROVE  Steady /\ Running /\ partial' = partial /\ final_mac' = final_mac
BY DEF Thread, Encrypt, Fetch, Multiply, WriteBack, StandBy, AtLevel, ThreadIdx, Steady, Running

LEMMA SteadyParts ==
  ASSUME Steady
  PROVE  /\ Cells' = Cells /\ First' = First /\ Levels' = Levels /\ ThreadIdx' = ThreadIdx
         /\ Running' = Running /\ Leaves' = Leaves
         /\ \A c : Owner(c)' = Owner(c) /\ Leaf(c)' = Leaf(c) /\ Sum(c)' = Sum(c)
         /\ \A c, n : Part(c, n)' = Part(c, n)
<1>1. Cells' = Cells /\ First' = First /\ Levels' = Levels /\ ThreadIdx' = ThreadIdx
  BY DEF Steady, Cells, First, Levels, ThreadIdx
<1>2. \A c : Owner(c)' = Owner(c) /\ Leaf(c)' = Leaf(c) /\ Sum(c)' = Sum(c)
  BY DEF Steady, Owner, Leaf, Sum, Share, global_idx
<1>3. Leaves' = Leaves
  BY <1>1, <1>2 DEF Leaves
<1>4. \A c, n : Part(c, n)' = Part(c, n)
  BY <1>1, <1>3 DEF Part
<1> QED BY <1>1, <1>2, <1>3, <1>4 DEF Steady, Running

LEMMA GpuTypesInit == GpuInit => GpuTypes
BY GpuAssumption DEF GpuInit, GpuTypes, Running

LEMMA GpuTypesNext == GpuTypes /\ [GpuNext]_gpuVars => GpuTypes'
<1> SUFFICES ASSUME GpuTypes, [GpuNext]_gpuVars PROVE GpuTypes'
  OBVIOUS
<1>1. ASSUME NEW b \in grid, LaunchPass1(b) PROVE GpuTypes'
  <2>1. Cells' = Threads
    BY <1>1 DEF LaunchPass1, Cells
  <2>2. size' = size /\ grid' = grid \ {b} /\ kernel' = "pass1" /\ blockIdx' = b
    BY <1>1 DEF LaunchPass1
  <2>3. masked' = masked /\ partial' = partial
    BY <1>1 DEF LaunchPass1
  <2>4. /\ DOMAIN passed' = 0..Threads + Partials /\ DOMAIN temp' = 0..Threads + Partials
        /\ DOMAIN shm' = 0..Threads - 1
    BY <1>1 DEF LaunchPass1, Ready
  <2>5. blocks_pass1(size) \in Nat
    BY WholeBlocks DEF GpuTypes
  <2> QED BY <2>1, <2>2, <2>3, <2>4, <2>5 DEF GpuTypes
<1>2. CASE LaunchPass2
  <2>1. Cells' = Partials
    BY <1>2 DEF LaunchPass2, Cells
  <2>2. size' = size /\ grid' = grid /\ kernel' = "pass2" /\ blockIdx' = 0 /\ grid = {}
    BY <1>2 DEF LaunchPass2
  <2>3. masked' = masked /\ partial' = partial
    BY <1>2 DEF LaunchPass2
  <2>4. /\ DOMAIN passed' = 0..Threads + Partials /\ DOMAIN temp' = 0..Threads + Partials
        /\ DOMAIN shm' = 0..Partials - 1
    BY <1>2 DEF LaunchPass2, Ready
  <2> QED BY <2>1, <2>2, <2>3, <2>4 DEF GpuTypes
<1>3. ASSUME NEW t \in ThreadIdx, Thread(t) PROVE GpuTypes'
  <2>1. Steady /\ Cells' = Cells /\ Running' = Running /\ partial' = partial /\ Running
    BY <1>3, ThreadSteady, SteadyParts
  <2>2. DOMAIN masked' = DOMAIN masked
    BY <1>3 DEF Thread, Encrypt, Fetch, Multiply, WriteBack, StandBy
  <2>3. DOMAIN passed' = DOMAIN passed /\ DOMAIN temp' = DOMAIN temp /\ DOMAIN shm' = DOMAIN shm
    BY <1>3 DEF Thread, Encrypt, Fetch, Multiply, WriteBack, StandBy
  <2> QED BY <2>1, <2>2, <2>3 DEF GpuTypes, Steady
<1>4. CASE Exit
  <2>1. size' = size /\ grid' = grid /\ blockIdx' = blockIdx /\ masked' = masked
    BY <1>4 DEF Exit
  <2>2. DOMAIN partial' = DOMAIN partial /\ kernel' \in {"none", "over"}
    BY <1>4 DEF Exit
  <2>3. kernel' = "over" => kernel = "pass2"
    BY <1>4 DEF Exit, ThreadIdx
  <2> QED BY <2>1, <2>2, <2>3 DEF GpuTypes, Running
<1>5. CASE UNCHANGED gpuVars
  <2>1. Steady
    BY <1>5 DEF gpuVars, Steady
  <2>2. Cells' = Cells /\ Running' = Running
    BY <2>1, SteadyParts
  <2> QED BY <1>5, <2>2 DEF GpuTypes, gpuVars
<1> QED BY <1>1, <1>2, <1>3, <1>4, <1>5 DEF GpuNext

\* The counters.
LEMMA MaskingInit == GpuInit => Masking
<1> SUFFICES ASSUME GpuInit PROVE Masking
  OBVIOUS
<1>1. size \in Nat /\ grid = 0..blocks_pass1(size) - 1
  BY GpuAssumption DEF GpuInit
<1>2. \A i \in 0..size - 1 : masked[i] = <<>>
  BY DEF GpuInit
<1>3. DOMAIN masked = 0..size - 1
  BY DEF GpuInit
<1>4. ASSUME NEW b \in 0..blocks_pass1(size) - 1, NEW t \in 0..Threads - 1
      PROVE  b * Threads + t \in 0..size - 1
  BY <1>1, BlockIndex
<1> QED BY <1>1, <1>2, <1>3, <1>4 DEF Masking, Waiting

LEMMA MaskingNext == GpuTypes /\ Masking /\ [GpuNext]_gpuVars => Masking'
<1> SUFFICES ASSUME GpuTypes, Masking, [GpuNext]_gpuVars PROVE Masking'
  OBVIOUS
<1>0. /\ size \in Nat /\ Threads \in Nat \ {0} /\ Partials \in Nat \ {0}
      /\ blocks_pass1(size) \in Nat
  BY Dimensions, WholeBlocks DEF GpuTypes
<1>p. ASSUME NEW b \in 0..blocks_pass1(size) - 1, NEW t \in 0..Threads - 1
      PROVE  b * Threads + t \in 0..size - 1 /\ ~(b * Threads + t >= blocks_pass1(size) * Threads)
  BY <1>0, BlockIndex
<1>s. ASSUME masked' = masked, size' = size,
             \A b \in 0..blocks_pass1(size) - 1, t \in 0..Threads - 1 :
                Waiting(b, t)' = Waiting(b, t)
      PROVE  Masking'
  BY <1>s DEF Masking
<1>1. ASSUME NEW b \in grid, LaunchPass1(b) PROVE Masking'
  <2>1. size' = size /\ grid' = grid \ {b} /\ kernel' = "pass1" /\ blockIdx' = b
    BY <1>1 DEF LaunchPass1
  <2>2. masked' = masked /\ kernel # "pass1"
    BY <1>1 DEF LaunchPass1
  <2>3. \A t \in 0..Threads - 1 : passed'[t] = 0
    BY <1>0, <1>1 DEF LaunchPass1, Ready
  <2> QED BY <1>s, <2>1, <2>2, <2>3 DEF Waiting
<1>2. CASE LaunchPass2
  <2>1. size' = size /\ grid' = grid /\ kernel' # "pass1" /\ kernel # "pass1" /\ masked' = masked
    BY <1>2 DEF LaunchPass2
  <2> QED BY <1>s, <2>1 DEF Waiting
<1>3. ASSUME NEW t \in ThreadIdx, Encrypt(t) PROVE Masking'
  <2>1. kernel = "pass1" /\ passed[t] = 0 /\ t \in 0..Threads - 1 /\ Steady
    BY <1>3 DEF Encrypt, ThreadIdx, Steady
  <2>2. PICK g : g = blockIdx * Threads + t
    OBVIOUS
  <2>3. masked' = [masked EXCEPT ![g] = Append(@, 2 + g)]
    BY <1>3, <2>2 DEF Encrypt, global_idx
  <2>4. blockIdx \in 0..blocks_pass1(size) - 1 /\ blockIdx \notin grid
    BY <2>1 DEF GpuTypes
  <2>5. g \in 0..size - 1 /\ ~(g >= blocks_pass1(size) * Threads)
    BY <1>p, <2>1, <2>2, <2>4
  <2>6. masked[g] = <<>>
    BY <2>1, <2>2, <2>4 DEF Masking, Waiting
  <2>7. masked'[g] = <<g + 2>> /\ \A i \in DOMAIN masked : i # g => masked'[i] = masked[i]
    BY <2>3, <2>5, <2>6 DEF GpuTypes
  <2>8. DOMAIN masked' = DOMAIN masked
    BY <2>3
  <2>9. passed'[t] = 1 /\ \A u \in 0..Threads - 1 : u # t => passed'[u] = passed[u]
    <3>1. t \in DOMAIN passed /\ \A u \in 0..Threads - 1 : u \in DOMAIN passed
      BY <1>0, <2>1 DEF GpuTypes, Running
    <3> QED BY <1>3, <3>1 DEF Encrypt
  <2>10. ASSUME NEW b \in 0..blocks_pass1(size) - 1, NEW u \in 0..Threads - 1
         PROVE  masked'[b * Threads + u] =
                  IF Waiting(b, u)' THEN <<>> ELSE <<b * Threads + u + 2>>
    <3>1. CASE b = blockIdx /\ u = t
      BY <2>1, <2>2, <2>4, <2>7, <2>9, <3>1 DEF Waiting, Steady
    <3>2. CASE ~(b = blockIdx /\ u = t)
      <4>1. b * Threads + u # g
        BY <1>0, <2>1, <2>2, <2>4, <3>2, OnePlace
      <4>2. Waiting(b, u)' = Waiting(b, u)
        BY <2>1, <2>9, <3>2 DEF Waiting, Steady
      <4>3. b * Threads + u \in DOMAIN masked
        BY <1>p DEF GpuTypes
      <4> QED BY <2>7, <4>1, <4>2, <4>3 DEF Masking
    <3> QED BY <3>1, <3>2
  <2>11. \A i \in DOMAIN masked' : i >= blocks_pass1(size) * Threads => masked'[i] = <<>>
    BY <2>5, <2>7, <2>8 DEF Masking
  <2> QED BY <2>1, <2>10, <2>11 DEF Masking, Steady
<1>4. ASSUME NEW t \in ThreadIdx, Fetch(t) \/ Multiply(t) \/ WriteBack(t) \/ StandBy(t)
      PROVE  Masking'
  <2>1. Steady /\ Running /\ masked' = masked
    <3>1. Steady /\ Running
      BY <1>4, ThreadSteady DEF Thread
    <3> QED BY <1>4, <3>1 DEF Fetch, Multiply, WriteBack, StandBy
  <2>2. ASSUME NEW u \in 0..Threads - 1, kernel = "pass1"
        PROVE  passed'[u] = 0 <=> passed[u] = 0
    <3>1. u \in DOMAIN passed
      BY <1>0, <2>1 DEF GpuTypes, Running
    <3>2. passed' = passed \/ (passed' = [passed EXCEPT ![t] = @ + 1] /\ passed[t] \in 1..Levels)
      BY <1>4, <2>2 DEF Fetch, Multiply, WriteBack, StandBy, AtLevel
    <3>3. CASE passed' = passed
      BY <3>3
    <3>4. CASE passed' = [passed EXCEPT ![t] = @ + 1] /\ passed[t] \in 1..Levels
      <4>1. Levels \in Nat
        BY Dimensions
      <4>2. PICK k \in 1..Levels : passed[t] = k
        BY <3>4
      <4>3. passed'[u] = IF u = t THEN k + 1 ELSE passed[u]
        BY <3>1, <3>4, <4>2
      <4> QED BY <4>1, <4>2, <4>3
    <3> QED BY <3>2, <3>3, <3>4
  <2> QED BY <1>s, <2>1, <2>2 DEF Waiting, Steady
<1>5. CASE Exit
  <2>1. size' = size /\ grid' = grid /\ masked' = masked /\ kernel' # "pass1"
    BY <1>5 DEF Exit
  <2>2. ASSUME NEW u \in 0..Threads - 1, kernel = "pass1" PROVE passed[u] # 0
    <3>1. u \in ThreadIdx /\ Levels \in Nat
      BY <2>2, Dimensions DEF ThreadIdx
    <3>2. passed[u] >= Levels + 1
      BY <1>5, <3>1 DEF Exit, Synced
    <3> QED BY <3>1, <3>2
  <2> QED BY <1>s, <2>1, <2>2 DEF Waiting
<1>6. CASE UNCHANGED gpuVars
  BY <1>6 DEF gpuVars, Masking, Waiting
<1> QED BY <1>1, <1>2, <1>3, <1>4, <1>5, <1>6 DEF GpuNext, Thread

\* No block of text is enciphered twice, no two under one counter, and none of
\* a whole thread block is left out: for any number of threads in a thread
\* block and any text.
THEOREM BlocksMaskedOnce == GpuSpec => []MaskedOnce
<1>1. GpuTypes /\ Masking => MaskedOnce
  <2> SUFFICES ASSUME GpuTypes, Masking PROVE MaskedOnce
    OBVIOUS
  <2>0. /\ size \in Nat /\ Threads \in Nat \ {0} /\ blocks_pass1(size) \in Nat
        /\ blocks_pass1(size) * Threads \in Nat /\ blocks_pass1(size) * Threads <= size
    BY Dimensions, WholeBlocks DEF GpuTypes
  <2>1. ASSUME NEW i \in DOMAIN masked
        PROVE  /\ masked[i] \in {<<>>, <<i + 2>>}
               /\ kernel = "over" =>
                    (masked[i] # <<>> <=> i < blocks_pass1(size) * Threads)
    <3>1. i \in Nat
      BY DEF GpuTypes
    <3>2. CASE i >= blocks_pass1(size) * Threads
      BY <2>0, <3>1, <3>2 DEF Masking
    <3>3. CASE i < blocks_pass1(size) * Threads
      <4>1. PICK b \in Nat, t \in 0..Threads - 1 :
              i = b * Threads + t /\ b < blocks_pass1(size)
        BY <2>0, <3>1, <3>3, Placed
      <4>2. masked[i] = IF Waiting(b, t) THEN <<>> ELSE <<i + 2>>
        BY <2>0, <4>1 DEF Masking
      <4>3. kernel = "over" => ~Waiting(b, t)
        BY DEF GpuTypes, Waiting
      <4>4. <<i + 2>> # <<>>
        OBVIOUS
      <4> QED BY <3>3, <4>2, <4>3, <4>4
    <3> QED BY <2>0, <3>1, <3>2, <3>3
  <2>2. \A i : i \in DOMAIN masked /\ i < blocks_pass1(size) * Threads
                 <=> i \in 0..Threads * blocks_pass1(size) - 1
    <3>1. PICK k \in Nat : k = blocks_pass1(size) * Threads
      BY <2>0
    <3>2. Threads * blocks_pass1(size) = k
      BY <2>0, <3>1
    <3> QED BY <2>0, <3>1, <3>2 DEF GpuTypes
  <2> QED BY <2>1, <2>2 DEF MaskedOnce
<1> QED BY <1>1, GpuTypesInit, GpuTypesNext, MaskingInit, MaskingNext, PTL DEF GpuSpec

-----------------------------------------------------------------------------
(* The tree.                                                               *)

LEMMA PairFits ==
  ASSUME NEW p \in 1..Levels, NEW t \in Nat
  PROVE  /\ Pow2(p - 1) \in Nat \ {0} /\ Pow2(p) = 2 * Pow2(p - 1)
         /\ 2 * Pow2(p - 1) * t \in Nat
         /\ 2 * Pow2(p - 1) * t < Cells =>
               t \in 0..Cells - 1 /\ 2 * Pow2(p - 1) * t + 2 * Pow2(p - 1) <= Cells
<1>1. Levels \in Nat /\ Cells \in Nat /\ Cells = Pow2(Levels)
  BY Dimensions
<1>2. p - 1 \in Nat /\ (p - 1) + 1 = p /\ Levels - p \in Nat /\ p + (Levels - p) = Levels /\ p \in Nat
  BY <1>1
<1>3. PICK d \in Nat \ {0} : d = Pow2(p - 1)
  BY <1>2, Pow2Type
<1>4. Pow2(p) = 2 * d
  <2>1. Pow2((p - 1) + 1) = 2 * Pow2(p - 1)
    BY <1>2, Pow2Next
  <2> QED BY <1>2, <1>3, <2>1
<1>5. PICK k \in Nat : k = Pow2(Levels - p)
  BY <1>2, Pow2Type
<1>6. Cells = (2 * d) * k
  <2>1. Pow2(p + (Levels - p)) = Pow2(p) * Pow2(Levels - p)
    BY <1>2, Pow2Sum
  <2> QED BY <1>1, <1>2, <1>4, <1>5, <2>1
<1>7. PICK e \in Nat \ {0} : e = 2 * d
  BY <1>3
<1>8. e * t \in Nat
  BY <1>7
<1>9. ASSUME e * t < Cells PROVE t \in 0..Cells - 1 /\ e * t + e <= Cells
  <2>1. t < k
    BY <1>6, <1>7, <1>9, Scaled
  <2>2. PICK r \in Nat : k = t + 1 + r
    <3>1. k - t - 1 \in Nat /\ k = t + 1 + (k - t - 1)
      BY <2>1
    <3> QED BY <3>1
  <2>3. e * k = e * t + e + e * r /\ e * r \in Nat
    BY <2>2
  <2>4. e * t + e <= Cells
    BY <1>6, <1>7, <1>8, <2>3
  <2>5. e * t >= t
    BY Scaled
  <2> QED BY <1>1, <1>8, <1>9, <2>4, <2>5
<1> QED BY <1>3, <1>4, <1>7, <1>8, <1>9

\* Cells of a level do not get in each other's way.
LEMMA OtherCells ==
  ASSUME NEW d \in Nat \ {0}, NEW t \in Nat, NEW u \in Nat
  PROVE  /\ 2 * d * t = 2 * d * u => t = u
         /\ 2 * d * t # 2 * d * u + d
<1>1. PICK e \in Nat \ {0} : e = 2 * d
  OBVIOUS
<1>2. e * t = e * u => t = u
  BY Scaled
<1>3. e * t = d * (2 * t) /\ e * u + d = d * (2 * u + 1)
  BY <1>1
<1>4. 2 * t \in Nat /\ 2 * u + 1 \in Nat /\ 2 * t # 2 * u + 1
  OBVIOUS
<1>5. d * (2 * t) # d * (2 * u + 1)
  BY <1>4, Scaled
<1> QED BY <1>1, <1>2, <1>3, <1>5

\* All have come to the next barrier.
LEMMA PhaseOver ==
  ASSUME GpuTypes, Running, NEW p \in 0..Levels, Phase(p), p + 1 \in 1..Levels,
         \A t \in ThreadIdx : passed[t] = p + 1
  PROVE  Phase(p + 1)
<1>0. Levels \in Nat /\ Cells \in Nat /\ p \in Nat
  BY Dimensions
<1>1. PICK d \in Nat \ {0} : d = Pow2((p + 1) - 1) /\ d = Pow2(p)
  BY <1>0, Pow2Type
<1>2. Lockstep(p + 1)
  BY DEF Lockstep
<1>3. \A t \in ThreadIdx : temp[t] = Empty
  BY <1>0 DEF Phase, Held
<1>4. Held(p + 1, d)
  BY <1>3 DEF Held
<1>5. \A c \in 0..Cells - 1 : Leaves[c] = Leaf(c)
  BY DEF Leaves
<1>6. CASE p = 0
  <2>1. d = 1
    BY <1>1, <1>6, Pow2Zero
  <2>2. Stored
    BY <1>6 DEF Phase
  <2>3. ASSUME NEW c \in 0..Cells - 1 PROVE shm[c] = Part(c, 1)
    <3>1. shm[c] = Leaf(c)
      BY <1>6, <2>2, ThreadRange DEF Stored
    <3>2. Terms(Leaves[c])
      BY LeavesApart DEF Apart
    <3>3. Pow2(First) \in Nat /\ c \in Nat
      BY <1>0, Dimensions, Pow2Type
    <3>4. Part(c, 1) = Leaves[c]
      BY <3>2, <3>3, TreeOfOne DEF Part
    <3> QED BY <1>5, <3>1, <3>4
  <2>4. ASSUME NEW t \in 0..Cells - 1, 2 * 1 * t < Cells
        PROVE  shm[2 * 1 * t] = Part(2 * 1 * t, 1) /\ passed[t] # p + 1 + 1
    <3>1. 2 * 1 * t \in 0..Cells - 1 /\ t \in Nat /\ 2 * t < Cells
      BY <1>0, <2>4
    <3>2. t \in ThreadIdx
      BY <3>1, ThreadRange
    <3>3. passed[t] = p + 1
      BY <3>2
    <3> QED BY <1>0, <2>3, <3>1, <3>3
  <2>5. LeftCells(p + 1, 1)
    BY <2>4 DEF LeftCells
  <2>6. RightCells(1)
    <3>1. \A t \in 0..Cells - 1 : 2 * 1 * t + 1 < Cells => 2 * 1 * t + 1 \in 0..Cells - 1
      BY <1>0
    <3> QED BY <2>3, <3>1 DEF RightCells
  <2> QED BY <1>0, <1>1, <1>2, <1>4, <2>1, <2>5, <2>6 DEF Phase
<1>7. CASE p # 0
  <2>1. p \in 1..Levels /\ p > 0 /\ p - 1 \in Nat
    BY <1>0, <1>7
  <2>2. PICK h \in Nat \ {0} : h = Pow2(p - 1)
    BY <2>1, Pow2Type
  <2>3. d = 2 * h
    BY <1>0, <1>1, <2>1, <2>2, PairFits
  <2>4. LeftCells(p, h)
    BY <2>1, <2>2 DEF Phase
  <2>5. ASSUME NEW c \in Nat, d * c < Cells PROVE shm[d * c] = Part(d * c, d)
    <3>1. 2 * h * c < Cells
      BY <2>3, <2>5
    <3>2. c \in 0..Cells - 1
      BY <2>1, <2>2, <3>1, PairFits
    <3>3. 2 * c < Cells
      <4>1. 2 * c <= d * c
        <5>1. d * c = 2 * (h * c) /\ h * c >= c /\ h * c \in Nat
          BY <2>3, Scaled
        <5> QED BY <5>1
      <4> QED BY <1>0, <2>5, <4>1
    <3>4. passed[c] = p + 1
      BY <3>3, ThreadRange
    <3> QED BY <2>3, <2>4, <3>1, <3>2, <3>4 DEF LeftCells
  <2>6. ASSUME NEW t \in 0..Cells - 1, 2 * d * t < Cells
        PROVE  shm[2 * d * t] = Part(2 * d * t, d) /\ passed[t] # p + 1 + 1
    <3>1. t \in Nat /\ 2 * t \in Nat /\ 2 * d * t = d * (2 * t)
      BY <1>0
    <3>2. shm[2 * d * t] = Part(2 * d * t, d)
      BY <2>5, <2>6, <3>1
    <3>3. 2 * t < Cells
      <4>1. d * (2 * t) >= 2 * t
        BY <3>1, Scaled
      <4> QED BY <1>0, <2>6, <3>1, <4>1
    <3>4. passed[t] = p + 1
      BY <3>1, <3>3, ThreadRange
    <3> QED BY <1>0, <3>2, <3>4
  <2>7. LeftCells(p + 1, d)
    BY <2>6 DEF LeftCells
  <2>8. ASSUME NEW t \in 0..Cells - 1, 2 * d * t + d < Cells
        PROVE  shm[2 * d * t + d] = Part(2 * d * t + d, d)
    <3>1. 2 * t + 1 \in Nat /\ 2 * d * t + d = d * (2 * t + 1)
      BY <1>0
    <3> QED BY <2>5, <2>8, <3>1
  <2>9. RightCells(d)
    BY <2>8 DEF RightCells
  <2> QED BY <1>0, <1>1, <1>2, <1>4, <2>7, <2>9 DEF Phase
<1> QED BY <1>6, <1>7

\* A thread that goes on from a barrier finds the cells as they were there.
LEMMA PhaseAt ==
  ASSUME GpuTypes, Running, Phases, NEW t \in ThreadIdx, AtLevel(t)
  PROVE  Phase(passed[t]) /\ passed[t] \in 1..Levels
<1>0. Levels \in Nat
  BY Dimensions
<1>1. PICK p \in 0..Levels : Phase(p)
  BY DEF Phases
<1>2. PICK q \in 1..Levels : q = passed[t]
  BY DEF AtLevel
<1>3. q \in {p, p + 1}
  BY <1>1, <1>2 DEF Phase, Lockstep
<1>4. CASE q = p
  BY <1>1, <1>2, <1>4
<1>5. CASE q = p + 1
  <2>1. \A u \in ThreadIdx : passed[u] = p + 1
    <3>1. \A u \in ThreadIdx : passed[u] \in {p, p + 1}
      BY <1>1 DEF Phase, Lockstep
    <3>2. \A u \in ThreadIdx : passed[u] >= q
      BY <1>2 DEF AtLevel, Synced
    <3> QED BY <1>0, <1>5, <3>1, <3>2
  <2>2. Phase(p + 1)
    BY <1>1, <1>2, <1>5, <2>1, PhaseOver
  <2> QED BY <1>2, <1>5, <2>2
<1> QED BY <1>3, <1>4, <1>5

\* The kernel that has been launched: nobody has stored anything yet.
LEMMA LaunchPhases ==
  ASSUME (\E b \in grid : LaunchPass1(b)) \/ LaunchPass2
  PROVE  Phases'
<1>0. Threads \in Nat \ {0} /\ Partials \in Nat \ {0} /\ Levels' \in Nat
  <2>1. Levels' = PassOneLevels \/ Levels' = PassTwoLevels
    BY DEF Levels
  <2> QED BY <2>1, Dimensions, GpuAssumption
<1>1. /\ \A t \in 0..Threads + Partials : passed'[t] = 0 /\ temp'[t] = Empty
      /\ kernel' \in {"pass1", "pass2"}
  BY DEF LaunchPass1, LaunchPass2, Ready
<1>2. /\ \A t \in ThreadIdx' : t \in 0..Threads + Partials
      /\ \A c \in (0..Cells - 1)' : Owner(c)' \in 0..Threads + Partials
  <2>1. PICK h \in Nat \ {0} : h = Partials \div 2 /\ Partials = 2 * h
    BY Dimensions
  <2>2. CASE kernel' = "pass1"
    <3>1. ThreadIdx' = 0..Threads - 1 /\ Cells' = Threads /\ \A c : Owner(c)' = c
      BY <2>2 DEF ThreadIdx, Cells, Owner
    <3> QED BY <1>0, <3>1
  <2>3. CASE kernel' = "pass2"
    <3>1. ThreadIdx' = 0..h - 1 /\ Cells' = 2 * h
      BY <2>1, <2>3 DEF ThreadIdx, Cells
    <3>2. \A c : Owner(c)' = IF c < h THEN c ELSE c - h
      BY <2>1, <2>3 DEF Owner
    <3> QED BY <1>0, <2>1, <3>1, <3>2
  <2> QED BY <1>1, <2>2, <2>3
<1>3. Lockstep(0)'
  BY <1>1, <1>2 DEF Lockstep
<1>4. Held(0, Pow2(0 - 1))'
  BY <1>1, <1>2 DEF Held
<1>5. Stored'
  BY <1>1, <1>2 DEF Stored
<1>6. Phase(0)'
  BY <1>3, <1>4, <1>5 DEF Phase
<1> QED BY <1>0, <1>6 DEF Phases

\* Before the first barrier: what a thread stores are the leaves it owns.
LEMMA StorePhases ==
  ASSUME GpuTypes, Phases, NEW t \in ThreadIdx, Steady, Running,
         passed[t] = 0, passed' = [passed EXCEPT ![t] = 1], temp' = temp,
         \A c \in 0..Cells - 1 : shm'[c] = IF Owner(c) = t THEN Leaf(c) ELSE shm[c]
  PROVE  Phases'
<1>0. Levels \in Nat /\ Cells \in Nat
  BY Dimensions
<1>1. PICK p \in 0..Levels : Phase(p)
  BY DEF Phases
<1>2. p = 0
  BY <1>0, <1>1 DEF Phase, Lockstep
<1>3. \A u \in ThreadIdx : passed'[u] = IF u = t THEN 1 ELSE passed[u]
  BY ThreadRange DEF GpuTypes
<1>4. \A u \in ThreadIdx : passed[u] \in {0, 1} /\ temp[u] = Empty
  BY <1>1, <1>2 DEF Phase, Lockstep, Held
<1>5. Lockstep(0)'
  BY <1>3, <1>4, SteadyParts DEF Lockstep
<1>6. Held(0, Pow2(0 - 1))'
  BY <1>4, SteadyParts DEF Held
<1>7. Stored'
  <2>1. Stored
    BY <1>1, <1>2 DEF Phase
  <2>2. ASSUME NEW c \in 0..Cells - 1, passed'[Owner(c)] = 1 PROVE shm'[c] = Leaf(c)
    <3>1. Owner(c) \in ThreadIdx
      BY ThreadRange
    <3> QED BY <1>3, <2>1, <2>2, <3>1 DEF Stored
  <2> QED BY <2>2, SteadyParts DEF Stored
<1>8. Phase(0)'
  BY <1>5, <1>6, <1>7 DEF Phase
<1> QED BY <1>0, <1>8, SteadyParts DEF Phases

LEMMA EncryptPhases ==
  ASSUME GpuTypes, Phases, NEW t \in ThreadIdx, Encrypt(t)
  PROVE  Phases'
<1>1. Steady /\ Running
  BY ThreadSteady DEF Thread
<1>2. kernel = "pass1" /\ passed[t] = 0 /\ passed' = [passed EXCEPT ![t] = 1] /\ temp' = temp
  BY DEF Encrypt
<1>3. TimesPower({<<global_idx(t), 0>>}, h_pow(0)) = Leaf(t)
  <2>1. h_pow(0) = 1
    BY PowersKept, Pow2Zero
  <2>2. PICK g : g = global_idx(t)
    OBVIOUS
  <2>3. TimesPower({<<g, 0>>}, 1) = {<<g, 1>>}
    BY DEF TimesPower
  <2> QED BY <1>2, <2>1, <2>2, <2>3 DEF Leaf
<1>4. shm' = [shm EXCEPT ![t] = Leaf(t)]
  BY <1>3 DEF Encrypt
<1>5. \A c \in 0..Cells - 1 : shm'[c] = IF Owner(c) = t THEN Leaf(c) ELSE shm[c]
  BY <1>1, <1>2, <1>4 DEF Owner, GpuTypes
<1> QED BY <1>1, <1>2, <1>5, StorePhases

\* What the second kernel finds.
LEMMA FetchedSum ==
  ASSUME GpuTypes, Shares, kernel = "pass2", NEW c \in Nat
  PROVE  Fetched(c) = Leaf(c)
<1>1. grid = {} /\ DOMAIN partial = 0..blocks_pass1(size) - 1 /\ blocks_pass1(size) \in Nat
  BY WholeBlocks DEF GpuTypes
<1>2. CASE c < blocks_pass1(size)
  <2>1. c \in 0..blocks_pass1(size) - 1
    BY <1>1, <1>2
  <2>2. partial[c] = Share(c)
    BY <1>1, <2>1 DEF Shares
  <2> QED BY <1>1, <1>2, <2>1, <2>2 DEF Fetched, Leaf, Sum
<1>3. CASE ~(c < blocks_pass1(size))
  BY <1>1, <1>3 DEF Fetched, Leaf, Sum
<1> QED BY <1>2, <1>3

LEMMA FetchPhases ==
  ASSUME GpuTypes, Shares, Phases, NEW t \in ThreadIdx, Fetch(t)
  PROVE  Phases'
<1>1. Steady /\ Running
  BY ThreadSteady DEF Thread
<1>2. kernel = "pass2" /\ passed[t] = 0 /\ passed' = [passed EXCEPT ![t] = 1] /\ temp' = temp
  BY DEF Fetch
<1>3. PICK h \in Nat \ {0} : h = Partials \div 2 /\ Partials = 2 * h
  BY Dimensions
<1>4. t \in 0..h - 1 /\ Cells = 2 * h
  BY <1>2, <1>3 DEF ThreadIdx, Cells
<1>5. \A c : Owner(c) = IF c < h THEN c ELSE c - h
  BY <1>2, <1>3 DEF Owner
<1>6. shm' = [shm EXCEPT ![t] = Leaf(t), ![t + h] = Leaf(t + h)]
  <2>1. Fetched(t) = Leaf(t) /\ Fetched(t + h) = Leaf(t + h)
    BY <1>2, <1>4, FetchedSum
  <2>2. shm' = [shm EXCEPT ![t] = Fetched(t), ![t + h] = Fetched(t + h)]
    BY <1>3 DEF Fetch
  <2> QED BY <2>1, <2>2
<1>7. ASSUME NEW c \in 0..Cells - 1
      PROVE  shm'[c] = IF Owner(c) = t THEN Leaf(c) ELSE shm[c]
  <2>1. DOMAIN shm = 0..2 * h - 1 /\ c \in 0..2 * h - 1
    BY <1>1, <1>4 DEF GpuTypes
  <2>2. shm'[c] = IF c = t + h THEN Leaf(t + h) ELSE IF c = t THEN Leaf(t) ELSE shm[c]
    BY <1>4, <1>6, <2>1
  <2>3. Owner(c) = t <=> c = t \/ c = t + h
    BY <1>4, <1>5, <2>1
  <2> QED BY <2>2, <2>3
<1> QED BY <1>1, <1>2, <1>7, StorePhases

\* A level of the tree: stride and power of the pair.
LEMMA LevelOf ==
  ASSUME NEW t \in ThreadIdx, Running, passed[t] \in 1..Levels
  PROVE  /\ stride(t) = Pow2(passed[t] - 1) /\ stride(t) \in Nat \ {0}
         /\ Power(t) = Pow2(First) * Pow2(passed[t] - 1)
         /\ index(t) = 2 * Pow2(passed[t] - 1) * t
         /\ t \in 0..Cells - 1
<1>1. PICK q \in 1..Levels : q = passed[t]
  OBVIOUS
<1>2. q - 1 \in Nat /\ First \in Nat /\ Levels \in Nat
  BY Dimensions
<1>3. Level(t) = q - 1
  BY <1>1 DEF Level
<1>4. stride(t) = Pow2(q - 1) /\ stride(t) \in Nat \ {0}
  BY <1>2, <1>3, Pow2Type DEF stride
<1>5. Power(t) = Pow2(First) * Pow2(q - 1)
  <2>1. First + (q - 1) \in Nat
    BY <1>2
  <2> QED BY <1>2, <1>3, <2>1, PowersKept, Pow2Sum DEF Power
<1> QED BY <1>1, <1>4, <1>5, ThreadRange DEF index

LEMMA MultiplyPhases ==
  ASSUME GpuTypes, Phases, NEW t \in ThreadIdx, Multiply(t)
  PROVE  Phases'
<1>0. Steady /\ Running /\ AtLevel(t) /\ Levels \in Nat
  BY ThreadSteady, Dimensions DEF Thread, Multiply
<1>1. PICK p \in 1..Levels : p = passed[t] /\ Phase(p)
  BY <1>0, PhaseAt
<1>2. PICK d \in Nat \ {0} : d = Pow2(p - 1)
  <2>1. p - 1 \in Nat
    OBVIOUS
  <2> QED BY <2>1, Pow2Type
<1>3. /\ stride(t) = d /\ Power(t) = Pow2(First) * d /\ index(t) = 2 * d * t
      /\ t \in 0..Cells - 1
  BY <1>0, <1>1, <1>2, LevelOf
<1>4. 2 * d * t < Cells /\ shm' = shm /\ passed' = passed
  BY <1>3 DEF Multiply
<1>5. shm[2 * d * t] = Part(2 * d * t, d)
  <2>1. LeftCells(p, d)
    BY <1>1, <1>2 DEF Phase
  <2> QED BY <1>1, <1>3, <1>4, <2>1 DEF LeftCells
<1>6. temp' = [temp EXCEPT ![t] = TimesPower(Part(2 * d * t, d), Pow2(First) * d)]
  BY <1>3, <1>5 DEF Multiply
<1>7. Held(p, d)'
  <2>1. ASSUME NEW u \in ThreadIdx, temp'[u] # Empty
        PROVE  /\ p > 0 /\ passed[u] = p /\ 2 * d * u < Cells
               /\ temp'[u] = TimesPower(Part(2 * d * u, d), Pow2(First) * d)
    <3>1. Held(p, d)
      BY <1>1, <1>2 DEF Phase
    <3>2. u \in DOMAIN temp
      BY <1>0, ThreadRange DEF GpuTypes
    <3>3. CASE u = t
      BY <1>1, <1>4, <1>6, <3>2, <3>3
    <3>4. CASE u # t
      BY <1>6, <2>1, <3>1, <3>2, <3>4 DEF Held
    <3> QED BY <3>3, <3>4
  <2> QED BY <1>0, <1>4, <2>1, SteadyParts DEF Held
<1>8. Lockstep(p)' /\ LeftCells(p, d)' /\ RightCells(d)'
  <2>1. Lockstep(p) /\ LeftCells(p, d) /\ RightCells(d)
    BY <1>1, <1>2 DEF Phase
  <2> QED BY <1>0, <1>4, <2>1, SteadyParts DEF Lockstep, LeftCells, RightCells
<1>9. Phase(p)'
  BY <1>2, <1>7, <1>8 DEF Phase
<1> QED BY <1>0, <1>9, SteadyParts DEF Phases

\* A pair summed up: twice as many leaves in the left cell.
LEMMA PairSummed ==
  ASSUME GpuTypes, Running, NEW p \in 1..Levels, NEW d \in Nat \ {0}, d = Pow2(p - 1), Phase(p),
         NEW t \in ThreadIdx, temp[t] # Empty
  PROVE  /\ 2 * d * t < Cells /\ 2 * d * t \in Nat /\ t \in 0..Cells - 1
         /\ Plus(temp[t], shm[2 * d * t + d]) = Part(2 * d * t, 2 * d)
<1>0. Cells \in Nat /\ First \in Nat /\ t \in Nat
  BY ThreadRange, Dimensions
<1>1. Held(p, d) /\ RightCells(d)
  BY DEF Phase
<1>2. /\ 2 * d * t < Cells
      /\ temp[t] = TimesPower(Part(2 * d * t, d), Pow2(First) * d)
  BY <1>1 DEF Held
<1>3. 2 * d * t \in Nat /\ t \in 0..Cells - 1 /\ 2 * d * t + 2 * d <= Cells
  BY <1>0, <1>2, PairFits
<1>4. PICK c \in Nat : c = 2 * d * t
  BY <1>3
<1>5. c + d < Cells
  BY <1>0, <1>3, <1>4
<1>6. shm[c + d] = Part(c + d, d)
  BY <1>1, <1>3, <1>4, <1>5 DEF RightCells
<1>7. PICK u \in Nat : u = Pow2(First)
  BY <1>0, Pow2Type
<1>8. Apart(Leaves, Cells) /\ c + 2 * d <= Cells
  BY <1>3, <1>4, LeavesApart
<1>9. Plus(TimesPower(Tree(Leaves, u, c, d), u * d), Tree(Leaves, u, c + d, d))
        = Tree(Leaves, u, c, 2 * d)
  BY <1>0, <1>8, TreeJoin
<1> QED BY <1>2, <1>3, <1>4, <1>6, <1>7, <1>9 DEF Part

LEMMA WriteBackPhases ==
  ASSUME GpuTypes, Phases, NEW t \in ThreadIdx, WriteBack(t)
  PROVE  Phases'
<1>0. Steady /\ Running /\ AtLevel(t) /\ Levels \in Nat /\ Cells \in Nat
  BY ThreadSteady, Dimensions DEF Thread, WriteBack
<1>1. PICK p \in 1..Levels : p = passed[t] /\ Phase(p)
  BY <1>0, PhaseAt
<1>2. PICK d \in Nat \ {0} : d = Pow2(p - 1)
  <2>1. p - 1 \in Nat
    OBVIOUS
  <2> QED BY <2>1, Pow2Type
<1>3. stride(t) = d /\ index(t) = 2 * d * t
  BY <1>0, <1>1, <1>2, LevelOf
<1>4. temp[t] # Empty
  BY DEF WriteBack
<1>5. /\ 2 * d * t < Cells /\ 2 * d * t \in 0..Cells - 1 /\ t \in 0..Cells - 1
      /\ Plus(temp[t], shm[2 * d * t + d]) = Part(2 * d * t, 2 * d)
  BY <1>0, <1>1, <1>2, <1>4, PairSummed
<1>6. shm' = [shm EXCEPT ![2 * d * t] = Part(2 * d * t, 2 * d)]
  BY <1>3, <1>5 DEF WriteBack
<1>7. shm'[2 * d * t] = Part(2 * d * t, 2 * d) /\ \A c : c # 2 * d * t => shm'[c] = shm[c]
  <2>1. 2 * d * t \in DOMAIN shm
    BY <1>0, <1>5 DEF GpuTypes
  <2> QED BY <1>6, <2>1
<1>8. /\ \A u \in 0..Cells - 1 : passed'[u] = IF u = t THEN p + 1 ELSE passed[u]
      /\ \A u \in ThreadIdx : passed'[u] = IF u = t THEN p + 1 ELSE passed[u]
  <2>1. \A u \in 0..Cells - 1 : u \in DOMAIN passed
    BY <1>0, Dimensions DEF GpuTypes, Cells
  <2>2. passed' = [passed EXCEPT ![t] = p + 1]
    BY <1>1 DEF WriteBack
  <2>3. \A u \in ThreadIdx : u \in DOMAIN passed
    BY <1>0, <2>1, ThreadRange
  <2> QED BY <2>1, <2>2, <2>3
<1>9. temp'[t] = Empty /\ \A u : u # t => temp'[u] = temp[u]
  <2>1. t \in DOMAIN temp
    BY <1>0, ThreadRange DEF GpuTypes
  <2> QED BY <2>1 DEF WriteBack
<1>10. Lockstep(p) /\ Held(p, d) /\ LeftCells(p, d) /\ RightCells(d)
  BY <1>1, <1>2 DEF Phase
<1>11. Lockstep(p)'
  BY <1>0, <1>8, <1>10, SteadyParts DEF Lockstep
<1>12. Held(p, d)'
  <2>1. ASSUME NEW u \in ThreadIdx, temp'[u] # Empty
        PROVE  /\ p > 0 /\ passed'[u] = p /\ 2 * d * u < Cells
               /\ temp'[u] = TimesPower(Part(2 * d * u, d), Pow2(First) * d)
    BY <1>8, <1>9, <1>10, <2>1 DEF Held
  <2> QED BY <1>0, <2>1, SteadyParts DEF Held
<1>13. LeftCells(p, d)'
  <2>1. ASSUME NEW u \in 0..Cells - 1, 2 * d * u < Cells
        PROVE  shm'[2 * d * u] = Part(2 * d * u, IF passed'[u] = p + 1 THEN 2 * d ELSE d)
    <3>1. CASE u = t
      BY <1>7, <1>8, <3>1
    <3>2. CASE u # t
      <4>1. 2 * d * u # 2 * d * t
        <5>1. u \in Nat /\ t \in Nat
          BY <1>5
        <5> QED BY <3>2, <5>1, OtherCells
      <4> QED BY <1>7, <1>8, <1>10, <2>1, <3>2, <4>1 DEF LeftCells
    <3> QED BY <3>1, <3>2
  <2> QED BY <1>0, <2>1, SteadyParts DEF LeftCells
<1>14. RightCells(d)'
  <2>1. ASSUME NEW u \in 0..Cells - 1, 2 * d * u + d < Cells
        PROVE  shm'[2 * d * u + d] = Part(2 * d * u + d, d)
    <3>1. 2 * d * t # 2 * d * u + d
      <4>1. u \in Nat /\ t \in Nat
        BY <1>5
      <4> QED BY <4>1, OtherCells
    <3> QED BY <1>7, <1>10, <2>1, <3>1 DEF RightCells
  <2> QED BY <1>0, <2>1, SteadyParts DEF RightCells
<1>15. Phase(p)'
  BY <1>2, <1>11, <1>12, <1>13, <1>14 DEF Phase
<1> QED BY <1>0, <1>15, SteadyParts DEF Phases

LEMMA StandByPhases ==
  ASSUME GpuTypes, Phases, NEW t \in ThreadIdx, StandBy(t)
  PROVE  Phases'
<1>0. Steady /\ Running /\ AtLevel(t) /\ Levels \in Nat /\ Cells \in Nat
  BY ThreadSteady, Dimensions DEF Thread, StandBy
<1>1. PICK p \in 1..Levels : p = passed[t] /\ Phase(p)
  BY <1>0, PhaseAt
<1>2. PICK d \in Nat \ {0} : d = Pow2(p - 1)
  <2>1. p - 1 \in Nat
    OBVIOUS
  <2> QED BY <2>1, Pow2Type
<1>3. ~(2 * d * t < Cells) /\ t \in Nat
  <2>1. index(t) = 2 * d * t /\ t \in Nat
    BY <1>0, <1>1, <1>2, LevelOf
  <2>2. index(t) >= Cells /\ 2 * d * t \in Nat
    BY <2>1 DEF StandBy
  <2> QED BY <1>0, <2>1, <2>2
<1>4. shm' = shm /\ temp' = temp
  BY DEF StandBy
<1>5. /\ \A u \in 0..Cells - 1 : passed'[u] = IF u = t THEN p + 1 ELSE passed[u]
      /\ \A u \in ThreadIdx : passed'[u] = IF u = t THEN p + 1 ELSE passed[u]
  <2>1. \A u \in 0..Cells - 1 : u \in DOMAIN passed
    BY <1>0, Dimensions DEF GpuTypes, Cells
  <2>2. passed' = [passed EXCEPT ![t] = p + 1]
    BY <1>1 DEF StandBy
  <2>3. \A u \in ThreadIdx : u \in DOMAIN passed
    BY <1>0, <2>1, ThreadRange
  <2> QED BY <2>1, <2>2, <2>3
<1>6. Lockstep(p) /\ Held(p, d) /\ LeftCells(p, d) /\ RightCells(d)
  BY <1>1, <1>2 DEF Phase
<1>7. Lockstep(p)'
  BY <1>0, <1>5, <1>6, SteadyParts DEF Lockstep
<1>8. Held(p, d)'
  <2>1. ASSUME NEW u \in ThreadIdx, temp[u] # Empty
        PROVE  /\ p > 0 /\ passed'[u] = p /\ 2 * d * u < Cells
               /\ temp[u] = TimesPower(Part(2 * d * u, d), Pow2(First) * d)
    <3>1. 2 * d * u < Cells
      BY <1>6, <2>1 DEF Held
    <3>2. u # t
      BY <1>3, <3>1
    <3> QED BY <1>5, <1>6, <2>1, <3>2 DEF Held
  <2> QED BY <1>0, <1>4, <2>1, SteadyParts DEF Held
<1>9. LeftCells(p, d)'
  <2>1. ASSUME NEW u \in 0..Cells - 1, 2 * d * u < Cells
        PROVE  shm[2 * d * u] = Part(2 * d * u, IF passed'[u] = p + 1 THEN 2 * d ELSE d)
    <3>1. u # t
      BY <1>3, <2>1
    <3> QED BY <1>5, <1>6, <2>1, <3>1 DEF LeftCells
  <2> QED BY <1>0, <1>4, <2>1, SteadyParts DEF LeftCells
<1>10. RightCells(d)'
  BY <1>0, <1>4, <1>6, SteadyParts DEF RightCells
<1>11. Phase(p)'
  BY <1>2, <1>7, <1>8, <1>9, <1>10 DEF Phase
<1> QED BY <1>0, <1>11, SteadyParts DEF Phases

LEMMA PhasesNext == GpuTypes /\ Shares /\ Phases /\ [GpuNext]_gpuVars => Phases'
<1> SUFFICES ASSUME GpuTypes, Shares, Phases, [GpuNext]_gpuVars PROVE Phases'
  OBVIOUS
<1>1. CASE (\E b \in grid : LaunchPass1(b)) \/ LaunchPass2
  BY <1>1, LaunchPhases
<1>2. ASSUME NEW t \in ThreadIdx, Thread(t) PROVE Phases'
  BY <1>2, EncryptPhases, FetchPhases, MultiplyPhases, WriteBackPhases, StandByPhases DEF Thread
<1>3. CASE Exit
  <2>1. kernel' \in {"none", "over"}
    BY <1>3 DEF Exit
  <2> QED BY <2>1 DEF Phases, Running
<1>4. CASE UNCHANGED gpuVars
  <2>1. Steady
    BY <1>4 DEF gpuVars, Steady
  <2>2. passed' = passed /\ shm' = shm /\ temp' = temp
    BY <1>4 DEF gpuVars
  <2>3. ASSUME NEW p, Phase(p) PROVE Phase(p)'
    BY <2>1, <2>2, <2>3, SteadyParts DEF Phase, Lockstep, Held, Stored, LeftCells, RightCells
  <2> QED BY <2>1, <2>3, SteadyParts DEF Phases
<1> QED BY <1>1, <1>2, <1>3, <1>4 DEF GpuNext

\* The cell of thread 0 behind the last barrier.
LEMMA RootSummed ==
  ASSUME GpuTypes, Phases, Exit
  PROVE  Running /\ shm[0] = Part(0, Cells)
<1>0. Running /\ Levels \in Nat \ {0} /\ Cells \in Nat \ {0}
  BY Dimensions DEF Exit, ThreadIdx, Running
<1>1. PICK p \in 0..Levels : Phase(p)
  BY <1>0 DEF Phases
<1>2. p = Levels
  <2>1. passed[0] \in {p, p + 1} /\ passed[0] = Levels + 1
    BY <1>1 DEF Phase, Lockstep, Exit
  <2> QED BY <1>0, <2>1
<1>3. PICK d \in Nat \ {0} : d = Pow2(p - 1)
  <2>1. p - 1 \in Nat
    BY <1>0, <1>2
  <2> QED BY <2>1, Pow2Type
<1>4. LeftCells(p, d)
  BY <1>0, <1>1, <1>2, <1>3 DEF Phase
<1>5. 2 * d = Cells
  <2>1. p \in 1..Levels
    BY <1>0, <1>2
  <2> QED BY <1>2, <1>3, <2>1, PairFits, Dimensions
<1>6. 2 * d * 0 = 0 /\ 0 \in 0..Cells - 1 /\ 0 < Cells
  BY <1>0
<1>7. passed[0] = p + 1
  BY <1>2 DEF Exit
<1>8. shm[0] = Part(0, 2 * d)
  BY <1>4, <1>6, <1>7 DEF LeftCells
<1> QED BY <1>0, <1>5, <1>8

-----------------------------------------------------------------------------
(* What the kernels leave.                                                 *)

\* A thread block of the first kernel leaves its share.
LEMMA RootIsShare ==
  ASSUME GpuTypes, kernel = "pass1"
  PROVE  Part(0, Cells) = Share(blockIdx)
<1>1. PICK n \in Nat \ {0} : n = Threads /\ n = Cells
  BY Dimensions DEF Cells
<1>2. Pow2(First) = 1
  BY Pow2Zero DEF First
<1>3. PICK s \in Nat : s = blockIdx * n
  BY DEF GpuTypes
<1>4. \A j \in 0..n - 1 : Leaves[0 + j] = {<<s + j, 1>>}
  BY <1>1, <1>3 DEF Leaves, Leaf, global_idx
<1>5. ASSUME NEW y PROVE y \in Part(0, Cells) <=> y \in Share(blockIdx)
  <2>1. y \in Part(0, Cells) <=> Term(Leaves, 1, 0, n, y)
    BY <1>1, <1>2, InTree DEF Part
  <2>2. y \in Part(0, Cells) <=>
          \E j \in 0..n - 1 : \E x \in {<<s + j, 1>>} : y = <<x[1], x[2] + 1 * (n - 1 - j)>>
    BY <1>4, <2>1 DEF Term
  <2>3. \A j \in 0..n - 1 : 1 + 1 * (n - 1 - j) = n - j
    OBVIOUS
  <2>4. y \in Part(0, Cells) <=> \E j \in 0..n - 1 : y = <<s + j, n - j>>
    BY <2>2, <2>3
  <2> QED BY <1>1, <1>3, <2>4 DEF Share
<1> QED BY <1>5

LEMMA SharesInit == GpuInit => Shares
BY DEF GpuInit, Shares

LEMMA SharesNext == GpuTypes /\ Phases /\ Shares /\ [GpuNext]_gpuVars => Shares'
<1> SUFFICES ASSUME GpuTypes, Phases, Shares, [GpuNext]_gpuVars PROVE Shares'
  OBVIOUS
<1>1. ASSUME NEW b \in grid, LaunchPass1(b) PROVE Shares'
  <2>1. size' = size /\ grid' = grid \ {b} /\ kernel' = "pass1" /\ blockIdx' = b
    BY <1>1 DEF LaunchPass1
  <2>2. partial' = partial /\ kernel # "pass1"
    BY <1>1 DEF LaunchPass1
  <2> QED BY <2>1, <2>2 DEF Shares, Share
<1>2. CASE LaunchPass2
  <2>1. size' = size /\ grid' = grid /\ kernel' # "pass1" /\ kernel # "pass1" /\ partial' = partial
    BY <1>2 DEF LaunchPass2
  <2> QED BY <2>1 DEF Shares, Share
<1>3. ASSUME NEW t \in ThreadIdx, Thread(t) PROVE Shares'
  <2>1. Steady /\ partial' = partial
    BY <1>3, ThreadSteady
  <2> QED BY <2>1 DEF Steady, Shares, Share
<1>4. CASE Exit
  <2>1. size' = size /\ grid' = grid /\ kernel' # "pass1"
    BY <1>4 DEF Exit
  <2>2. CASE kernel = "pass1"
    <3>1. shm[0] = Share(blockIdx)
      BY <1>4, <2>2, RootSummed, RootIsShare
    <3>2. partial' = [partial EXCEPT ![blockIdx] = Share(blockIdx)]
      BY <1>4, <2>2, <3>1 DEF Exit
    <3>3. blockIdx \notin grid /\ DOMAIN partial = 0..blocks_pass1(size) - 1
      BY <2>2 DEF GpuTypes
    <3> QED BY <2>1, <2>2, <3>2, <3>3 DEF Shares, Share
  <2>3. CASE kernel # "pass1"
    <3>1. partial' = partial
      BY <1>4, <2>3 DEF Exit
    <3> QED BY <2>1, <2>3, <3>1 DEF Shares, Share
  <2> QED BY <2>2, <2>3
<1>5. CASE UNCHANGED gpuVars
  BY <1>5 DEF gpuVars, Shares, Share
<1> QED BY <1>1, <1>2, <1>3, <1>4, <1>5 DEF GpuNext

LEMMA ResultNext == GpuTypes /\ Phases /\ Result /\ [GpuNext]_gpuVars => Result'
<1> SUFFICES ASSUME GpuTypes, Phases, Result, [GpuNext]_gpuVars, kernel' = "over"
             PROVE  final_mac' = Tree([c \in 0..Partials - 1 |-> Sum(c)'], Threads, 0, Partials)
  BY DEF Result
<1>s. ASSUME size' = size PROVE \A c : Sum(c)' = Sum(c)
  BY <1>s DEF Sum, Share
<1>1. CASE Exit
  <2>1. kernel = "pass2" /\ size' = size /\ final_mac' = shm[0]
    BY <1>1 DEF Exit, ThreadIdx
  <2>2. shm[0] = Part(0, Partials)
    BY <1>1, <2>1, RootSummed DEF Cells
  <2>3. Leaves = [c \in 0..Partials - 1 |-> Sum(c)] /\ Pow2(First) = Threads
    BY <2>1 DEF Leaves, Leaf, Cells, First, Threads
  <2>4. Part(0, Partials) = Tree([c \in 0..Partials - 1 |-> Sum(c)], Threads, 0, Partials)
    BY <2>3 DEF Part
  <2> QED BY <1>s, <2>1, <2>2, <2>4
<1>2. CASE UNCHANGED gpuVars
  <2>1. size' = size /\ final_mac' = final_mac /\ kernel = "over"
    BY <1>2 DEF gpuVars
  <2> QED BY <1>s, <2>1 DEF Result
<1>3. ASSUME NEW t \in ThreadIdx, Thread(t) PROVE FALSE
  BY <1>3, ThreadSteady DEF Steady, Running
<1> QED BY <1>1, <1>2, <1>3 DEF GpuNext, LaunchPass1, LaunchPass2

\* The sum of all partial sums, term by term.
LEMMA AllSummed ==
  ASSUME NEW y, NEW n \in Nat \ {0}, NEW m \in Nat, n = Threads, m = Partials
  PROVE  y \in Tree([c \in 0..m - 1 |-> Sum(c)], n, 0, m) <=>
           \E b \in 0..m - 1 : \E x \in Sum(b) : y = <<x[1], x[2] + n * (m - 1 - b)>>
<1>1. PICK f : f = [c \in 0..m - 1 |-> Sum(c)]
  OBVIOUS
<1>2. \A b \in 0..m - 1 : f[0 + b] = Sum(b)
  BY <1>1
<1>3. y \in Tree(f, n, 0, m) <=> Term(f, n, 0, m, y)
  BY InTree
<1> QED BY <1>1, <1>2, <1>3 DEF Term

\* A full tree is GHASH.
LEMMA FullTree ==
  ASSUME NEW n \in Nat \ {0}, NEW m \in Nat \ {0}, n = Threads, m = Partials, size = n * m
  PROVE  Tree([c \in 0..m - 1 |-> Sum(c)], n, 0, m) = SerialGhash(size)
<1>1. blocks_pass1(size) = m
  <2>1. (n * m) \div n = m
    OBVIOUS
  <2> QED BY <2>1 DEF blocks_pass1
<1>2. \A b \in 0..m - 1 : Sum(b) = {<<b * n + j, n - j>> : j \in 0..n - 1}
  BY <1>1 DEF Sum, Share
<1>3. PICK s \in Nat : s = n * m /\ s = size /\ s = m * n
  OBVIOUS
<1>4. ASSUME NEW b \in 0..m - 1, NEW j \in 0..n - 1
      PROVE  /\ b * n + j \in 0..s - 1
             /\ (n - j) + n * (m - 1 - b) = s - (b * n + j)
  <2>1. b * n + j \in Nat /\ b * n + j < s
    BY <1>3, PlaceBelow
  <2>2. n * (m - 1 - b) = n * m - n - b * n
    OBVIOUS
  <2>3. PICK q \in Int : q = b * n /\ n * (m - 1 - b) = s - n - q
    BY <1>3, <2>2
  <2> QED BY <1>3, <2>1, <2>3
<1> DEFINE T == Tree([c \in 0..m - 1 |-> Sum(c)], n, 0, m)
<1>t. ASSUME NEW y
      PROVE  y \in T <=>
               \E b \in 0..m - 1 : \E x \in Sum(b) : y = <<x[1], x[2] + n * (m - 1 - b)>>
  BY AllSummed
<1>g. \A y : y \in SerialGhash(size) <=> \E i \in 0..s - 1 : y = <<i, s - i>>
  BY <1>3 DEF SerialGhash
<1> HIDE DEF T
<1>5. ASSUME NEW y \in T PROVE y \in SerialGhash(size)
  <2>1. PICK b \in 0..m - 1 : \E x \in Sum(b) : y = <<x[1], x[2] + n * (m - 1 - b)>>
    BY <1>t
  <2>2. PICK j \in 0..n - 1 : y = <<b * n + j, (n - j) + n * (m - 1 - b)>>
    <3>1. PICK x \in Sum(b) : y = <<x[1], x[2] + n * (m - 1 - b)>>
      BY <2>1
    <3>2. PICK j \in 0..n - 1 : x = <<b * n + j, n - j>>
      BY <1>2
    <3>3. x[1] = b * n + j /\ x[2] = n - j
      BY <3>2
    <3> QED BY <3>1, <3>3
  <2>3. b * n + j \in 0..s - 1 /\ y = <<b * n + j, s - (b * n + j)>>
    BY <1>4, <2>2
  <2> QED BY <1>g, <2>3
<1>6. ASSUME NEW y \in SerialGhash(size) PROVE y \in T
  <2>1. PICK i \in 0..s - 1 : y = <<i, s - i>>
    BY <1>g
  <2>2. i \in Nat /\ i < m * n
    BY <1>3
  <2>3. PICK b \in Nat, j \in 0..n - 1 : i = b * n + j /\ b < m
    <3>1. \E b \in Nat, j \in 0..n - 1 : i = b * n + j /\ (i < m * n => b < m)
      BY <2>2, Placed, Zenon
    <3> QED BY <2>2, <3>1
  <2>4. b \in 0..m - 1
    BY <2>3
  <2>5. PICK x : x = <<b * n + j, n - j>>
    OBVIOUS
  <2>6. x \in Sum(b)
    BY <1>2, <2>4, <2>5
  <2>7. x[1] = b * n + j /\ x[2] = n - j
    BY <2>5
  <2>8. (n - j) + n * (m - 1 - b) = s - (b * n + j)
    BY <1>4, <2>4
  <2>9. y = <<x[1], x[2] + n * (m - 1 - b)>>
    BY <2>1, <2>3, <2>7, <2>8
  <2> QED BY <1>t, <2>4, <2>6, <2>9
<1> QED BY <1>5, <1>6 DEF T

\* Any other text leaves something out or takes something in.
LEMMA OtherText ==
  ASSUME GpuTypes, NEW n \in Nat \ {0}, NEW m \in Nat \ {0}, n = Threads, m = Partials,
         size # n * m
  PROVE  Tree([c \in 0..m - 1 |-> Sum(c)], n, 0, m) # SerialGhash(size)
<1>0. size \in Nat
  BY DEF GpuTypes
<1> DEFINE T == Tree([c \in 0..m - 1 |-> Sum(c)], n, 0, m)
<1>t. ASSUME NEW y
      PROVE  y \in T <=>
               \E b \in 0..m - 1 : \E x \in Sum(b) : y = <<x[1], x[2] + n * (m - 1 - b)>>
  BY AllSummed
<1> HIDE DEF T
<1>1. CASE blocks_pass1(size) < m
  <2>1. PICK y : y = <<-1 - (m - 1), 0 + n * (m - 1 - (m - 1))>>
    OBVIOUS
  <2>2. Sum(m - 1) = {<<-1 - (m - 1), 0>>}
    <3>1. ~(m - 1 < blocks_pass1(size))
      BY <1>0, <1>1, WholeBlocks
    <3> QED BY <3>1 DEF Sum, Garbage
  <2>3. y \in T
    BY <1>t, <2>1, <2>2
  <2>4. y[1] = -m
    BY <2>1
  <2>5. \A z \in SerialGhash(size) : z[1] \in Nat
    BY <1>0 DEF SerialGhash
  <2> QED BY <2>3, <2>4, <2>5 DEF T
<1>2. CASE ~(blocks_pass1(size) < m)
  <2>1. PICK k \in Nat : k = blocks_pass1(size) /\ k >= m
    BY <1>0, <1>2, WholeBlocks
  <2>2. PICK s \in Nat : s = n * m /\ s = m * n
    OBVIOUS
  <2>3. size > s
    <3>1. PICK r \in Nat : k = m + r
      <4>1. k - m \in Nat /\ k = m + (k - m)
        BY <2>1
      <4> QED BY <4>1
    <3>2. k * n = m * n + r * n /\ r * n \in Nat
      BY <3>1
    <3>3. k * n <= size
      BY <1>0, <2>1, WholeBlocks
    <3> QED BY <1>0, <2>2, <3>2, <3>3
  <2>4. PICK y : y = <<size - 1, 1>>
    OBVIOUS
  <2>5. y \in SerialGhash(size)
    <3>1. size - 1 \in 0..size - 1 /\ size - (size - 1) = 1
      BY <1>0, <2>2, <2>3
    <3> QED BY <2>4, <3>1 DEF SerialGhash
  <2>6. y \notin T
    <3> SUFFICES ASSUME y \in T PROVE FALSE
      OBVIOUS
    <3>1. PICK b \in 0..m - 1 : \E x \in Sum(b) : y = <<x[1], x[2] + n * (m - 1 - b)>>
      BY <1>t
    <3>2. Sum(b) = {<<b * n + j, n - j>> : j \in 0..n - 1}
      BY <2>1, <3>1 DEF Sum, Share
    <3>3. PICK j \in 0..n - 1 : y[1] = b * n + j
      BY <3>1, <3>2
    <3>4. b * n + j \in Nat /\ b * n + j < s
      <4>1. b \in Nat /\ b < m
        OBVIOUS
      <4> QED BY <2>2, <4>1, PlaceBelow
    <3>5. y[1] = size - 1
      BY <2>4
    <3> QED BY <1>0, <2>2, <2>3, <3>3, <3>4, <3>5
  <2> QED BY <2>5, <2>6 DEF T
<1> QED BY <1>1, <1>2

\* However the threads of a kernel are interleaved and the thread blocks
\* scheduled, the two kernels leave GHASH of the text if the text fills the
\* tree, and of no other: for trees of any depth and any text.
THEOREM GpuTreeIsGhash == GpuSpec => []TreeIsGhash
<1> DEFINE I == GpuTypes /\ Shares /\ Phases /\ Result
<1>1. GpuInit => I
  <2>1. GpuInit => Phases /\ Result
    BY DEF GpuInit, Phases, Running, Result
  <2> QED BY <2>1, GpuTypesInit, SharesInit
<1>2. I /\ [GpuNext]_gpuVars => I'
  BY GpuTypesNext, SharesNext, PhasesNext, ResultNext
<1>3. I => TreeIsGhash
  <2> SUFFICES ASSUME GpuTypes, Result, kernel = "over"
               PROVE  final_mac = SerialGhash(size) <=> size = Threads * Partials
    BY DEF TreeIsGhash
  <2>1. PICK n \in Nat \ {0}, m \in Nat \ {0} : n = Threads /\ m = Partials
    BY Dimensions
  <2>2. final_mac = Tree([c \in 0..m - 1 |-> Sum(c)], n, 0, m)
    BY <2>1 DEF Result
  <2>3. CASE size = n * m
    BY <2>1, <2>2, <2>3, FullTree
  <2>4. CASE size # n * m
    BY <2>1, <2>2, <2>4, OtherText
  <2> QED BY <2>1, <2>3, <2>4
<1> QED BY <1>1, <1>2, <1>3, PTL DEF GpuSpec
=============================================================================
