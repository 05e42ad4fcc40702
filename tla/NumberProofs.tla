---------------------------- MODULE NumberProofs ----------------------------
(***************************************************************************)
(* Induction over the numbers in a set, and recursion along an interval:   *)
(* what the proofs about recursive functions of the models rest on.  Both  *)
(* are stated with sets and functions, since a theorem that takes an       *)
(* operator cannot be applied to one.                                      *)
(***************************************************************************)
EXTENDS Integers, WellFoundedInduction, TLAPS

\* A set of numbers has a least one.
LEMMA LeastNumber ==
  ASSUME NEW T \in SUBSET Nat, T # {}
  PROVE  \E x \in T : \A y \in T : x <= y
<1> DEFINE R == OpToRel(<, Nat)
<1>1. IsWellFoundedOn(R, Nat)
  BY NatLessThanWellFounded
<1>2. \A x, y \in Nat : x < y => <<x, y>> \in R
  BY DEF OpToRel
<1> HIDE DEF R
<1>3. PICK x \in T : \A y \in T : ~(<<y, x>> \in R)
  BY <1>1, WFMin
<1>4. ASSUME NEW y \in T PROVE x <= y
  <2>1. x \in Nat /\ y \in Nat /\ ~(y < x)
    BY <1>2, <1>3
  <2> QED BY <2>1
<1> QED BY <1>4

\* Induction on the numbers in a set.
LEMMA SetInduction ==
  ASSUME NEW S, 0 \in S, \A n \in Nat : n \in S => n + 1 \in S
  PROVE  Nat \subseteq S
<1> SUFFICES ASSUME Nat \ S # {} PROVE FALSE
  OBVIOUS
<1>1. PICK x \in Nat \ S : \A y \in Nat \ S : x <= y
  BY LeastNumber
<1>2. x # 0 /\ x - 1 \in Nat
  BY <1>1
<1>3. x - 1 \in S
  BY <1>1, <1>2
<1> QED BY <1>2, <1>3

\* Values that follow one another: each is got from the one before.
Follow(f, n, s, F) == f[0] = s /\ \A i \in 1..n : f[i] = F[<<i, f[i - 1]>>]

LEMMA Recursion ==
  ASSUME NEW S, NEW s \in S, NEW F, \A i \in Nat, v \in S : F[<<i, v>>] \in S, NEW n \in Nat
  PROVE  \E f \in [0..n -> S] : Follow(f, n, s, F)
<1> DEFINE Good == {m \in Nat : \E f \in [0..m -> S] : Follow(f, m, s, F)}
<1>1. 0 \in Good
  <2>1. PICK f : f = [i \in 0..0 |-> s]
    OBVIOUS
  <2>2. f \in [0..0 -> S] /\ Follow(f, 0, s, F)
    BY <2>1 DEF Follow
  <2> QED BY <2>2
<1>2. ASSUME NEW m \in Nat, m \in Good PROVE m + 1 \in Good
  <2>1. PICK f \in [0..m -> S] : Follow(f, m, s, F)
    BY <1>2
  <2>2. PICK x : x = F[<<m + 1, f[m]>>]
    OBVIOUS
  <2>3. x \in S
    BY <2>1, <2>2
  <2>4. PICK g : g = [i \in 0..(m + 1) |-> IF i = m + 1 THEN x ELSE f[i]]
    OBVIOUS
  <2>5. g \in [0..(m + 1) -> S]
    BY <2>3, <2>4
  <2>6. g[m + 1] = x /\ \A i \in 0..m : g[i] = f[i]
    BY <2>4
  <2>7. g[0] = s
    BY <2>1, <2>6 DEF Follow
  <2>8. ASSUME NEW i \in 1..(m + 1) PROVE g[i] = F[<<i, g[i - 1]>>]
    <3>1. CASE i = m + 1
      <4>1. g[i - 1] = f[m]
        BY <2>6, <3>1
      <4> QED BY <2>2, <2>6, <3>1, <4>1
    <3>2. CASE i \in 1..m
      <4>1. g[i] = f[i] /\ g[i - 1] = f[i - 1]
        BY <2>6, <3>2
      <4> QED BY <2>1, <3>2, <4>1 DEF Follow
    <3> QED BY <3>1, <3>2
  <2>9. Follow(g, m + 1, s, F)
    BY <2>7, <2>8 DEF Follow
  <2> QED BY <2>5, <2>9
<1> QED
  <2> HIDE DEF Good
  <2>1. n \in Good
    BY <1>1, <1>2, SetInduction
  <2> QED BY <2>1 DEF Good
=============================================================================
