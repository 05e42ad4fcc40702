------------------------------- MODULE Gf128 -------------------------------
(***************************************************************************)
(* The multiplication of GCM in the three forms this repository has it:    *)
(* with the polynomial multiplier of ARM in the eight-way engine, without  *)
(* the reversal of bits in the narrower ones, and bit by bit on the GPU.   *)
(* A block of 16 bytes is the set of its bits that are 1, numbered as they *)
(* lie in memory: bit b of byte B is 8 * B + b.                            *)
(***************************************************************************)
EXTENDS Naturals, FiniteSets, Sequences

Bits == 0..127

\* Exclusive or, of two words and of a sequence of them.
Xor(a, b) == (a \ b) \cup (b \ a)
XorAll(s) ==
    LET x[i \in 0..Len(s)] == IF i = 0 THEN {} ELSE Xor(x[i - 1], s[i]) IN x[Len(s)]

\* The bits of every byte in the opposite order: bit i is then the
\* coefficient of x^i, as GCM has it.
vrbitq_u8(v) == {8 * (i \div 8) + 7 - (i % 8) : i \in v}

\* The two words of a vector, little-endian.
Lane(v, i) == {k \in 0..63 : 64 * i + k \in v}
Combine(low, high) == low \cup {64 + k : k \in high}

\* 64-bit shifts: what leaves the word is lost.
Shl(w, n) == {k + n : k \in {i \in w : i + n < 64}}
Shr(w, n) == {k - n : k \in {i \in w : i >= n}}

\* Product of two polynomials over GF(2), of degree at most 2 * degree.
Product(a, b, degree) ==
    {k \in 0..2 * degree : Cardinality({i \in a : k >= i /\ k - i \in b}) % 2 = 1}
vmull_p64(a, b) == Product(a, b, 63)

-----------------------------------------------------------------------------
(* FusedCryptoPayload_8_way_arm.h                                          *)

\* The three products of Karatsuba for a block and a power of the hash key
\* that is kept reversed, added to what has been summed up before.
NoSum == [lo |-> {}, hi |-> {}, mid |-> {}]
PMULL_ACCUMULATE_STD(a, h_rev, sum) ==
    LET r == vrbitq_u8(a) IN
    [lo  |-> Xor(sum.lo, vmull_p64(Lane(r, 0), Lane(h_rev, 0))),
     hi  |-> Xor(sum.hi, vmull_p64(Lane(r, 1), Lane(h_rev, 1))),
     mid |-> Xor(sum.mid, vmull_p64(Xor(Lane(r, 0), Lane(r, 1)),
                                    Xor(Lane(h_rev, 0), Lane(h_rev, 1))))]

\* Mutant: one of the bits that leave a word is forgotten.
CarriedShort(z) == XorAll(<<Shr(z, 63), Shr(z, 62)>>)

\* Words z3 and z2 folded into those below them.
Folded(z) == XorAll(<<z, Shl(z, 1), Shl(z, 2), Shl(z, 7)>>)
Carried(z) == XorAll(<<Shr(z, 63), Shr(z, 62), Shr(z, 57)>>)

\* The reduction modulo x^128 + x^7 + x^2 + x + 1 of what has been summed up.
Reduced(sum) ==
    LET mid == XorAll(<<sum.mid, sum.lo, sum.hi>>)
        z3  == Lane(sum.hi, 1)
        z2  == Xor(Xor(Lane(sum.hi, 0), Lane(mid, 1)), Carried(z3))
        z1  == Xor(Xor(Lane(sum.lo, 1), Lane(mid, 0)), Folded(z3))
    IN  vrbitq_u8(Combine(Xor(Lane(sum.lo, 0), Folded(z2)), Xor(z1, Carried(z2))))

gf_mul_arm(a, h_rev) == Reduced(PMULL_ACCUMULATE_STD(a, h_rev, NoSum))

gf_mul_internal(a, b) == gf_mul_arm(a, vrbitq_u8(b))

\* Several blocks at once, the first with the highest power: summed up before
\* they are reduced, once.
gf_sum_arm(blocks, powers_rev) ==
    LET n == Len(blocks)
        sum[i \in 0..n] ==
            IF i = 0 THEN NoSum
            ELSE PMULL_ACCUMULATE_STD(blocks[i], powers_rev[n + 1 - i], sum[i - 1])
    IN  Reduced(sum[n])

-----------------------------------------------------------------------------
(* FusedCryptoPayload_1_way_arm.h and FusedCryptoPayload_4_way_arm.h       *)

\* Both words of a vector shifted.
Shl2(v, n) == Combine(Shl(Lane(v, 0), n), Shl(Lane(v, 1), n))
Shr2(v, n) == Combine(Shr(Lane(v, 0), n), Shr(Lane(v, 1), n))

\* No byte is reversed, and the upper word alone is kept.
gf_mul_narrow(a, b) ==
    LET m00  == vmull_p64(Lane(a, 0), Lane(b, 0))
        m11  == vmull_p64(Lane(a, 1), Lane(b, 1))
        m01  == vmull_p64(Xor(Lane(a, 0), Lane(a, 1)), Xor(Lane(b, 0), Lane(b, 1)))
        mid  == XorAll(<<m01, m00, m11>>)
        low  == Xor(m00, Combine({}, Lane(mid, 0)))
        t1   == Xor(low, Shl2(low, 1))
        t2   == Xor(t1, Shl2(t1, 2))
        low2 == Xor(low, Xor(t2, Shl2(t2, 7)))
    IN  XorAll(<<m11, Combine(Lane(mid, 1), {}),
                 Shr2(low2, 63), Shr2(low2, 62), Shr2(low2, 57)>>)

\* process_64bytes_fused of the four-way engine: four products, summed up
\* after they are reduced; and four times process_16bytes_fused.
narrow_powers(h) ==
    LET p[i \in 1..4] == IF i = 1 THEN h ELSE gf_mul_narrow(p[i - 1], h)
    IN  <<p[1], p[2], p[3], p[4]>>
process_64bytes_narrow(h, blocks) ==
    XorAll([i \in 1..4 |-> gf_mul_narrow(blocks[i], narrow_powers(h)[5 - i])])
process_16bytes_narrow(h, blocks) ==
    LET hash[i \in 0..4] == IF i = 0 THEN {} ELSE gf_mul_narrow(Xor(hash[i - 1], blocks[i]), h)
    IN  hash[4]

-----------------------------------------------------------------------------
(* parallel_gcm.cu                                                         *)

\* v of one round of the loop after another: a shift along the bytes, and the
\* polynomial when the last bit falls out.
Shifted(v) ==
    LET c == {i + 1 : i \in v \ {127}} IN
    IF 127 \in v THEN Xor(c, {0, 1, 2, 7}) ELSE c
WithNext(rounds) == Append(rounds, Shifted(rounds[Len(rounds)]))

\* In order of bytes and, in them, from the upper bit, as bytes_to_uint64
\* puts the block into two words.
gf_mul_64(a, b) ==
    LET upTo[i \in Bits] == IF i = 0 THEN <<vrbitq_u8(b)>> ELSE WithNext(upTo[i - 1])
        v == upTo[127]
    IN  vrbitq_u8({k \in Bits : Cardinality({i \in vrbitq_u8(a) : k \in v[i + 1]}) % 2 = 1})

-----------------------------------------------------------------------------
(* Reference: multiplication of polynomials, and the remainder.            *)

\* x^128 is x^7 + x^2 + x + 1.
FoldOnce(p) ==
    LET high == {k - 128 : k \in {i \in p : i >= 128}}
    IN  XorAll(<<{i \in p : i < 128}>> \o
               [j \in 1..4 |-> {k + <<0, 1, 2, 7>>[j] : k \in high}])

Times(a, b) ==
    vrbitq_u8(FoldOnce(FoldOnce(Product(vrbitq_u8(a), vrbitq_u8(b), 127))))

\* GHASH, block after block.
Ghash(h, blocks) ==
    LET y[i \in 0..Len(blocks)] ==
            IF i = 0 THEN {} ELSE Times(Xor(y[i - 1], blocks[i]), h)
    IN  y[Len(blocks)]
=============================================================================
