---------------------------- MODULE GhashEngine ----------------------------
(***************************************************************************)
(* The eight-way engine, FusedCryptoPayload_8_way_arm.h, on both sides of  *)
(* a message: one engine seals it in steps of 16, 64 and 128 bytes, the    *)
(* other opens it in steps of its own.  The header leaves it to the caller *)
(* which step comes when, so that any split of the text is allowed here.   *)
(* The arithmetic is that of Gf128, bit by bit; AES is a parameter.        *)
(***************************************************************************)
EXTENDS Gf128

CONSTANTS
    Schedules,      \* the messages an engine handles one after another
    Aes(_, _)       \* Aes(h, c): counter block c enciphered under the key whose
                    \* hash key is h

\* A message: the hash key of its key, additional data and text as blocks, and
\* the length of each in bytes.  The last block counts as far as the length says.
\* What AES makes of a counter is a block.
ASSUME ScheduleAssumption ==
    /\ Schedules \subseteq Seq([h : SUBSET Bits, aad : Seq(SUBSET Bits), aad_len : Nat,
                                text : Seq(SUBSET Bits), text_len : Nat])
    /\ \A s \in Schedules : \A i \in DOMAIN s :
        /\ s[i].aad_len <= 16 * Len(s[i].aad)
        /\ s[i].text_len <= 16 * Len(s[i].text)
        /\ \A c \in 1..Len(s[i].text) + 1 : Aes(s[i].h, c) \in SUBSET Bits

VARIABLES
    todo,       \* the messages from the one under way on
    tx, rx,     \* the two engines, and how far each has come
    cipher,     \* the ciphertext written so far
    out_tag,    \* the tag that came with it
    plain       \* what the receiver has made of it

cpuVars == <<todo, tx, rx, cipher, out_tag, plain>>

NoTag == {}

\* Members of FusedCryptoPayload; aad and pos count blocks, on is false when
\* the engine is between two messages.
Unused == [is_key_cached |-> FALSE, key |-> {}, powers |-> <<>>, current_hash |-> {},
           ctr |-> 0, on |-> FALSE, aad |-> 0, pos |-> 0, done |-> FALSE, verified |-> FALSE]

msg == todo[1]

\* The counter is a big-endian word of 32 bits; no text here is near 2^32 blocks.
INC_ARM_CTR32(c, n) == c + n

\* The first powers of the hash key, each kept with its bits reversed.
WithNextPower(p, hk) == Append(p, gf_mul_internal(p[Len(p)], hk))
HashKeys(hk) ==
    LET p[i \in 1..8] == IF i = 1 THEN <<hk>> ELSE WithNextPower(p[i - 1], hk)
        all == p[8]
    IN  <<vrbitq_u8(all[1]), vrbitq_u8(all[2]), vrbitq_u8(all[3]), vrbitq_u8(all[4]),
          vrbitq_u8(all[5]), vrbitq_u8(all[6]), vrbitq_u8(all[7]), vrbitq_u8(all[8])>>

\* The engine a new message is begun with: what depends on the key alone is
\* kept when the key is the cached one.
init(e, hk) ==
    [is_key_cached |-> TRUE, key |-> hk,
     powers |-> IF e.is_key_cached /\ e.key = hk THEN e.powers ELSE HashKeys(hk),
     current_hash |-> {}, ctr |-> 2, on |-> TRUE, aad |-> 0, pos |-> 0, done |-> FALSE,
     verified |-> FALSE]

-----------------------------------------------------------------------------
(* What a call does to an engine.                                          *)

\* Whole blocks, and the bytes of a tail.
Whole(len) == len \div 16
Rest(len) == len % 16

\* What is left of a block of which len bytes count.
Masked(block, len) == {i \in block : i < 8 * len}

\* One block into the hash; several, with descending powers of the hash key.
Absorb(e, block) == gf_mul_arm(Xor(e.current_hash, block), e.powers[1])
AbsorbWide(e, blocks) ==
    gf_sum_arm(<<Xor(e.current_hash, blocks[1])>> \o Tail(blocks), e.powers)

process_aad_16bytes_fused(e) == [e EXCEPT !.current_hash = Absorb(e, msg.aad[e.aad + 1]),
                                          !.aad = @ + 1]
process_aad_tail_fused(e) ==
    [e EXCEPT !.current_hash = Absorb(e, Masked(msg.aad[e.aad + 1], Rest(msg.aad_len))),
              !.aad = @ + 1]

\* n blocks further, with another hash.
Advanced(e, n, hash) == [e EXCEPT !.current_hash = hash, !.pos = @ + n,
                                  !.ctr = INC_ARM_CTR32(@, n)]

\* Additional data first, then the text, its tail last.
AadNext(e) == e.on /\ e.aad < Len(msg.aad)
Left(e, n) == e.on /\ e.aad = Len(msg.aad) /\ e.pos + n <= Whole(msg.text_len)
TailLeft(e) == /\ e.on /\ e.aad = Len(msg.aad) /\ Rest(msg.text_len) > 0
               /\ e.pos = Whole(msg.text_len)
AllDone(e) == e.on /\ ~e.done /\ e.aad = Len(msg.aad) /\ e.pos = Len(msg.text)

WithAad(e) == IF e.aad < Whole(msg.aad_len) THEN process_aad_16bytes_fused(e)
              ELSE process_aad_tail_fused(e)

\* A length in bits as a big-endian word, in one half of a block.
BigEndian(bytes, half) ==
    {64 * half + 8 * (7 - (k \div 8)) + (k % 8) :
        k \in {b \in 0..15 : ((8 * bytes) \div 2^b) % 2 = 1}}

finalize(e) ==
    [e EXCEPT !.current_hash = Absorb(e, BigEndian(msg.aad_len, 0) \cup
                                         BigEndian(msg.text_len, 1)),
              !.done = TRUE]
TagOf(e) == Xor(finalize(e).current_hash, Aes(e.key, 1))

-----------------------------------------------------------------------------
(* Sealing.                                                                *)

\* The next n blocks of text under the next n counters.
Ciphered(n) ==
    [i \in 1..n |-> Xor(msg.text[tx.pos + i], Aes(tx.key, INC_ARM_CTR32(tx.ctr, i - 1)))]

Seal(written, hash) ==
    /\ cipher' = cipher \o written
    /\ tx' = Advanced(tx, Len(written), hash)
    /\ UNCHANGED <<todo, rx, out_tag, plain>>

TxInit ==
    /\ todo # <<>> /\ ~tx.on
    /\ tx' = init(tx, msg.h)
    /\ UNCHANGED <<todo, rx, cipher, out_tag, plain>>

TxAad ==
    /\ AadNext(tx)
    /\ tx' = WithAad(tx)
    /\ UNCHANGED <<todo, rx, cipher, out_tag, plain>>

process_16bytes_fused == Left(tx, 1) /\ Seal(Ciphered(1), Absorb(tx, Ciphered(1)[1]))

process_64bytes_fused == Left(tx, 4) /\ Seal(Ciphered(4), AbsorbWide(tx, Ciphered(4)))

process_128bytes_fused_arm == Left(tx, 8) /\ Seal(Ciphered(8), AbsorbWide(tx, Ciphered(8)))

\* Mutant: the keystream behind the end of the text goes into the hash.
process_tail_unmasked ==
    TailLeft(tx) /\ Seal(<<Masked(Ciphered(1)[1], Rest(msg.text_len))>>,
                         Absorb(tx, Ciphered(1)[1]))

process_tail_fused ==
    TailLeft(tx) /\ LET ct == Masked(Ciphered(1)[1], Rest(msg.text_len)) IN
                    Seal(<<ct>>, Absorb(tx, ct))

TxFinalize ==
    /\ AllDone(tx)
    /\ tx' = finalize(tx)
    /\ out_tag' = TagOf(tx)
    /\ UNCHANGED <<todo, rx, cipher, plain>>

-----------------------------------------------------------------------------
(* Opening.                                                                *)

\* The next n blocks that have arrived, and what they are deciphered to.
Arrived(n) == SubSeq(cipher, rx.pos + 1, rx.pos + n)
Deciphered(n) ==
    [i \in 1..n |-> Xor(cipher[rx.pos + i], Aes(rx.key, INC_ARM_CTR32(rx.ctr, i - 1)))]

Open(read, hash) ==
    /\ plain' = plain \o read
    /\ rx' = Advanced(rx, Len(read), hash)
    /\ UNCHANGED <<todo, tx, cipher, out_tag>>

RxInit ==
    /\ tx.done /\ ~rx.on
    /\ rx' = init(rx, msg.h)
    /\ UNCHANGED <<todo, tx, cipher, out_tag, plain>>

RxAad ==
    /\ AadNext(rx)
    /\ rx' = WithAad(rx)
    /\ UNCHANGED <<todo, tx, cipher, out_tag, plain>>

decrypt_16bytes_fused == Left(rx, 1) /\ Open(Deciphered(1), Absorb(rx, Arrived(1)[1]))

\* Mutant: deciphered under the counters behind them.
decrypt_64bytes_late ==
    Left(rx, 4) /\ LET late == [i \in 1..4 |-> Xor(cipher[rx.pos + i],
                                                   Aes(rx.key, INC_ARM_CTR32(rx.ctr, i)))]
                   IN  Open(late, AbsorbWide(rx, Arrived(4)))

decrypt_64bytes_fused == Left(rx, 4) /\ Open(Deciphered(4), AbsorbWide(rx, Arrived(4)))

decrypt_128bytes_fused_arm == Left(rx, 8) /\ Open(Deciphered(8), AbsorbWide(rx, Arrived(8)))

decrypt_tail_fused ==
    TailLeft(rx) /\ Open(<<Masked(Deciphered(1)[1], Rest(msg.text_len))>>,
                         Absorb(rx, Arrived(1)[1]))

\* The tag is compared, and both go on to their next message.
verify_tag ==
    /\ AllDone(rx)
    /\ rx' = [finalize(rx) EXCEPT !.verified = TagOf(rx) = out_tag]
    /\ UNCHANGED <<todo, tx, cipher, out_tag, plain>>

NextMessage ==
    /\ rx.done
    /\ todo' = Tail(todo)
    /\ tx' = [tx EXCEPT !.on = FALSE, !.done = FALSE]
    /\ rx' = [rx EXCEPT !.on = FALSE, !.done = FALSE]
    /\ cipher' = <<>> /\ plain' = <<>> /\ out_tag' = NoTag

-----------------------------------------------------------------------------
CpuInit ==
    /\ todo \in Schedules
    /\ tx = Unused /\ rx = Unused
    /\ cipher = <<>> /\ plain = <<>> /\ out_tag = NoTag

TxNext ==
    \/ TxInit \/ TxAad \/ TxFinalize
    \/ process_16bytes_fused \/ process_64bytes_fused \/ process_128bytes_fused_arm
    \/ process_tail_fused

RxNext ==
    \/ RxInit \/ RxAad \/ verify_tag
    \/ decrypt_16bytes_fused \/ decrypt_64bytes_fused \/ decrypt_128bytes_fused_arm
    \/ decrypt_tail_fused

CpuDone == todo = <<>>

CpuNext == TxNext \/ RxNext \/ NextMessage

CpuSpec == CpuInit /\ [][CpuNext]_cpuVars

-----------------------------------------------------------------------------
(* Properties.                                                             *)

\* What GCM makes of the message: padded additional data, ciphertext, lengths.
Padded(blocks, len) ==
    [i \in DOMAIN blocks |-> IF i <= Whole(len) THEN blocks[i]
                             ELSE Masked(blocks[i], Rest(len))]
GcmCipher ==
    Padded([i \in DOMAIN msg.text |-> Xor(msg.text[i], Aes(msg.h, i + 1))], msg.text_len)

\* Lengths as GCM reads them: a bit string, the highest bit first.
GcmLengths ==
    LET from(bytes, at) == {at - b : b \in {k \in 0..15 : ((8 * bytes) \div 2^k) % 2 = 1}}
    IN  vrbitq_u8(from(msg.aad_len, 63) \cup from(msg.text_len, 127))

GhashOf(e) ==
    Ghash(msg.h, SubSeq(Padded(msg.aad, msg.aad_len), 1, e.aad)
                     \o SubSeq(GcmCipher, 1, e.pos)
                     \o (IF e.done THEN <<GcmLengths>> ELSE <<>>))

\* Wherever the text is cut into steps of 16, 64 and 128 bytes, and whichever
\* key the engine had before, the hash of either side is GHASH of what it has
\* processed: the vector arithmetic, the powers and the padding are GCM's.
HashIsGhash ==
    /\ tx.on => tx.current_hash = GhashOf(tx)
    /\ rx.on => rx.current_hash = GhashOf(rx)

\* The receiver reads what was written, and the tag verifies, although it cuts
\* the text into other steps than the sender did.
OpensInAnySteps ==
    /\ todo # <<>> => plain = SubSeq(Padded(msg.text, msg.text_len), 1, Len(plain))
    /\ rx.done => rx.verified /\ Len(plain) = Len(msg.text)

\* The vector product of this engine, the bit loop of the GPU and the product
\* of polynomials are one function.  All three are linear in either argument,
\* so that single bits settle it, once keys of a single bit are among the keys.
ProductsAgree ==
    (tx.on /\ tx.aad = 0 /\ tx.pos = 0 /\ ~tx.done) =>
        \A j \in Bits : LET product == Times({j}, msg.h) IN
            /\ gf_mul_arm({j}, tx.powers[1]) = product
            /\ gf_mul_64({j}, msg.h) = product
=============================================================================
