---------------------------- MODULE StreamCipher ----------------------------
(***************************************************************************)
(* The streaming interface of the fused cipher: the globals and entry      *)
(* points of FusedCryptoWrapper.cpp around the AES-GCM engine of           *)
(* FusedCryptoPayload.h, one sender process and one receiver process.      *)
(*                                                                         *)
(* CryptoFusionPass turns every store of a serializer into fuse_inline_-   *)
(* enc_8/16/32/64 and every memcpy into fuse_inline_enc_memcpy, so between *)
(* fuse_init and fuse_finalize_enc the wrapper meets stores and copies in  *)
(* any order.  Stores draw on a buffer of Wide keystream blocks and        *)
(* collect ciphertext in a GMAC buffer of the same size; copies drive the  *)
(* engine block by block.  The module keeps the counters, positions and    *)
(* buffers of both routes and says when their output is one GCM message.   *)
(*                                                                         *)
(* The data is symbolic.  A byte of a message is [pt, ks]: a plaintext     *)
(* byte <<iv, i>> under the keystream byte <<iv, counter, index>> (AAD     *)
(* bytes are under NoKey).  The GHASH state is the sequence of blocks      *)
(* absorbed; a block shorter than Block stands for it padded with zeros.   *)
(***************************************************************************)
EXTENDS Integers, Sequences, Functions

CONSTANTS
    Block,      \* bytes in an AES block (16 in the code)
    Wide,       \* blocks in a streaming buffer (8 in the code)
    Widths,     \* bytes of the stores met, among those the pass rewrites
    Copies,     \* lengths of the copies met
    AadLens,    \* lengths of the pieces of AAD met
    MaxBytes,   \* bound: payload bytes of one message
    MaxAad,     \* bound: bytes of AAD of one message
    Messages    \* bound: messages sent

ASSUME StreamAssumption ==
    /\ Block \in Nat \ {0} /\ Wide \in Nat \ {0}
    /\ MaxBytes \in Nat /\ MaxAad \in Nat /\ Messages \in Nat
    /\ Widths \subseteq {1, 2, 4, 8}
    /\ Copies \subseteq Nat /\ AadLens \subseteq Nat

VARIABLES
    tx,         \* the wrapper's globals in the sending process
    rx,         \* the wrapper's globals in the receiving process
    txCalls,    \* history: the calls made for the sender's current message
    rxCalls,    \* history: the calls made for the receiver's current message
    wire,       \* the messages the sender has finalized, in order
    got         \* what the receiver made of each of them

vars == <<tx, rx, txCalls, rxCalls, wire, got>>

-----------------------------------------------------------------------------
(* Bytes, blocks and the reference: what AES-GCM says of a whole message.  *)

End == Wide * Block
NoKey == <<0, 0, 0>>
Garbage == <<0, 0>>

Plain(iv, from, n) == [i \in 1..n |-> <<iv, from + i>>]
Aad(iv, from, n) == [i \in 1..n |-> [pt |-> <<iv, from + i>>, ks |-> NoKey]]

Blocks(n) == (n + Block - 1) \div Block

\* A byte string cut into blocks, the last one possibly short.
Chunks(bytes) ==
    [b \in 1..Blocks(Len(bytes)) |->
        SubSeq(bytes, (b - 1) * Block + 1,
               IF b * Block <= Len(bytes) THEN b * Block ELSE Len(bytes))]

\* The keystream byte at offset pos of the keystream that starts at counter.
KsByte(iv, counter, pos) == <<iv, counter + pos \div Block, pos % Block>>

\* Payload starts at counter 2; counter 1 masks the tag.
GcmCipher(iv, n) ==
    [i \in 1..n |-> [pt |-> <<iv, i>>, ks |-> KsByte(iv, 2, i - 1)]]
GcmTag(iv, a, n) ==
    [iv |-> iv, hash |-> Chunks(Aad(iv, 0, a)) \o Chunks(GcmCipher(iv, n)),
     aad_len |-> a, payload_len |-> n]

Opened(c, ks) == IF c.ks = ks THEN c.pt ELSE Garbage

-----------------------------------------------------------------------------
(* The wrapper.  Each operator is one function of the code: the globals    *)
(* before the call, to the globals after it.  "out" is the memory the      *)
(* calls have written for the current message.                             *)

Idle ==
    [on |-> FALSE, iv |-> 0, ctr |-> 0, hash |-> <<>>, aad_len |-> 0, payload_len |-> 0,
     tx_ks |-> <<0, 0>>, tx_ks_pos |-> End, tx_gmac |-> <<>>,
     rx_ks |-> <<0, 0>>, rx_ks_pos |-> End, rx_gmac |-> <<>>,
     out |-> <<>>, overrun |-> FALSE]

\* Mutants: the keystream of the last message is kept; its ciphertext is; the
\* receive buffer is emptied without dropping the keystream beside it.
fuse_init_keeps_ks(s, iv) ==
    [s EXCEPT !.iv = iv, !.ctr = 2, !.hash = <<>>, !.aad_len = 0, !.payload_len = 0,
              !.tx_gmac = <<>>, !.on = TRUE, !.out = <<>>]
fuse_init_keeps_gmac(s, iv) ==
    [s EXCEPT !.iv = iv, !.ctr = 2, !.hash = <<>>, !.aad_len = 0, !.payload_len = 0,
              !.tx_ks_pos = End, !.on = TRUE, !.out = <<>>]
fuse_init_half_rx(s, iv) ==
    [s EXCEPT !.iv = iv, !.ctr = 2, !.hash = <<>>, !.aad_len = 0, !.payload_len = 0,
              !.tx_ks_pos = End, !.tx_gmac = <<>>, !.rx_gmac = <<>>,
              !.on = TRUE, !.out = <<>>]

\* The receive positions are not among the ones fuse_init resets.
fuse_init(s, iv) ==
    [s EXCEPT !.iv = iv, !.ctr = 2, !.hash = <<>>, !.aad_len = 0, !.payload_len = 0,
              !.tx_ks_pos = End, !.tx_gmac = <<>>, !.on = TRUE, !.out = <<>>]

fuse_update_enc(s, bytes) ==
    [s EXCEPT !.aad_len = @ + Len(bytes), !.hash = @ \o Chunks(bytes)]

\* Mutants: the counter moves by one block; by one block too few.
tx_generate_keystream_one(s) ==
    [s EXCEPT !.tx_ks = <<s.iv, s.ctr>>, !.ctr = @ + 1, !.tx_ks_pos = 0]
tx_generate_keystream_short(s) ==
    [s EXCEPT !.tx_ks = <<s.iv, s.ctr>>, !.ctr = @ + Wide - 1, !.tx_ks_pos = 0]

tx_generate_keystream(s) ==
    [s EXCEPT !.tx_ks = <<s.iv, s.ctr>>, !.ctr = @ + Wide, !.tx_ks_pos = 0]

\* Mutant: the buffer is emptied one byte late.
BufferedLate(gmac, c) == IF Len(gmac) = End THEN <<>> ELSE Append(gmac, c)

\* Append a ciphertext byte to a GMAC buffer; a full buffer is absorbed.
Buffered(gmac, c) == IF Len(gmac) + 1 = End THEN <<>> ELSE Append(gmac, c)
Absorbed(gmac, c) == IF Len(gmac) + 1 = End THEN Chunks(Append(gmac, c)) ELSE <<>>

fuse_inline_enc_8(s, p) ==
    LET g == IF s.tx_ks_pos = End THEN tx_generate_keystream(s) ELSE s
        c == [pt |-> p, ks |-> KsByte(g.tx_ks[1], g.tx_ks[2], g.tx_ks_pos)]
    IN  [g EXCEPT !.tx_ks_pos = @ + 1,
                  !.tx_gmac = Buffered(@, c),
                  !.hash = @ \o Absorbed(g.tx_gmac, c),
                  !.payload_len = @ + 1,
                  !.out = Append(@, c)]

fuse_inline_enc_16(s, ps) == fuse_inline_enc_8(fuse_inline_enc_8(s, ps[1]), ps[2])
fuse_inline_enc_32(s, ps) ==
    fuse_inline_enc_8(fuse_inline_enc_8(fuse_inline_enc_16(s, ps), ps[3]), ps[4])
fuse_inline_enc_64(s, ps) ==
    fuse_inline_enc_32(fuse_inline_enc_32(s, ps), SubSeq(ps, 5, 8))

\* The 128-, 64- and 16-byte loops and the tail routine: every block of the
\* text, the last one possibly short, under the next counter.
process_fused(s, ps) ==
    LET cs == [i \in DOMAIN ps |-> [pt |-> ps[i], ks |-> KsByte(s.iv, s.ctr, i - 1)]]
    IN  [s EXCEPT !.hash = @ \o Chunks(cs), !.ctr = @ + Blocks(Len(ps)),
                  !.payload_len = @ + Len(ps), !.out = @ \o cs]

\* Mutant: a fresh keystream buffer, not a spent one, counts as idle.
fuse_inline_enc_memcpy_fresh(s, ps) ==
    IF \/ s.tx_gmac = <<>> /\ s.tx_ks_pos = 0
       \/ Len(ps) <= Block
    THEN process_fused(s, ps)
    ELSE [s EXCEPT !.overrun = TRUE]

\* Off the two idle positions the whole copy goes to the tail routine, whose
\* scratch block is Block bytes long: a longer one is out of its bounds.
fuse_inline_enc_memcpy(s, ps) ==
    IF \/ s.tx_gmac = <<>> /\ s.tx_ks_pos = End
       \/ Len(ps) <= Block
    THEN process_fused(s, ps)
    ELSE [s EXCEPT !.overrun = TRUE]

TagOf(s, gmac) == [iv |-> s.iv, hash |-> s.hash \o Chunks(gmac),
                   aad_len |-> s.aad_len, payload_len |-> s.payload_len]

fuse_finalize_enc(s) == [s EXCEPT !.hash = @ \o Chunks(s.tx_gmac), !.on = FALSE]

fuse_update_dec(s, bytes) == fuse_update_enc(s, bytes)

rx_generate_keystream(s) ==
    [s EXCEPT !.rx_ks = <<s.iv, s.ctr>>, !.ctr = @ + Wide, !.rx_ks_pos = 0]

\* Mutants: the plaintext is absorbed; the position moves before it is used.
fuse_inline_dec_8_late(s, c) ==
    LET g == IF s.rx_ks_pos = End THEN rx_generate_keystream(s) ELSE s
        p == [pt |-> Opened(c, KsByte(g.rx_ks[1], g.rx_ks[2], g.rx_ks_pos)), ks |-> NoKey]
    IN  [g EXCEPT !.rx_ks_pos = @ + 1,
                  !.rx_gmac = Buffered(@, p),
                  !.hash = @ \o Absorbed(g.rx_gmac, p),
                  !.payload_len = @ + 1,
                  !.out = Append(@, p.pt)]
fuse_inline_dec_8_skips(s, c) ==
    LET g == IF s.rx_ks_pos = End THEN rx_generate_keystream(s) ELSE s
    IN  [g EXCEPT !.rx_ks_pos = @ + 1,
                  !.rx_gmac = Buffered(@, c),
                  !.hash = @ \o Absorbed(g.rx_gmac, c),
                  !.payload_len = @ + 1,
                  !.out = Append(@, Opened(c, KsByte(g.rx_ks[1], g.rx_ks[2], g.rx_ks_pos + 1)))]

\* The ciphertext is absorbed, then the plaintext returned.
fuse_inline_dec_8(s, c) ==
    LET g == IF s.rx_ks_pos = End THEN rx_generate_keystream(s) ELSE s
    IN  [g EXCEPT !.rx_ks_pos = @ + 1,
                  !.rx_gmac = Buffered(@, c),
                  !.hash = @ \o Absorbed(g.rx_gmac, c),
                  !.payload_len = @ + 1,
                  !.out = Append(@, Opened(c, KsByte(g.rx_ks[1], g.rx_ks[2], g.rx_ks_pos)))]

fuse_inline_dec_16(s, cs) == fuse_inline_dec_8(fuse_inline_dec_8(s, cs[1]), cs[2])
fuse_inline_dec_32(s, cs) ==
    fuse_inline_dec_8(fuse_inline_dec_8(fuse_inline_dec_16(s, cs), cs[3]), cs[4])
fuse_inline_dec_64(s, cs) ==
    fuse_inline_dec_32(fuse_inline_dec_32(s, cs), SubSeq(cs, 5, 8))

decrypt_fused(s, cs) ==
    [s EXCEPT !.hash = @ \o Chunks(cs), !.ctr = @ + Blocks(Len(cs)),
              !.payload_len = @ + Len(cs),
              !.out = @ \o [i \in DOMAIN cs |->
                                Opened(cs[i], KsByte(s.iv, s.ctr, i - 1))]]

\* The test is on the send positions, which a receiver never moves.
fuse_inline_dec_memcpy(s, cs) ==
    IF \/ s.tx_gmac = <<>> /\ s.tx_ks_pos = End
       \/ Len(cs) <= Block
    THEN decrypt_fused(s, cs)
    ELSE [s EXCEPT !.overrun = TRUE]

fuse_verify_dec(s) == [s EXCEPT !.hash = @ \o Chunks(s.rx_gmac), !.on = FALSE]

-----------------------------------------------------------------------------
(* What a caller has to respect for the two routes to make one message:    *)
(* the AAD first and cut at block boundaries; a copy only when the bytes   *)
(* stored so far fill whole buffers and the payload whole blocks; a store  *)
(* never right after a copy that ended inside a block.  The history of a   *)
(* message holds whether its calls have done so, and its stored bytes.     *)

NoCalls == [ordered |-> TRUE, stored |-> 0]

AfterAad(h, s) ==
    [h EXCEPT !.ordered = @ /\ s.payload_len = 0 /\ s.aad_len % Block = 0]

AfterStore(h, s, w) ==
    [ordered |-> h.ordered /\ (h.stored % End # 0 \/ s.payload_len % Block = 0),
     stored  |-> h.stored + w]

AfterCopy(h, s) ==
    [h EXCEPT !.ordered = @ /\ h.stored % End = 0 /\ s.payload_len % Block = 0]

Enc(s, ps) == CASE Len(ps) = 1 -> fuse_inline_enc_8(s, ps[1])
                [] Len(ps) = 2 -> fuse_inline_enc_16(s, ps)
                [] Len(ps) = 4 -> fuse_inline_enc_32(s, ps)
                [] Len(ps) = 8 -> fuse_inline_enc_64(s, ps)

Dec(s, cs) == CASE Len(cs) = 1 -> fuse_inline_dec_8(s, cs[1])
                [] Len(cs) = 2 -> fuse_inline_dec_16(s, cs)
                [] Len(cs) = 4 -> fuse_inline_dec_32(s, cs)
                [] Len(cs) = 8 -> fuse_inline_dec_64(s, cs)

-----------------------------------------------------------------------------
(* The sender.  A message starts once the last one has been received; the  *)
(* two processes share nothing but the wire, so this loses no behaviour.   *)

TxInit ==
    /\ ~tx.on /\ ~tx.overrun
    /\ Len(wire) < Messages /\ Len(got) = Len(wire)
    /\ tx' = fuse_init(tx, Len(wire) + 1)
    /\ txCalls' = NoCalls
    /\ UNCHANGED <<rx, rxCalls, wire, got>>

TxAad(n) ==
    /\ tx.on /\ ~tx.overrun
    /\ tx.aad_len + n <= MaxAad
    /\ tx' = fuse_update_enc(tx, Aad(tx.iv, tx.aad_len, n))
    /\ txCalls' = AfterAad(txCalls, tx)
    /\ UNCHANGED <<rx, rxCalls, wire, got>>

TxStore(w) ==
    /\ tx.on /\ ~tx.overrun
    /\ tx.payload_len + w <= MaxBytes
    /\ tx' = Enc(tx, Plain(tx.iv, tx.payload_len, w))
    /\ txCalls' = AfterStore(txCalls, tx, w)
    /\ UNCHANGED <<rx, rxCalls, wire, got>>

TxCopy(n) ==
    /\ tx.on /\ ~tx.overrun
    /\ tx.payload_len + n <= MaxBytes
    /\ tx' = fuse_inline_enc_memcpy(tx, Plain(tx.iv, tx.payload_len, n))
    /\ txCalls' = AfterCopy(txCalls, tx)
    /\ UNCHANGED <<rx, rxCalls, wire, got>>

TxFinalize ==
    /\ tx.on /\ ~tx.overrun
    /\ tx' = fuse_finalize_enc(tx)
    /\ wire' = Append(wire, [iv |-> tx.iv, aad_len |-> tx.aad_len, ct |-> tx.out,
                             tag |-> TagOf(tx, tx.tx_gmac), ordered |-> txCalls.ordered])
    /\ UNCHANGED <<rx, txCalls, rxCalls, got>>

-----------------------------------------------------------------------------
(* The receiver, which cuts the ciphertext as its own code happens to.     *)

Incoming == wire[Len(got) + 1]
AadRead == rx.aad_len = Incoming.aad_len
Left == Len(Incoming.ct) - rx.payload_len
NextBytes(n) == SubSeq(Incoming.ct, rx.payload_len + 1, rx.payload_len + n)

RxInit ==
    /\ ~rx.on /\ Len(got) < Len(wire)
    /\ rx' = fuse_init(rx, Incoming.iv)
    /\ rxCalls' = NoCalls
    /\ UNCHANGED <<tx, txCalls, wire, got>>

RxAad ==
    /\ rx.on /\ ~AadRead
    /\ rx' = fuse_update_dec(rx, Aad(rx.iv, 0, Incoming.aad_len))
    /\ rxCalls' = AfterAad(rxCalls, rx)
    /\ UNCHANGED <<tx, txCalls, wire, got>>

RxStore(w) ==
    /\ rx.on /\ AadRead /\ w <= Left
    /\ rx' = Dec(rx, NextBytes(w))
    /\ rxCalls' = AfterStore(rxCalls, rx, w)
    /\ UNCHANGED <<tx, txCalls, wire, got>>

RxCopy(n) ==
    /\ rx.on /\ AadRead /\ n <= Left
    /\ rx' = fuse_inline_dec_memcpy(rx, NextBytes(n))
    /\ rxCalls' = AfterCopy(rxCalls, rx)
    /\ UNCHANGED <<tx, txCalls, wire, got>>

RxVerify ==
    /\ rx.on /\ AadRead /\ Left = 0
    /\ rx' = fuse_verify_dec(rx)
    /\ got' = Append(got, [accepted |-> TagOf(rx, rx.rx_gmac) = Incoming.tag,
                           text |-> rx.out, ordered |-> rxCalls.ordered,
                           stored |-> rxCalls.stored])
    /\ UNCHANGED <<tx, txCalls, rxCalls, wire>>

-----------------------------------------------------------------------------

Init ==
    /\ tx = Idle /\ rx = Idle
    /\ txCalls = NoCalls /\ rxCalls = NoCalls
    /\ wire = <<>> /\ got = <<>>

Next ==
    \/ TxInit
    \/ \E n \in AadLens : TxAad(n)
    \/ \E w \in Widths : TxStore(w)
    \/ \E n \in Copies : TxCopy(n)
    \/ TxFinalize
    \/ RxInit
    \/ RxAad
    \/ \E w \in Widths : RxStore(w)
    \/ \E n \in Copies : RxCopy(n)
    \/ RxVerify

Spec == Init /\ [][Next]_vars

-----------------------------------------------------------------------------
(* Properties.                                                             *)

WrapperOK(s) ==
    /\ {s.on, s.overrun} \subseteq BOOLEAN
    /\ {s.iv, s.ctr, s.aad_len, s.payload_len} \subseteq Nat
    /\ s.tx_ks_pos \in 0..End /\ Len(s.tx_gmac) < End
    /\ s.rx_ks_pos \in 0..End /\ Len(s.rx_gmac) < End
    /\ \A i \in DOMAIN s.hash : Len(s.hash[i]) \in 1..Block

\* The globals have their types: the two positions of each direction stay
\* inside the buffers they index, whatever the calls, and no block absorbed
\* is longer than the cipher's.
TypeOK ==
    /\ WrapperOK(tx) /\ WrapperOK(rx)
    /\ txCalls.ordered \in BOOLEAN /\ rxCalls.ordered \in BOOLEAN
    /\ Len(got) <= Len(wire) /\ Len(wire) <= Messages

\* The text the sender has written so far, over all its messages.
Sent == (UNION {Range(wire[i].ct) : i \in DOMAIN wire}) \cup Range(tx.out)

\* However stores and copies are mixed, in order or not and from message to
\* message, no byte of keystream encrypts two bytes of plaintext: the counter
\* runs past the blocks that the stores have buffered and not yet used.
KeystreamOnce ==
    \A b, c \in Sent : b.ks = c.ks => b.pt = c.pt

\* A message whose calls came in order is AES-GCM: each byte is under the
\* keystream byte of its place, and the tag is that of the AAD and the whole
\* ciphertext, although part of it was absorbed from the streaming buffer
\* and part by the engine.
StreamIsGcm ==
    \A i \in DOMAIN wire :
        LET m == wire[i] IN
        m.ordered => /\ m.ct = GcmCipher(m.iv, Len(m.ct))
                     /\ m.tag = GcmTag(m.iv, m.aad_len, Len(m.ct))

\* A copy that keeps the order never hands the tail routine more than the
\* block it has room for.
OrderedTailFits == txCalls.ordered => ~tx.overrun

\* Whatever calls made the message and whatever calls opened it, in order or
\* not, a tag that verifies is the tag of a text that decrypted rightly.
AcceptedIsIntact ==
    \A i \in DOMAIN got :
        got[i].accepted => got[i].text = Plain(wire[i].iv, 0, Len(wire[i].ct))

\* A receiver whose earlier messages left its streaming buffers at a
\* boundary opens every ordered message, however differently from the sender
\* it cuts the bytes into stores and copies.
Delivered ==
    \A i \in DOMAIN got :
        /\ wire[i].ordered /\ got[i].ordered
        /\ \A j \in 1..(i - 1) : got[j].stored % End = 0
        => got[i].accepted

\* FusedCryptoWrapper.cpp:189-191 "Process residual trailing data blocks":
\* what reaches the tail routine is what the block loops leave over.
TailFits == ~tx.overrun

\* Data_sharing_LTO/FusedCryptoWrapper.cpp:232 "Accumulate ciphertext (CT)
\* into GMAC first, then return plaintext (PT)": a receiver that streams an
\* ordered message opens it, also after it has streamed another.
StreamsOpen ==
    \A i \in DOMAIN got : wire[i].ordered /\ got[i].ordered => got[i].accepted

=============================================================================
