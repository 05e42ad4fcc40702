---------------------------- MODULE StreamProofs ----------------------------
(***************************************************************************)
(* Proofs about StreamCipher, for blocks and buffers of any size and any   *)
(* stores, copies and bounds: positions stay inside their buffers, an      *)
(* ordered copy stays inside the tail routine's scratch block, and no byte *)
(* of keystream is used for two bytes of plaintext.                        *)
(***************************************************************************)
EXTENDS StreamCipher, SequenceTheorems, TLAPS

-----------------------------------------------------------------------------
(* Positions in blocks.                                                    *)

LEMMA Division ==
  ASSUME NEW n \in Nat
  PROVE  /\ n \div Block \in Nat /\ n % Block \in 0..Block - 1
         /\ n = Block * (n \div Block) + (n % Block)
BY StreamAssumption

LEMMA EndPositive == End \in Nat /\ End >= 1
BY StreamAssumption DEF End

\* A position in a buffer is in one of its blocks.
LEMMA InsideBuffer ==
  ASSUME NEW pos \in 0..End - 1
  PROVE  pos \div Block < Wide
<1>1. pos \in Nat /\ pos < Wide * Block
  BY EndPositive DEF End
<1>2. ASSUME pos \div Block >= Wide PROVE FALSE
  <2> PICK q \in Nat : q = pos \div Block
    BY <1>1, Division
  <2>1. q >= Wide /\ pos = Block * q + (pos % Block) /\ pos % Block \in 0..Block - 1
    BY <1>1, <1>2, Division
  <2>2. Block * q >= Block * Wide
    BY <2>1, StreamAssumption
  <2> QED BY <1>1, <2>1, <2>2, StreamAssumption
<1> QED BY <1>1, <1>2, Division, StreamAssumption

\* Two positions of one stretch of keystream are two bytes of it.
LEMMA OtherByte ==
  ASSUME NEW iv, NEW counter \in Nat, NEW a \in Nat, NEW b \in Nat,
         KsByte(iv, counter, a) = KsByte(iv, counter, b)
  PROVE  a = b
<1>1. a \div Block \in Nat /\ b \div Block \in Nat
  BY Division
<1>2. a \div Block = b \div Block /\ a % Block = b % Block
  BY <1>1 DEF KsByte
<1>3. a = Block * (a \div Block) + (a % Block) /\ b = Block * (b \div Block) + (b % Block)
  BY Division
<1> QED BY <1>2, <1>3

\* n bytes are in Blocks(n) blocks.
LEMMA BlockCount ==
  ASSUME NEW n \in Nat
  PROVE  /\ Blocks(n) \in Nat
         /\ \A b \in 1..Blocks(n) : (b - 1) * Block + 1 <= n
         /\ \A i \in 1..n : (i - 1) \div Block < Blocks(n)
<1>1. n + Block - 1 \in Nat
  BY StreamAssumption
<1> PICK q, r : q = Blocks(n) /\ r = (n + Block - 1) % Block
  OBVIOUS
<1>2. q \in Nat /\ r \in 0..Block - 1 /\ n + Block - 1 = Block * q + r
  BY <1>1, Division DEF Blocks
<1>3. ASSUME NEW b \in 1..q PROVE (b - 1) * Block + 1 <= n
  <2>1. b * Block <= q * Block
    BY <1>2, StreamAssumption
  <2> QED BY <1>2, <2>1, StreamAssumption
<1>4. ASSUME NEW i \in 1..n PROVE (i - 1) \div Block < q
  <2> PICK k, m : k = (i - 1) \div Block /\ m = (i - 1) % Block
    OBVIOUS
  <2>1. k \in Nat /\ m \in 0..Block - 1 /\ i - 1 = Block * k + m
    BY Division
  <2>2. ASSUME k >= q PROVE FALSE
    <3>1. Block * k >= Block * q
      BY <1>2, <2>1, <2>2, StreamAssumption
    <3> QED BY <1>2, <2>1, <3>1, StreamAssumption
  <2> QED BY <1>2, <2>1, <2>2
<1> QED BY <1>2, <1>3, <1>4

-----------------------------------------------------------------------------
(* Types.                                                                  *)

Byte == [pt : Nat \X Nat, ks : Nat \X Nat \X Nat]
Text == Nat \X Nat
Piece == {b \in Seq(Byte) : Len(b) \in 1..Block}

LEMMA ChunksType ==
  ASSUME NEW bytes \in Seq(Byte)
  PROVE  Chunks(bytes) \in Seq(Piece)
<1> DEFINE n == Len(bytes)
<1>1. n \in Nat /\ Blocks(n) \in Nat
  BY BlockCount
<1>2. ASSUME NEW b \in 1..Blocks(n)
      PROVE  SubSeq(bytes, (b - 1) * Block + 1, IF b * Block <= n THEN b * Block ELSE n) \in Piece
  <2> PICK lo, hi : lo = (b - 1) * Block + 1 /\ hi = IF b * Block <= n THEN b * Block ELSE n
    OBVIOUS
  <2> PICK u : u = (b - 1) * Block
    OBVIOUS
  <2>a. u \in Nat /\ b * Block = u + Block
    <3>1. b \in Nat /\ b - 1 \in Nat
      BY <1>1
    <3> QED BY <3>1, StreamAssumption
  <2>b. lo = u + 1 /\ hi = IF u + Block <= n THEN u + Block ELSE n
    BY <2>a
  <2>c. lo <= n
    BY BlockCount
  <2>1. lo \in 1..n
    BY <1>1, <2>a, <2>b, <2>c
  <2>2. hi \in lo..n /\ hi - lo + 1 <= Block
    BY <1>1, <2>a, <2>b, <2>1, StreamAssumption
  <2>3. SubSeq(bytes, lo, hi) \in Seq(Byte) /\ Len(SubSeq(bytes, lo, hi)) = hi - lo + 1
    BY <1>1, <2>1, <2>2, SubSeqProperties
  <2> QED BY <2>1, <2>2, <2>3, StreamAssumption DEF Piece
<1>3. Chunks(bytes) \in [1..Blocks(n) -> Piece]
  BY <1>2 DEF Chunks
<1> QED BY <1>1, <1>3, SeqDef

\* The globals of a wrapper, field by field.
IsWrapper(s) ==
    s = [on |-> s.on, iv |-> s.iv, ctr |-> s.ctr, hash |-> s.hash, aad_len |-> s.aad_len,
         payload_len |-> s.payload_len, tx_ks |-> s.tx_ks, tx_ks_pos |-> s.tx_ks_pos,
         tx_gmac |-> s.tx_gmac, rx_ks |-> s.rx_ks, rx_ks_pos |-> s.rx_ks_pos,
         rx_gmac |-> s.rx_gmac, out |-> s.out, overrun |-> s.overrun]

\* Buffers with room for a byte, and the keystream they go with.
Buffers(ks, pos, gmac) ==
    /\ ks[1] \in Nat /\ ks[2] \in Nat
    /\ pos \in 0..End /\ gmac \in Seq(Byte) /\ Len(gmac) < End

\* A wrapper that writes bytes of a set O.
Wrapper(s, O) ==
    /\ IsWrapper(s)
    /\ s.on \in BOOLEAN /\ s.overrun \in BOOLEAN
    /\ s.iv \in Nat /\ s.ctr \in Nat /\ s.aad_len \in Nat /\ s.payload_len \in Nat
    /\ s.hash \in Seq(Piece) /\ s.out \in Seq(O)
    /\ Buffers(s.tx_ks, s.tx_ks_pos, s.tx_gmac)
    /\ Buffers(s.rx_ks, s.rx_ks_pos, s.rx_gmac)

LEMMA KsByteType ==
  ASSUME NEW iv \in Nat, NEW counter \in Nat, NEW pos \in Nat
  PROVE  KsByte(iv, counter, pos) \in Nat \X Nat \X Nat
BY Division, StreamAssumption DEF KsByte

LEMMA BufferedType ==
  ASSUME NEW gmac \in Seq(Byte), Len(gmac) < End, NEW c \in Byte
  PROVE  /\ Buffered(gmac, c) \in Seq(Byte) /\ Len(Buffered(gmac, c)) < End
         /\ Absorbed(gmac, c) \in Seq(Piece)
<1>1. Append(gmac, c) \in Seq(Byte) /\ Len(Append(gmac, c)) = Len(gmac) + 1
  BY DEF Byte
<1>2. Chunks(Append(gmac, c)) \in Seq(Piece)
  BY <1>1, ChunksType
<1>3. << >> \in Seq(Piece) /\ << >> \in Seq(Byte) /\ Len(<< >>) = 0
  OBVIOUS
<1>4. Len(gmac) \in Nat
  OBVIOUS
<1> QED BY <1>1, <1>2, <1>3, <1>4, EndPositive DEF Buffered, Absorbed

LEMMA InitType ==
  ASSUME NEW O, NEW s, Wrapper(s, O), NEW iv \in Nat
  PROVE  /\ Wrapper(fuse_init(s, iv), O)
         /\ fuse_init(s, iv).iv = iv /\ fuse_init(s, iv).ctr = 2 /\ fuse_init(s, iv).on
         /\ fuse_init(s, iv).hash = << >> /\ fuse_init(s, iv).out = << >>
         /\ fuse_init(s, iv).aad_len = 0 /\ fuse_init(s, iv).payload_len = 0
         /\ fuse_init(s, iv).tx_ks_pos = End /\ fuse_init(s, iv).tx_gmac = << >>
         /\ fuse_init(s, iv).rx_ks_pos = s.rx_ks_pos /\ fuse_init(s, iv).rx_gmac = s.rx_gmac
<1>1. << >> \in Seq(Piece) /\ << >> \in Seq(Byte) /\ << >> \in Seq(O) /\ Len(<< >>) = 0
  OBVIOUS
<1> PICK v, none, t : v = TRUE /\ none = << >> /\ t = fuse_init(s, iv)
  OBVIOUS
<1>2. t = [s EXCEPT !.iv = iv, !.ctr = 2, !.hash = none, !.aad_len = 0, !.payload_len = 0,
                    !.tx_ks_pos = End, !.tx_gmac = none, !.on = v, !.out = none]
  BY DEF fuse_init
<1>3. t = [on |-> v, iv |-> iv, ctr |-> 2, hash |-> none, aad_len |-> 0,
           payload_len |-> 0, tx_ks |-> s.tx_ks, tx_ks_pos |-> End,
           tx_gmac |-> none, rx_ks |-> s.rx_ks, rx_ks_pos |-> s.rx_ks_pos,
           rx_gmac |-> s.rx_gmac, out |-> none, overrun |-> s.overrun]
  BY <1>2 DEF Wrapper, IsWrapper
<1>4. Wrapper(t, O)
  BY <1>1, <1>3, EndPositive DEF Wrapper, IsWrapper, Buffers
<1> QED BY <1>3, <1>4

LEMMA AadType ==
  ASSUME NEW O, NEW s, Wrapper(s, O), NEW bytes \in Seq(Byte)
  PROVE  \E t : /\ t = fuse_update_enc(s, bytes) /\ Wrapper(t, O)
               /\ t.hash = s.hash \o Chunks(bytes) /\ t.aad_len = s.aad_len + Len(bytes)
               /\ t.on = s.on /\ t.iv = s.iv /\ t.ctr = s.ctr /\ t.out = s.out
               /\ t.payload_len = s.payload_len
               /\ t.tx_ks = s.tx_ks /\ t.tx_ks_pos = s.tx_ks_pos /\ t.tx_gmac = s.tx_gmac
               /\ t.rx_ks = s.rx_ks /\ t.rx_ks_pos = s.rx_ks_pos /\ t.rx_gmac = s.rx_gmac
<1> PICK h, t : h = s.hash \o Chunks(bytes) /\ t = fuse_update_enc(s, bytes)
  OBVIOUS
<1>1. t = [s EXCEPT !.aad_len = s.aad_len + Len(bytes), !.hash = h]
  BY DEF fuse_update_enc, Wrapper, IsWrapper
<1>2. /\ IsWrapper(t) /\ t.aad_len = s.aad_len + Len(bytes) /\ t.hash = h
      /\ t.on = s.on
      /\ t.tx_ks = s.tx_ks /\ t.tx_ks_pos = s.tx_ks_pos /\ t.tx_gmac = s.tx_gmac
      /\ t.rx_ks = s.rx_ks /\ t.rx_ks_pos = s.rx_ks_pos /\ t.rx_gmac = s.rx_gmac
      /\ t.iv = s.iv /\ t.ctr = s.ctr /\ t.payload_len = s.payload_len
      /\ t.out = s.out /\ t.overrun = s.overrun
  BY <1>1 DEF Wrapper, IsWrapper
<1>3. h \in Seq(Piece) /\ s.aad_len + Len(bytes) \in Nat
  BY ChunksType DEF Wrapper
<1>4. Wrapper(t, O)
  BY <1>2, <1>3 DEF Wrapper
<1> QED BY <1>2, <1>4

-----------------------------------------------------------------------------
(* One byte stored.                                                        *)

\* The wrapper once it has keystream for a byte to send, and that byte.
Ready(s) == IF s.tx_ks_pos = End THEN tx_generate_keystream(s) ELSE s
Cipher(s, p) == [pt |-> p, ks |-> KsByte(Ready(s).tx_ks[1], Ready(s).tx_ks[2], Ready(s).tx_ks_pos)]

\* All but the cipher's own fields.
Frame(s, t) ==
    /\ IsWrapper(t)
    /\ t.on = s.on /\ t.iv = s.iv /\ t.aad_len = s.aad_len /\ t.overrun = s.overrun

LEMMA ReadyToSend ==
  ASSUME NEW O, NEW s, Wrapper(s, O)
  PROVE  /\ Wrapper(Ready(s), O) /\ Frame(s, Ready(s))
         /\ Ready(s).hash = s.hash /\ Ready(s).payload_len = s.payload_len
         /\ Ready(s).tx_gmac = s.tx_gmac /\ Ready(s).out = s.out
         /\ Ready(s).rx_ks = s.rx_ks /\ Ready(s).rx_ks_pos = s.rx_ks_pos
         /\ Ready(s).rx_gmac = s.rx_gmac
         /\ s.tx_ks_pos = End =>
              /\ Ready(s).tx_ks_pos = 0 /\ Ready(s).ctr = s.ctr + Wide
              /\ Ready(s).tx_ks = <<s.iv, s.ctr>>
         /\ s.tx_ks_pos # End => Ready(s) = s
<1>1. CASE s.tx_ks_pos # End
  BY <1>1 DEF Ready, Frame, Wrapper
<1>2. CASE s.tx_ks_pos = End
  <2> PICK t, k : t = Ready(s) /\ k = <<s.iv, s.ctr>>
    OBVIOUS
  <2>1. t = [s EXCEPT !.tx_ks = k, !.ctr = s.ctr + Wide, !.tx_ks_pos = 0]
    BY <1>2 DEF Ready, tx_generate_keystream, Wrapper, IsWrapper
  <2>2. /\ IsWrapper(t) /\ t.tx_ks = k /\ t.ctr = s.ctr + Wide /\ t.tx_ks_pos = 0
        /\ t.on = s.on /\ t.aad_len = s.aad_len /\ t.hash = s.hash
        /\ t.tx_gmac = s.tx_gmac /\ t.payload_len = s.payload_len /\ t.out = s.out
        /\ t.rx_ks = s.rx_ks /\ t.rx_ks_pos = s.rx_ks_pos /\ t.rx_gmac = s.rx_gmac
        /\ t.iv = s.iv /\ t.overrun = s.overrun
    BY <2>1 DEF Wrapper, IsWrapper
  <2>3. k[1] \in Nat /\ k[2] \in Nat
    BY DEF Wrapper
  <2>4. Wrapper(t, O)
    <3>1. Buffers(s.tx_ks, s.tx_ks_pos, s.tx_gmac) /\ s.ctr \in Nat
      BY DEF Wrapper
    <3>2. 0 \in 0..End /\ s.ctr + Wide \in Nat
      BY <3>1, EndPositive, StreamAssumption
    <3>3. Buffers(k, 0, s.tx_gmac)
      BY <2>3, <3>1, <3>2 DEF Buffers
    <3> QED BY <2>2, <3>2, <3>3 DEF Wrapper
  <2> QED BY <1>2, <2>2, <2>4 DEF Frame
<1> QED BY <1>1, <1>2

LEMMA StoredByte ==
  ASSUME NEW s, Wrapper(s, Byte), NEW p \in Text, NEW t, t = fuse_inline_enc_8(s, p)
  PROVE  /\ Wrapper(t, Byte) /\ Frame(s, t) /\ Cipher(s, p) \in Byte
         /\ t.tx_ks = Ready(s).tx_ks /\ t.tx_ks_pos = Ready(s).tx_ks_pos + 1
         /\ t.ctr = Ready(s).ctr /\ t.tx_gmac = Buffered(s.tx_gmac, Cipher(s, p))
         /\ t.payload_len = s.payload_len + 1
         /\ t.hash = s.hash \o Absorbed(s.tx_gmac, Cipher(s, p))
         /\ t.out = Append(s.out, Cipher(s, p))
<1> PICK g, c : g = Ready(s) /\ c = Cipher(s, p)
  OBVIOUS
<1>r. /\ Wrapper(g, Byte) /\ Frame(s, g) /\ g.tx_gmac = s.tx_gmac /\ g.hash = s.hash
      /\ g.payload_len = s.payload_len /\ g.out = s.out
      /\ s.tx_ks_pos = End => g.tx_ks_pos = 0
      /\ s.tx_ks_pos # End => g = s
  BY ReadyToSend
<1>1. Wrapper(g, Byte) /\ g.tx_ks_pos \in 0..End - 1
  BY <1>r, EndPositive DEF Wrapper, Buffers
<1>2. c \in Byte
  <2>1. g.tx_ks[1] \in Nat /\ g.tx_ks[2] \in Nat /\ g.tx_ks_pos \in Nat
    BY <1>1, EndPositive DEF Wrapper, Buffers
  <2> QED BY <2>1, KsByteType DEF Cipher, Byte, Text
<1>3. /\ Buffered(g.tx_gmac, c) \in Seq(Byte) /\ Len(Buffered(g.tx_gmac, c)) < End
      /\ Absorbed(g.tx_gmac, c) \in Seq(Piece)
  BY <1>1, <1>2, BufferedType DEF Wrapper, Buffers
<1> PICK b, h, o : /\ b = Buffered(g.tx_gmac, c) /\ h = g.hash \o Absorbed(g.tx_gmac, c)
                   /\ o = Append(g.out, c)
  OBVIOUS
<1>4. t = [g EXCEPT !.tx_ks_pos = g.tx_ks_pos + 1, !.tx_gmac = b, !.hash = h,
                    !.payload_len = g.payload_len + 1, !.out = o]
  BY <1>1 DEF fuse_inline_enc_8, Ready, Cipher, Wrapper, IsWrapper
<1>5. /\ IsWrapper(t) /\ t.tx_ks_pos = g.tx_ks_pos + 1 /\ t.tx_gmac = b /\ t.hash = h
      /\ t.payload_len = g.payload_len + 1 /\ t.out = o
      /\ t.on = g.on /\ t.iv = g.iv /\ t.aad_len = g.aad_len /\ t.overrun = g.overrun
      /\ t.ctr = g.ctr /\ t.tx_ks = g.tx_ks
      /\ t.rx_ks = g.rx_ks /\ t.rx_ks_pos = g.rx_ks_pos /\ t.rx_gmac = g.rx_gmac
  BY <1>1, <1>4 DEF Wrapper, IsWrapper
<1>6. h \in Seq(Piece) /\ o \in Seq(Byte)
  BY <1>1, <1>2, <1>3 DEF Wrapper
<1>7. Wrapper(t, Byte)
  <2>1. Buffers(g.tx_ks, g.tx_ks_pos, g.tx_gmac)
    BY <1>1 DEF Wrapper
  <2>2. g.tx_ks_pos + 1 \in 0..End
    BY <1>1, EndPositive
  <2>3. Buffers(g.tx_ks, g.tx_ks_pos + 1, b)
    BY <1>3, <2>1, <2>2 DEF Buffers
  <2>4. g.payload_len + 1 \in Nat
    BY <1>1 DEF Wrapper
  <2> QED BY <1>1, <1>5, <1>6, <2>3, <2>4 DEF Wrapper
<1> QED BY <1>r, <1>2, <1>5, <1>7 DEF Frame

\* The positions in a buffer after k stored bytes.
Position(k) == IF k % End = 0 THEN End ELSE k % End
Positions(s, k) == Len(s.tx_gmac) = k % End /\ s.tx_ks_pos = Position(k)

LEMMA NextPosition ==
  ASSUME NEW k \in Nat
  PROVE  /\ k % End \in 0..End - 1
         /\ (k + 1) % End = IF (k % End) + 1 = End THEN 0 ELSE (k % End) + 1
<1> PICK d : d = End
  OBVIOUS
<1>1. d \in Nat /\ d >= 1
  BY EndPositive
<1> PICK q, r : q = k \div d /\ r = k % d
  OBVIOUS
<1>2. q \in Nat /\ r \in 0..d - 1 /\ k = d * q + r
  BY <1>1
<1> PICK q1, r1 : q1 = (k + 1) \div d /\ r1 = (k + 1) % d
  OBVIOUS
<1>3. q1 \in Nat /\ r1 \in 0..d - 1 /\ k + 1 = d * q1 + r1
  BY <1>1
<1>4. /\ d * q \in Nat /\ d * q1 \in Nat
      /\ d * (q + 1) = d * q + d /\ d * (q + 2) = d * q + d + d
      /\ d * (q1 + 1) = d * q1 + d
  BY <1>1, <1>2, <1>3
<1>5. CASE q1 + 1 <= q
  <2>1. d * (q1 + 1) <= d * q
    BY <1>1, <1>2, <1>3, <1>5
  <2> QED BY <1>1, <1>2, <1>3, <1>4, <2>1
<1>6. CASE q + 2 <= q1
  <2>1. d * (q + 2) <= d * q1
    BY <1>1, <1>2, <1>3, <1>6
  <2> QED BY <1>1, <1>2, <1>3, <1>4, <2>1
<1>7. CASE q1 = q
  BY <1>1, <1>2, <1>3, <1>4, <1>7
<1>8. CASE q1 = q + 1
  BY <1>1, <1>2, <1>3, <1>4, <1>8
<1>9. r1 = IF r + 1 = d THEN 0 ELSE r + 1
  BY <1>1, <1>2, <1>3, <1>5, <1>6, <1>7, <1>8
<1> QED BY <1>2, <1>9

LEMMA StorePosition ==
  ASSUME NEW s, Wrapper(s, Byte), NEW k \in Nat, Positions(s, k), NEW p \in Text
  PROVE  Positions(fuse_inline_enc_8(s, p), k + 1)
<1> PICK t, c : t = fuse_inline_enc_8(s, p) /\ c = Cipher(s, p)
  OBVIOUS
<1>1. /\ c \in Byte /\ t.tx_ks_pos = Ready(s).tx_ks_pos + 1
      /\ t.tx_gmac = Buffered(s.tx_gmac, c)
  BY StoredByte
<1>2. /\ s.tx_ks_pos = End => Ready(s).tx_ks_pos = 0
      /\ s.tx_ks_pos # End => Ready(s) = s
  BY ReadyToSend
<1>3. Len(t.tx_gmac) = IF Len(s.tx_gmac) + 1 = End THEN 0 ELSE Len(s.tx_gmac) + 1
  <2>1. s.tx_gmac \in Seq(Byte)
    BY DEF Wrapper, Buffers
  <2>2. Len(Append(s.tx_gmac, c)) = Len(s.tx_gmac) + 1
    BY <1>1, <2>1, AppendProperties
  <2> QED BY <1>1, <2>2 DEF Buffered
<1>4. /\ k % End \in 0..End - 1
      /\ (k + 1) % End = IF (k % End) + 1 = End THEN 0 ELSE (k % End) + 1
  BY NextPosition
<1> QED BY <1>1, <1>2, <1>3, <1>4, EndPositive DEF Positions, Position

-----------------------------------------------------------------------------
(* Keystream: every byte written is under a counter the engine has left    *)
(* behind, and no byte left in the buffer has been written with.           *)

\* What is left of the buffer: of this message, and behind the counter.
Reserve(s) == s.tx_ks_pos < End => s.tx_ks[1] = s.iv /\ s.tx_ks[2] + Wide <= s.ctr

Behind(s, ks) ==
    /\ ks[1] = s.iv /\ ks[2] < s.ctr
    /\ \A pos \in s.tx_ks_pos..End - 1 : ks # KsByte(s.tx_ks[1], s.tx_ks[2], pos)

Once(S) == \A b, c \in S : b.ks = c.ks => b.pt = c.pt

Keys(s) ==
    /\ Reserve(s)
    /\ \A c \in Range(s.out) : Behind(s, c.ks)
    /\ Once(Range(s.out))

LEMMA RangeAppend ==
  ASSUME NEW S, NEW seq \in Seq(S), NEW x \in S
  PROVE  Range(Append(seq, x)) = Range(seq) \cup {x}
<1>1. /\ Len(seq) \in Nat /\ Len(Append(seq, x)) = Len(seq) + 1
      /\ DOMAIN seq = 1..Len(seq) /\ DOMAIN Append(seq, x) = 1..Len(seq) + 1
      /\ Append(seq, x)[Len(seq) + 1] = x
      /\ \A i \in 1..Len(seq) : Append(seq, x)[i] = seq[i]
  BY AppendProperties, LenProperties
<1> QED BY <1>1 DEF Range

LEMMA StoreKeys ==
  ASSUME NEW s, Wrapper(s, Byte), Keys(s), NEW p \in Text
  PROVE  Keys(fuse_inline_enc_8(s, p))
<1> PICK t, g, c : t = fuse_inline_enc_8(s, p) /\ g = Ready(s) /\ c = Cipher(s, p)
  OBVIOUS
<1>1. /\ Wrapper(t, Byte) /\ t.iv = s.iv /\ c \in Byte
      /\ t.tx_ks = g.tx_ks /\ t.tx_ks_pos = g.tx_ks_pos + 1
      /\ t.ctr = g.ctr /\ t.out = Append(s.out, c)
  BY StoredByte DEF Frame
<1>2. /\ Wrapper(g, Byte) /\ g.iv = s.iv
      /\ s.tx_ks_pos = End => /\ g.tx_ks_pos = 0 /\ g.ctr = s.ctr + Wide
                              /\ g.tx_ks[1] = s.iv /\ g.tx_ks[2] = s.ctr
      /\ s.tx_ks_pos # End => g = s
  BY ReadyToSend DEF Frame
<1>3. s.ctr \in Nat /\ s.out \in Seq(Byte) /\ s.tx_ks_pos \in 0..End /\ g.tx_ks[2] \in Nat
  BY <1>2 DEF Wrapper, Buffers
<1>4. g.tx_ks_pos \in 0..End - 1 /\ g.tx_ks[1] = s.iv /\ g.tx_ks[2] + Wide <= g.ctr
      /\ s.ctr <= g.ctr
  BY <1>2, <1>3, EndPositive, StreamAssumption DEF Keys, Reserve
<1>5. ASSUME NEW b \in Range(s.out), NEW pos \in g.tx_ks_pos..End - 1
      PROVE  b.ks # KsByte(g.tx_ks[1], g.tx_ks[2], pos)
  <2>1. Behind(s, b.ks)
    BY DEF Keys
  <2>2. CASE s.tx_ks_pos # End
    BY <1>2, <2>1, <2>2 DEF Behind
  <2>3. CASE s.tx_ks_pos = End
    <3>1. b.ks[2] < s.ctr
      BY <2>1 DEF Behind
    <3>2. pos \in Nat /\ pos \div Block \in Nat
      BY <1>4, EndPositive, Division
    <3>3. KsByte(g.tx_ks[1], g.tx_ks[2], pos)[2] = s.ctr + pos \div Block
      BY <1>2, <2>3 DEF KsByte
    <3>4. b \in Byte
      BY <1>3, RangeOfSeq
    <3>5. b.ks[2] \in Nat
      BY <3>4 DEF Byte
    <3> QED BY <1>3, <3>1, <3>2, <3>3, <3>5
  <2> QED BY <2>2, <2>3
<1>6. c.ks = KsByte(g.tx_ks[1], g.tx_ks[2], g.tx_ks_pos)
  BY DEF Cipher
<1>7. Behind(t, c.ks)
  <2>1. c.ks[1] = t.iv /\ c.ks[2] = g.tx_ks[2] + g.tx_ks_pos \div Block
    BY <1>1, <1>4, <1>6 DEF KsByte
  <2>2. g.tx_ks_pos \div Block < Wide /\ g.tx_ks_pos \div Block \in Nat
    BY <1>4, InsideBuffer, Division, EndPositive
  <2>3. c.ks[2] < t.ctr
    <3>1. g.ctr \in Nat
      BY <1>2 DEF Wrapper
    <3> QED BY <1>1, <1>3, <1>4, <2>1, <2>2, <3>1, StreamAssumption
  <2>4. ASSUME NEW pos \in t.tx_ks_pos..End - 1, c.ks = KsByte(t.tx_ks[1], t.tx_ks[2], pos)
        PROVE  FALSE
    <3>1. pos \in Nat /\ g.tx_ks_pos \in Nat /\ pos > g.tx_ks_pos
      BY <1>1, <1>4, EndPositive
    <3>2. KsByte(g.tx_ks[1], g.tx_ks[2], pos) = KsByte(g.tx_ks[1], g.tx_ks[2], g.tx_ks_pos)
      BY <1>1, <1>6, <2>4
    <3>3. pos = g.tx_ks_pos
      BY <1>3, <3>1, <3>2, OtherByte
    <3> QED BY <3>1, <3>3
  <2> QED BY <2>1, <2>3, <2>4 DEF Behind
<1>8. Range(t.out) = Range(s.out) \cup {c}
  BY <1>1, <1>3, RangeAppend
<1>9. ASSUME NEW b \in Range(s.out) PROVE Behind(t, b.ks) /\ b.ks # c.ks
  <2>1. b.ks[1] = s.iv /\ b.ks[2] < s.ctr
    BY DEF Keys, Behind
  <2>2. b.ks[2] \in Nat
    <3>1. b \in Byte
      BY <1>3, RangeOfSeq
    <3> QED BY <3>1 DEF Byte
  <2>3. b.ks[2] < t.ctr
    <3>1. g.ctr \in Nat
      BY <1>2 DEF Wrapper
    <3> QED BY <1>1, <1>3, <1>4, <2>1, <2>2, <3>1
  <2>4. b.ks # c.ks
    BY <1>4, <1>5, <1>6
  <2>5. \A pos \in t.tx_ks_pos..End - 1 : b.ks # KsByte(t.tx_ks[1], t.tx_ks[2], pos)
    BY <1>1, <1>4, <1>5, EndPositive
  <2> QED BY <1>1, <2>1, <2>3, <2>4, <2>5 DEF Behind
<1>10. Reserve(t)
  BY <1>1, <1>4 DEF Reserve
<1>11. Once(Range(t.out))
  BY <1>8, <1>9 DEF Keys, Once
<1>12. \A b \in Range(t.out) : Behind(t, b.ks)
  BY <1>7, <1>8, <1>9
<1> QED BY <1>10, <1>11, <1>12 DEF Keys

-----------------------------------------------------------------------------
(* The sender's calls.                                                     *)

\* A sender that has stored k bytes one by one.
Sender(s, k) == Wrapper(s, Byte) /\ Positions(s, k) /\ Keys(s)

LEMMA StoreOne ==
  ASSUME NEW s, NEW k \in Nat, Sender(s, k), NEW p \in Text
  PROVE  Sender(fuse_inline_enc_8(s, p), k + 1) /\ Frame(s, fuse_inline_enc_8(s, p))
BY StoredByte, StorePosition, StoreKeys DEF Sender

LEMMA StoreTwo ==
  ASSUME NEW s, NEW k \in Nat, Sender(s, k), NEW p \in Text, NEW q \in Text
  PROVE  /\ Sender(fuse_inline_enc_8(fuse_inline_enc_8(s, p), q), k + 2)
         /\ Frame(s, fuse_inline_enc_8(fuse_inline_enc_8(s, p), q))
<1> PICK t : t = fuse_inline_enc_8(s, p)
  OBVIOUS
<1>1. Sender(t, k + 1) /\ Frame(s, t)
  BY StoreOne
<1>2. Sender(fuse_inline_enc_8(t, q), k + 1 + 1) /\ Frame(t, fuse_inline_enc_8(t, q))
  BY <1>1, StoreOne
<1>3. k + 1 + 1 = k + 2
  OBVIOUS
<1> QED BY <1>1, <1>2, <1>3 DEF Frame

LEMMA StoreFour ==
  ASSUME NEW s, NEW k \in Nat, Sender(s, k), NEW ps, \A i \in 1..4 : ps[i] \in Text
  PROVE  Sender(fuse_inline_enc_32(s, ps), k + 4) /\ Frame(s, fuse_inline_enc_32(s, ps))
<1> PICK t : t = fuse_inline_enc_16(s, ps)
  OBVIOUS
<1>1. Sender(t, k + 2) /\ Frame(s, t)
  BY StoreTwo DEF fuse_inline_enc_16
<1>2. /\ Sender(fuse_inline_enc_32(s, ps), k + 2 + 2)
      /\ Frame(t, fuse_inline_enc_32(s, ps))
  BY <1>1, StoreTwo DEF fuse_inline_enc_32
<1>3. k + 2 + 2 = k + 4
  OBVIOUS
<1> QED BY <1>1, <1>2, <1>3 DEF Frame

\* A store of any width the pass rewrites.
LEMMA Stored ==
  ASSUME NEW s, NEW k \in Nat, Sender(s, k), NEW ps \in Seq(Text), Len(ps) \in {1, 2, 4, 8}
  PROVE  Sender(Enc(s, ps), k + Len(ps)) /\ Frame(s, Enc(s, ps))
<1>1. \A i \in 1..Len(ps) : ps[i] \in Text
  BY ElementOfSeq
<1>2. CASE Len(ps) = 1
  BY <1>1, <1>2, StoreOne DEF Enc
<1>3. CASE Len(ps) = 2
  BY <1>1, <1>3, StoreTwo DEF Enc, fuse_inline_enc_16
<1>4. CASE Len(ps) = 4
  BY <1>1, <1>4, StoreFour DEF Enc
<1>5. CASE Len(ps) = 8
  <2> PICK t, qs : t = fuse_inline_enc_32(s, ps) /\ qs = SubSeq(ps, 5, 8)
    OBVIOUS
  <2>1. \A i \in 1..4 : qs[i] \in Text
    BY <1>1, <1>5, SubSeqProperties
  <2>2. Sender(t, k + 4) /\ Frame(s, t)
    BY <1>1, <1>5, StoreFour
  <2>a. k + 4 \in Nat /\ Sender(t, k + 4)
    BY <2>2
  <2>3. Sender(fuse_inline_enc_32(t, qs), k + 4 + 4) /\ Frame(t, fuse_inline_enc_32(t, qs))
    BY <2>1, <2>a, StoreFour
  <2>4. k + 4 + 4 = k + 8
    OBVIOUS
  <2>5. Enc(s, ps) = fuse_inline_enc_32(t, qs)
    BY <1>5 DEF Enc, fuse_inline_enc_64
  <2> QED BY <1>5, <2>2, <2>3, <2>4, <2>5 DEF Frame
<1> QED BY <1>2, <1>3, <1>4, <1>5

\* What the block loops and the tail routine write.
CipherText(s, ps) == [i \in DOMAIN ps |-> [pt |-> ps[i], ks |-> KsByte(s.iv, s.ctr, i - 1)]]

LEMMA CipherTextType ==
  ASSUME NEW s, s.iv \in Nat, s.ctr \in Nat, NEW ps \in Seq(Text)
  PROVE  /\ CipherText(s, ps) \in Seq(Byte)
         /\ Range(CipherText(s, ps)) =
                {[pt |-> ps[i], ks |-> KsByte(s.iv, s.ctr, i - 1)] : i \in 1..Len(ps)}
<1>1. Len(ps) \in Nat /\ DOMAIN ps = 1..Len(ps) /\ \A i \in 1..Len(ps) : ps[i] \in Text
  BY LenProperties, ElementOfSeq
<1>2. ASSUME NEW i \in 1..Len(ps)
      PROVE  [pt |-> ps[i], ks |-> KsByte(s.iv, s.ctr, i - 1)] \in Byte
  <2>1. i - 1 \in Nat
    BY <1>1
  <2> QED BY <1>1, <2>1, KsByteType DEF Byte, Text
<1>3. CipherText(s, ps) \in [1..Len(ps) -> Byte]
  BY <1>1, <1>2 DEF CipherText
<1>4. CipherText(s, ps) \in Seq(Byte)
  BY <1>1, <1>3, SeqDef
<1> QED BY <1>1, <1>4 DEF CipherText, Range

LEMMA ProcessedType ==
  ASSUME NEW s, Wrapper(s, Byte), NEW ps \in Seq(Text), NEW t, t = process_fused(s, ps)
  PROVE  /\ Wrapper(t, Byte) /\ Frame(s, t) /\ t.ctr = s.ctr + Blocks(Len(ps))
         /\ t.tx_ks = s.tx_ks /\ t.tx_ks_pos = s.tx_ks_pos /\ t.tx_gmac = s.tx_gmac
         /\ t.out = s.out \o CipherText(s, ps)
         /\ t.hash = s.hash \o Chunks(CipherText(s, ps))
         /\ t.payload_len = s.payload_len + Len(ps)
<1> PICK cs, h, o, n : /\ cs = CipherText(s, ps) /\ h = s.hash \o Chunks(cs)
                       /\ o = s.out \o cs /\ n = Len(ps)
  OBVIOUS
<1>1. n \in Nat /\ Blocks(n) \in Nat
  BY LenProperties, BlockCount
<1>2. cs \in Seq(Byte)
  BY CipherTextType DEF Wrapper
<1>3. h \in Seq(Piece) /\ o \in Seq(Byte)
  BY <1>2, ChunksType, ConcatProperties DEF Wrapper
<1>4. t = [s EXCEPT !.hash = h, !.ctr = s.ctr + Blocks(n), !.payload_len = s.payload_len + n,
                    !.out = o]
  BY DEF process_fused, CipherText, Wrapper, IsWrapper
<1>5. /\ IsWrapper(t) /\ t.hash = h /\ t.ctr = s.ctr + Blocks(n)
      /\ t.payload_len = s.payload_len + n /\ t.out = o
      /\ t.on = s.on /\ t.iv = s.iv /\ t.aad_len = s.aad_len /\ t.overrun = s.overrun
      /\ t.tx_ks = s.tx_ks /\ t.tx_ks_pos = s.tx_ks_pos /\ t.tx_gmac = s.tx_gmac
      /\ t.rx_ks = s.rx_ks /\ t.rx_ks_pos = s.rx_ks_pos /\ t.rx_gmac = s.rx_gmac
  BY <1>4 DEF Wrapper, IsWrapper
<1>6. s.ctr + Blocks(n) \in Nat /\ s.payload_len + n \in Nat
  BY <1>1 DEF Wrapper
<1>7. Wrapper(t, Byte)
  BY <1>3, <1>5, <1>6 DEF Wrapper
<1> QED BY <1>5, <1>7 DEF Frame

LEMMA ProcessedKeys ==
  ASSUME NEW s, Wrapper(s, Byte), Keys(s), NEW ps \in Seq(Text)
  PROVE  Keys(process_fused(s, ps))
<1> PICK t, n : t = process_fused(s, ps) /\ n = Len(ps)
  OBVIOUS
<1> DEFINE New == {[pt |-> ps[i], ks |-> KsByte(s.iv, s.ctr, i - 1)] : i \in 1..n}
<1>1. /\ Wrapper(t, Byte) /\ t.iv = s.iv /\ t.ctr = s.ctr + Blocks(n)
      /\ t.tx_ks = s.tx_ks /\ t.tx_ks_pos = s.tx_ks_pos /\ t.out = s.out \o CipherText(s, ps)
  BY ProcessedType DEF Frame
<1>2. /\ n \in Nat /\ Blocks(n) \in Nat
      /\ \A i \in 1..n : (i - 1) \div Block < Blocks(n)
  BY LenProperties, BlockCount
<1>3. /\ s.iv \in Nat /\ s.ctr \in Nat /\ s.out \in Seq(Byte) /\ s.tx_ks_pos \in 0..End
      /\ s.tx_ks[2] \in Nat
  BY DEF Wrapper, Buffers
<1>4. Range(t.out) = Range(s.out) \cup New
  BY <1>1, <1>3, CipherTextType, RangeConcatenation
<1>5. Reserve(t)
  BY <1>1, <1>2, <1>3, StreamAssumption DEF Keys, Reserve
<1>6. ASSUME NEW c \in New
      PROVE  /\ c.ks[1] = s.iv /\ c.ks[2] \in Nat /\ c.ks[2] >= s.ctr /\ c.ks[2] < t.ctr
  <2> PICK i \in 1..n : c = [pt |-> ps[i], ks |-> KsByte(s.iv, s.ctr, i - 1)]
    OBVIOUS
  <2>1. (i - 1) \div Block \in Nat /\ (i - 1) \div Block < Blocks(n)
    BY <1>2, Division
  <2>2. c.ks[1] = s.iv /\ c.ks[2] = s.ctr + (i - 1) \div Block
    BY DEF KsByte
  <2> QED BY <1>1, <1>2, <1>3, <2>1, <2>2
<1>7. ASSUME NEW c \in Range(s.out)
      PROVE  c.ks[1] = s.iv /\ c.ks[2] \in Nat /\ c.ks[2] < s.ctr /\ Behind(s, c.ks)
  <2>1. c \in Byte
    BY <1>3, RangeOfSeq
  <2> QED BY <2>1 DEF Keys, Behind, Byte
<1>8. ASSUME NEW c \in New PROVE Behind(t, c.ks)
  <2>1. ASSUME NEW pos \in t.tx_ks_pos..End - 1, c.ks = KsByte(t.tx_ks[1], t.tx_ks[2], pos)
        PROVE  FALSE
    <3>1. pos \in 0..End - 1 /\ s.tx_ks_pos < End
      BY <1>1, <1>3, EndPositive
    <3>2. pos \div Block < Wide /\ pos \div Block \in Nat
      BY <3>1, InsideBuffer, Division, EndPositive
    <3>3. c.ks[2] = s.tx_ks[2] + pos \div Block
      BY <1>1, <2>1 DEF KsByte
    <3>4. s.tx_ks[2] + Wide <= s.ctr
      BY <3>1 DEF Keys, Reserve
    <3>5. c.ks[2] >= s.ctr
      BY <1>6
    <3>6. s.tx_ks[2] + pos \div Block < s.ctr
      <4> PICK q \in Nat, x \in Nat, y \in Nat :
             q = pos \div Block /\ x = s.tx_ks[2] /\ y = s.ctr
        BY <1>3, <3>2
      <4>1. q < Wide /\ x + Wide <= y
        BY <3>2, <3>4
      <4>2. x + q < y
        BY <4>1, StreamAssumption
      <4> QED BY <4>2
    <3> QED BY <1>3, <3>2, <3>3, <3>5, <3>6
  <2> QED BY <1>1, <1>6, <2>1 DEF Behind
<1>9. ASSUME NEW c \in Range(s.out) PROVE Behind(t, c.ks)
  BY <1>1, <1>2, <1>3, <1>7 DEF Behind
<1>10. ASSUME NEW b \in New, NEW c \in New, b.ks = c.ks PROVE b.pt = c.pt
  <2> PICK i \in 1..n : b = [pt |-> ps[i], ks |-> KsByte(s.iv, s.ctr, i - 1)]
    OBVIOUS
  <2> PICK j \in 1..n : c = [pt |-> ps[j], ks |-> KsByte(s.iv, s.ctr, j - 1)]
    OBVIOUS
  <2>1. i - 1 \in Nat /\ j - 1 \in Nat
    BY <1>2
  <2>2. KsByte(s.iv, s.ctr, i - 1) = KsByte(s.iv, s.ctr, j - 1)
    BY <1>10
  <2>3. i - 1 = j - 1
    BY <1>3, <2>1, <2>2, OtherByte
  <2>4. i = j
    BY <1>2, <2>3
  <2> QED BY <2>4
<1> HIDE DEF New
<1>11. Once(Range(t.out))
  <2>1. ASSUME NEW b \in Range(s.out), NEW c \in New PROVE b.ks # c.ks
    BY <1>3, <1>6, <1>7
  <2> QED BY <1>4, <1>10, <2>1 DEF Keys, Once
<1> QED BY <1>4, <1>5, <1>8, <1>9, <1>11 DEF Keys

\* A copy is processed, or runs out of the tail routine's scratch block.
LEMMA Copied ==
  ASSUME NEW s, NEW k \in Nat, Sender(s, k), NEW ps \in Seq(Text),
         NEW t, t = fuse_inline_enc_memcpy(s, ps)
  PROVE  /\ Sender(t, k) /\ t.on = s.on /\ t.iv = s.iv
         /\ k % End = 0 => t.overrun = s.overrun
<1>1. CASE t = process_fused(s, ps)
  BY <1>1, ProcessedType, ProcessedKeys DEF Sender, Positions, Frame
<1>2. CASE t = [s EXCEPT !.overrun = TRUE] /\ k % End # 0
  <2> PICK v : v = TRUE
    OBVIOUS
  <2>1. t = [s EXCEPT !.overrun = v]
    BY <1>2
  <2>2. /\ IsWrapper(t) /\ t.overrun = v
        /\ t.on = s.on /\ t.iv = s.iv /\ t.ctr = s.ctr /\ t.hash = s.hash
        /\ t.aad_len = s.aad_len /\ t.payload_len = s.payload_len
        /\ t.tx_ks = s.tx_ks /\ t.tx_ks_pos = s.tx_ks_pos /\ t.tx_gmac = s.tx_gmac
        /\ t.rx_ks = s.rx_ks /\ t.rx_ks_pos = s.rx_ks_pos /\ t.rx_gmac = s.rx_gmac
        /\ t.out = s.out
    BY <2>1 DEF Sender, Wrapper, IsWrapper
  <2>3. Wrapper(t, Byte)
    BY <2>2 DEF Sender, Wrapper
  <2>4. Positions(t, k) /\ Keys(t)
    BY <2>2 DEF Sender, Positions, Keys, Reserve, Behind
  <2> QED BY <1>2, <2>2, <2>3, <2>4 DEF Sender
<1>3. k % End = 0 => s.tx_gmac = << >> /\ s.tx_ks_pos = End
  <2>1. k % End = 0 => Len(s.tx_gmac) = 0 /\ s.tx_ks_pos = End
    BY DEF Sender, Positions, Position
  <2>2. s.tx_gmac \in Seq(Byte)
    BY DEF Sender, Wrapper, Buffers
  <2> QED BY <2>1, <2>2, EmptySeq
<1>4. t = process_fused(s, ps) \/ (t = [s EXCEPT !.overrun = TRUE] /\ k % End # 0)
  BY <1>3 DEF fuse_inline_enc_memcpy
<1> QED BY <1>1, <1>2, <1>4

LEMMA Initialised ==
  ASSUME NEW s, Wrapper(s, Byte), NEW iv \in Nat
  PROVE  Sender(fuse_init(s, iv), 0) /\ fuse_init(s, iv).iv = iv
         /\ fuse_init(s, iv).overrun = s.overrun
<1> PICK v, none, t : v = TRUE /\ none = << >> /\ t = fuse_init(s, iv)
  OBVIOUS
<1>1. t = [s EXCEPT !.iv = iv, !.ctr = 2, !.hash = none, !.aad_len = 0, !.payload_len = 0,
                    !.tx_ks_pos = End, !.tx_gmac = none, !.on = v, !.out = none]
  BY DEF fuse_init
<1>2. /\ t.iv = iv /\ t.tx_ks_pos = End /\ t.tx_gmac = none /\ t.out = none
      /\ t.overrun = s.overrun
  BY <1>1 DEF Wrapper, IsWrapper
<1>3. Wrapper(t, Byte)
  BY InitType
<1>4. Range(t.out) = {} /\ Len(t.tx_gmac) = 0
  BY <1>2 DEF Range
<1>5. 0 % End = 0
  BY EndPositive
<1>6. Positions(t, 0)
  BY <1>2, <1>4, <1>5 DEF Positions, Position
<1>7. Keys(t)
  BY <1>2, <1>4, EndPositive DEF Keys, Reserve, Once
<1> QED BY <1>2, <1>3, <1>6, <1>7 DEF Sender

\* The additional data touches no position and no byte written.
LEMMA Authenticated ==
  ASSUME NEW s, NEW k \in Nat, Sender(s, k), NEW bytes \in Seq(Byte)
  PROVE  /\ Sender(fuse_update_enc(s, bytes), k)
         /\ fuse_update_enc(s, bytes).on = s.on /\ fuse_update_enc(s, bytes).iv = s.iv
         /\ fuse_update_enc(s, bytes).overrun = s.overrun
<1> PICK t, a, h : t = fuse_update_enc(s, bytes) /\ a = s.aad_len + Len(bytes)
                   /\ h = s.hash \o Chunks(bytes)
  OBVIOUS
<1>1. t = [s EXCEPT !.aad_len = a, !.hash = h]
  BY DEF fuse_update_enc, Sender, Wrapper, IsWrapper
<1>2. /\ t.on = s.on /\ t.iv = s.iv /\ t.overrun = s.overrun /\ t.ctr = s.ctr
      /\ t.tx_ks = s.tx_ks /\ t.tx_ks_pos = s.tx_ks_pos /\ t.tx_gmac = s.tx_gmac
      /\ t.out = s.out
  BY <1>1 DEF Sender, Wrapper, IsWrapper
<1>3. Wrapper(t, Byte)
  BY AadType DEF Sender
<1>4. Positions(t, k) /\ Keys(t)
  BY <1>2 DEF Sender, Positions, Keys, Reserve, Behind
<1> QED BY <1>2, <1>3, <1>4 DEF Sender

\* The end of a message: the rest of a buffer is hashed, the wrapper is off.
Ended(s, gmac) == [s EXCEPT !.hash = @ \o Chunks(gmac), !.on = FALSE]

LEMMA Closed ==
  ASSUME NEW O, NEW s, Wrapper(s, O), NEW gmac \in Seq(Byte), NEW t, t = Ended(s, gmac)
  PROVE  /\ Wrapper(t, O) /\ ~t.on
         /\ t.iv = s.iv /\ t.overrun = s.overrun /\ t.ctr = s.ctr
         /\ t.tx_ks = s.tx_ks /\ t.tx_ks_pos = s.tx_ks_pos /\ t.tx_gmac = s.tx_gmac
         /\ t.out = s.out
         /\ t.rx_ks_pos = s.rx_ks_pos /\ t.rx_gmac = s.rx_gmac
<1> PICK v, h : v = FALSE /\ h = s.hash \o Chunks(gmac)
  OBVIOUS
<1>1. t = [s EXCEPT !.hash = h, !.on = v]
  BY DEF Ended, Wrapper, IsWrapper
<1>2. /\ IsWrapper(t) /\ t.overrun = s.overrun /\ t.on = v
      /\ t.iv = s.iv /\ t.ctr = s.ctr /\ t.hash = h
      /\ t.aad_len = s.aad_len /\ t.payload_len = s.payload_len
      /\ t.tx_ks = s.tx_ks /\ t.tx_ks_pos = s.tx_ks_pos /\ t.tx_gmac = s.tx_gmac
      /\ t.rx_ks = s.rx_ks /\ t.rx_ks_pos = s.rx_ks_pos /\ t.rx_gmac = s.rx_gmac
      /\ t.out = s.out
  BY <1>1 DEF Wrapper, IsWrapper
<1>3. h \in Seq(Piece)
  BY ChunksType, ConcatProperties DEF Wrapper
<1>4. Wrapper(t, O)
  BY <1>2, <1>3 DEF Wrapper
<1> QED BY <1>2, <1>4

-----------------------------------------------------------------------------
(* The receiver's calls.                                                   *)

\* The plaintext written by a read of one byte, and by a copy.
TookByte(s, c, t) ==
    t.out = Append(s.out, Opened(c, KsByte(t.rx_ks[1], t.rx_ks[2],
                                           IF s.rx_ks_pos = End THEN 0 ELSE s.rx_ks_pos)))
TookCopy(s, cs, t) ==
    t.out = s.out \o [i \in DOMAIN cs |-> Opened(cs[i], KsByte(s.iv, s.ctr, i - 1))]

LEMMA LoadedByte ==
  ASSUME NEW s, Wrapper(s, Text), NEW c \in Byte, NEW t, t = fuse_inline_dec_8(s, c)
  PROVE  /\ Wrapper(t, Text) /\ Frame(s, t)
         /\ t.tx_gmac = s.tx_gmac /\ t.tx_ks_pos = s.tx_ks_pos
         /\ t.rx_ks = (IF s.rx_ks_pos = End THEN <<s.iv, s.ctr>> ELSE s.rx_ks)
         /\ t.ctr = (IF s.rx_ks_pos = End THEN s.ctr + Wide ELSE s.ctr)
         /\ t.rx_ks_pos = (IF s.rx_ks_pos = End THEN 0 ELSE s.rx_ks_pos) + 1
         /\ t.rx_gmac = Buffered(s.rx_gmac, c)
         /\ t.hash = s.hash \o Absorbed(s.rx_gmac, c)
         /\ t.payload_len = s.payload_len + 1
         /\ TookByte(s, c, t)
<1> PICK g : g = IF s.rx_ks_pos = End THEN rx_generate_keystream(s) ELSE s
  OBVIOUS
<1>1. /\ Wrapper(g, Text) /\ Frame(s, g) /\ g.rx_ks_pos \in 0..End - 1
      /\ g.tx_gmac = s.tx_gmac /\ g.tx_ks_pos = s.tx_ks_pos /\ g.rx_gmac = s.rx_gmac
      /\ g.hash = s.hash /\ g.payload_len = s.payload_len /\ g.out = s.out
      /\ g.rx_ks = (IF s.rx_ks_pos = End THEN <<s.iv, s.ctr>> ELSE s.rx_ks)
      /\ g.ctr = (IF s.rx_ks_pos = End THEN s.ctr + Wide ELSE s.ctr)
      /\ g.rx_ks_pos = (IF s.rx_ks_pos = End THEN 0 ELSE s.rx_ks_pos)
  <2>1. CASE s.rx_ks_pos # End
    BY <2>1, EndPositive DEF Frame, Wrapper, Buffers
  <2>2. CASE s.rx_ks_pos = End
    <3> PICK k : k = <<s.iv, s.ctr>>
      OBVIOUS
    <3>1. g = [s EXCEPT !.rx_ks = k, !.ctr = s.ctr + Wide, !.rx_ks_pos = 0]
      BY <2>2 DEF rx_generate_keystream, Wrapper, IsWrapper
    <3>2. /\ IsWrapper(g) /\ g.rx_ks = k /\ g.ctr = s.ctr + Wide /\ g.rx_ks_pos = 0
          /\ g.on = s.on /\ g.aad_len = s.aad_len /\ g.hash = s.hash
          /\ g.tx_gmac = s.tx_gmac /\ g.payload_len = s.payload_len /\ g.out = s.out
          /\ g.tx_ks = s.tx_ks /\ g.tx_ks_pos = s.tx_ks_pos /\ g.rx_gmac = s.rx_gmac
          /\ g.iv = s.iv /\ g.overrun = s.overrun
      BY <3>1 DEF Wrapper, IsWrapper
    <3>3. k[1] \in Nat /\ k[2] \in Nat
      BY DEF Wrapper
    <3>4. Buffers(g.rx_ks, g.rx_ks_pos, g.rx_gmac)
      BY <3>2, <3>3, EndPositive DEF Wrapper, Buffers
    <3>5. g.ctr \in Nat
      BY <3>2, StreamAssumption DEF Wrapper
    <3>6. Wrapper(g, Text)
      BY <3>2, <3>4, <3>5 DEF Wrapper
    <3>7. g.rx_ks = <<s.iv, s.ctr>> /\ Frame(s, g) /\ g.rx_ks_pos \in 0..End - 1
      BY <3>2, EndPositive DEF Frame
    <3> QED BY <2>2, <3>2, <3>6, <3>7
  <2> QED BY <2>1, <2>2
<1>2. Opened(c, KsByte(g.rx_ks[1], g.rx_ks[2], g.rx_ks_pos)) \in Text
  BY DEF Opened, Garbage, Byte, Text
<1> PICK b, h, o : /\ b = Buffered(g.rx_gmac, c) /\ h = g.hash \o Absorbed(g.rx_gmac, c)
                   /\ o = Append(g.out, Opened(c, KsByte(g.rx_ks[1], g.rx_ks[2], g.rx_ks_pos)))
  OBVIOUS
<1>3. b \in Seq(Byte) /\ Len(b) < End /\ Absorbed(g.rx_gmac, c) \in Seq(Piece)
  BY <1>1, BufferedType DEF Wrapper, Buffers
<1>4. h \in Seq(Piece) /\ o \in Seq(Text)
  BY <1>1, <1>2, <1>3 DEF Wrapper
<1>5. t = [g EXCEPT !.rx_ks_pos = g.rx_ks_pos + 1, !.rx_gmac = b, !.hash = h,
                    !.payload_len = g.payload_len + 1, !.out = o]
  BY <1>1 DEF fuse_inline_dec_8, Wrapper, IsWrapper
<1>6. /\ IsWrapper(t) /\ t.rx_ks_pos = g.rx_ks_pos + 1 /\ t.rx_gmac = b /\ t.hash = h
      /\ t.payload_len = g.payload_len + 1 /\ t.out = o
      /\ t.on = g.on /\ t.iv = g.iv /\ t.aad_len = g.aad_len /\ t.overrun = g.overrun
      /\ t.ctr = g.ctr /\ t.rx_ks = g.rx_ks
      /\ t.tx_ks = g.tx_ks /\ t.tx_ks_pos = g.tx_ks_pos /\ t.tx_gmac = g.tx_gmac
  <2>1. Wrapper(g, Text)
    BY <1>1
  <2> QED BY <1>5, <2>1 DEF Wrapper, IsWrapper
<1>7. Wrapper(t, Text)
  <2>1. Buffers(g.rx_ks, g.rx_ks_pos, g.rx_gmac)
    BY <1>1 DEF Wrapper
  <2>2. g.rx_ks_pos + 1 \in 0..End
    BY <1>1, EndPositive
  <2>3. Buffers(g.rx_ks, g.rx_ks_pos + 1, b)
    BY <1>3, <2>1, <2>2 DEF Buffers
  <2>4. g.payload_len + 1 \in Nat
    BY <1>1 DEF Wrapper
  <2> QED BY <1>1, <1>4, <1>6, <2>3, <2>4 DEF Wrapper
<1>8. Frame(s, t)
  BY <1>1, <1>6 DEF Frame
<1>9. TookByte(s, c, t)
  <2>1. o = Append(g.out, Opened(c, KsByte(g.rx_ks[1], g.rx_ks[2], g.rx_ks_pos)))
    OBVIOUS
  <2>2. g.out = s.out /\ g.rx_ks_pos = (IF s.rx_ks_pos = End THEN 0 ELSE s.rx_ks_pos)
    BY <1>1
  <2>3. t.out = o /\ t.rx_ks = g.rx_ks
    BY <1>6
  <2> QED BY <2>1, <2>2, <2>3 DEF TookByte
<1> QED BY <1>1, <1>6, <1>7, <1>8, <1>9

LEMMA Loaded ==
  ASSUME NEW s, Wrapper(s, Text), NEW cs \in Seq(Byte), Len(cs) \in {1, 2, 4, 8}
  PROVE  Wrapper(Dec(s, cs), Text) /\ Frame(s, Dec(s, cs))
<1> DEFINE Good(t) == Wrapper(t, Text) /\ Frame(s, t)
<1>1. \A i \in 1..Len(cs) : cs[i] \in Byte
  BY ElementOfSeq
<1>2. ASSUME NEW t, Good(t), NEW c \in Byte PROVE Good(fuse_inline_dec_8(t, c))
  <2>1. Wrapper(fuse_inline_dec_8(t, c), Text) /\ Frame(t, fuse_inline_dec_8(t, c))
    BY <1>2, LoadedByte
  <2> QED BY <1>2, <2>1 DEF Frame
<1>3. Good(s)
  BY DEF Frame, Wrapper
<1> HIDE DEF Good
<1>4. ASSUME NEW t, Good(t), NEW bs, \A i \in 1..4 : bs[i] \in Byte
      PROVE  Good(fuse_inline_dec_32(t, bs))
  <2>1. Good(fuse_inline_dec_16(t, bs))
    BY <1>2, <1>4 DEF fuse_inline_dec_16
  <2> QED BY <1>2, <1>4, <2>1 DEF fuse_inline_dec_32
<1>5. CASE Len(cs) = 1
  BY <1>1, <1>2, <1>3, <1>5 DEF Dec, Good
<1>6. CASE Len(cs) = 2
  <2>1. Good(fuse_inline_dec_16(s, cs))
    BY <1>1, <1>2, <1>3, <1>6 DEF fuse_inline_dec_16
  <2> QED BY <1>6, <2>1 DEF Dec, Good
<1>7. CASE Len(cs) = 4
  <2>1. Good(fuse_inline_dec_32(s, cs))
    BY <1>1, <1>3, <1>4, <1>7
  <2> QED BY <1>7, <2>1 DEF Dec, Good
<1>8. CASE Len(cs) = 8
  <2>1. \A i \in 1..4 : SubSeq(cs, 5, 8)[i] \in Byte
    BY <1>1, <1>8, SubSeqProperties
  <2>2. Good(fuse_inline_dec_32(s, cs))
    BY <1>1, <1>3, <1>4, <1>8
  <2>3. Good(fuse_inline_dec_64(s, cs))
    BY <1>4, <2>1, <2>2 DEF fuse_inline_dec_64
  <2> QED BY <1>8, <2>3 DEF Dec, Good
<1> QED BY <1>5, <1>6, <1>7, <1>8

LEMMA CopiedOut ==
  ASSUME NEW s, Wrapper(s, Text), NEW cs \in Seq(Byte),
         NEW t, t = fuse_inline_dec_memcpy(s, cs)
  PROVE  /\ Wrapper(t, Text) /\ t.on = s.on /\ t.iv = s.iv /\ t.aad_len = s.aad_len
         /\ t.tx_gmac = s.tx_gmac /\ t.tx_ks_pos = s.tx_ks_pos
         /\ t.rx_gmac = s.rx_gmac /\ t.rx_ks_pos = s.rx_ks_pos /\ t.rx_ks = s.rx_ks
         /\ t = decrypt_fused(s, cs) =>
              /\ t.hash = s.hash \o Chunks(cs) /\ t.ctr = s.ctr + Blocks(Len(cs))
              /\ t.payload_len = s.payload_len + Len(cs)
              /\ TookCopy(s, cs, t)
<1>1. CASE t = decrypt_fused(s, cs)
  <2> PICK n, h, ps, o : /\ n = Len(cs) /\ h = s.hash \o Chunks(cs) /\ o = s.out \o ps
                         /\ ps = [i \in DOMAIN cs |-> Opened(cs[i], KsByte(s.iv, s.ctr, i - 1))]
    OBVIOUS
  <2>1. n \in Nat /\ Blocks(n) \in Nat /\ DOMAIN cs = 1..n /\ \A i \in 1..n : cs[i] \in Byte
    BY LenProperties, ElementOfSeq, BlockCount
  <2>2. \A i \in 1..n : Opened(cs[i], KsByte(s.iv, s.ctr, i - 1)) \in Text
    BY <2>1 DEF Opened, Garbage, Byte, Text
  <2>3. ps \in [1..n -> Text]
    BY <2>1, <2>2
  <2>4. ps \in Seq(Text)
    BY <2>1, <2>3, SeqDef
  <2>5. h \in Seq(Piece) /\ o \in Seq(Text)
    BY <2>4, ChunksType, ConcatProperties DEF Wrapper
  <2>6. t = [s EXCEPT !.hash = h, !.ctr = s.ctr + Blocks(n),
                      !.payload_len = s.payload_len + n, !.out = o]
    BY <1>1 DEF decrypt_fused, Wrapper, IsWrapper
  <2>7. /\ IsWrapper(t) /\ t.hash = h /\ t.ctr = s.ctr + Blocks(n)
        /\ t.payload_len = s.payload_len + n /\ t.out = o
        /\ t.on = s.on /\ t.iv = s.iv /\ t.aad_len = s.aad_len /\ t.overrun = s.overrun
        /\ t.tx_ks = s.tx_ks /\ t.tx_ks_pos = s.tx_ks_pos /\ t.tx_gmac = s.tx_gmac
        /\ t.rx_ks = s.rx_ks /\ t.rx_ks_pos = s.rx_ks_pos /\ t.rx_gmac = s.rx_gmac
    BY <2>6 DEF Wrapper, IsWrapper
  <2>8. s.ctr + Blocks(n) \in Nat /\ s.payload_len + n \in Nat
    BY <2>1 DEF Wrapper
  <2>9. Wrapper(t, Text)
    BY <2>5, <2>7, <2>8 DEF Wrapper
  <2>10. TookCopy(s, cs, t)
    BY <2>7 DEF TookCopy
  <2> QED BY <2>7, <2>9, <2>10
<1>2. CASE t = [s EXCEPT !.overrun = TRUE] /\ t # decrypt_fused(s, cs)
  <2> PICK v : v = TRUE
    OBVIOUS
  <2>1. t = [s EXCEPT !.overrun = v]
    BY <1>2
  <2>2. /\ IsWrapper(t) /\ t.overrun = v
        /\ t.on = s.on /\ t.iv = s.iv /\ t.ctr = s.ctr /\ t.hash = s.hash
        /\ t.aad_len = s.aad_len /\ t.payload_len = s.payload_len
        /\ t.tx_ks = s.tx_ks /\ t.tx_ks_pos = s.tx_ks_pos /\ t.tx_gmac = s.tx_gmac
        /\ t.rx_ks = s.rx_ks /\ t.rx_ks_pos = s.rx_ks_pos /\ t.rx_gmac = s.rx_gmac
        /\ t.out = s.out
    BY <2>1 DEF Wrapper, IsWrapper
  <2>3. Wrapper(t, Text)
    BY <2>2 DEF Wrapper
  <2> QED BY <1>2, <2>2, <2>3
<1> QED BY <1>1, <1>2 DEF fuse_inline_dec_memcpy

-----------------------------------------------------------------------------
(* The invariant.                                                          *)

Calls(h) ==
    /\ h = [ordered |-> h.ordered, stored |-> h.stored]
    /\ h.ordered \in BOOLEAN /\ h.stored \in Nat

Tag == [iv : Nat, hash : Seq(Piece), aad_len : Nat, payload_len : Nat]
Mail == [iv : Nat, aad_len : Nat, ct : Seq(Byte), tag : Tag, ordered : BOOLEAN]
Outcome == [accepted : BOOLEAN, text : Seq(Text), ordered : BOOLEAN, stored : Nat]

\* The keystream of the i-th message is of the i-th IV, and used once.
Enciphered(m, i) == Once(Range(m.ct)) /\ \A c \in Range(m.ct) : c.ks[1] = i

\* The message being written is the one after those on the wire; between two
\* messages the memory still holds the last.
Current ==
    /\ tx.on => tx.iv = Len(wire) + 1 /\ Len(wire) < Messages
    /\ ~tx.on => tx.out = << >> \/ (Len(wire) >= 1 /\ tx.out = wire[Len(wire)].ct)

ISender ==
    /\ Calls(txCalls) /\ Sender(tx, txCalls.stored)
    /\ txCalls.ordered => ~tx.overrun
    /\ Current

IWire ==
    /\ wire \in Seq(Mail) /\ Len(wire) <= Messages
    /\ \A i \in 1..Len(wire) : Enciphered(wire[i], i)

IReceiver ==
    /\ Calls(rxCalls) /\ Wrapper(rx, Text)
    /\ got \in Seq(Outcome) /\ Len(got) <= Len(wire)
    /\ rx.on => Len(got) < Len(wire)

IStream == ISender /\ IWire /\ IReceiver

LEMMA IdleIsUnused ==
  /\ Wrapper(Idle, Byte) /\ Wrapper(Idle, Text)
  /\ Positions(Idle, 0) /\ Keys(Idle)
<1> PICK v, none, k, s : v = FALSE /\ none = << >> /\ k = <<0, 0>> /\ s = Idle
  OBVIOUS
<1>1. s = [on |-> v, iv |-> 0, ctr |-> 0, hash |-> none, aad_len |-> 0, payload_len |-> 0,
           tx_ks |-> k, tx_ks_pos |-> End, tx_gmac |-> none,
           rx_ks |-> k, rx_ks_pos |-> End, rx_gmac |-> none,
           out |-> none, overrun |-> v]
  BY DEF Idle
<1>2. /\ none \in Seq(Piece) /\ none \in Seq(Byte) /\ none \in Seq(Text) /\ Len(none) = 0
      /\ k[1] = 0 /\ k[2] = 0
  OBVIOUS
<1>3. Buffers(k, End, none)
  BY <1>2, EndPositive DEF Buffers
<1>4. IsWrapper(s)
  BY <1>1 DEF IsWrapper
<1>5. Wrapper(s, Byte) /\ Wrapper(s, Text)
  <2>1. /\ s.on = v /\ s.overrun = v /\ s.iv = 0 /\ s.ctr = 0 /\ s.hash = none /\ s.out = none
        /\ s.aad_len = 0 /\ s.payload_len = 0 /\ s.tx_ks = k /\ s.tx_ks_pos = End
        /\ s.tx_gmac = none /\ s.rx_ks = k /\ s.rx_ks_pos = End /\ s.rx_gmac = none
    BY <1>1
  <2>2. v \in BOOLEAN
    OBVIOUS
  <2> QED BY <1>2, <1>3, <1>4, <2>1, <2>2 DEF Wrapper
<1>6. Positions(s, 0)
  BY <1>1, <1>2, EndPositive DEF Positions, Position
<1>7. Range(s.out) = {}
  BY <1>1 DEF Range
<1>8. Keys(s)
  BY <1>1, <1>7, EndPositive DEF Keys, Reserve, Once
<1> QED BY <1>5, <1>6, <1>8

LEMMA StreamInit == ASSUME Init PROVE IStream
<1>1. tx = Idle /\ rx = Idle /\ txCalls = NoCalls /\ rxCalls = NoCalls /\ wire = << >> /\ got = << >>
  BY DEF Init
<1>2. Calls(NoCalls) /\ NoCalls.stored = 0
  BY DEF Calls, NoCalls
<1>3. ~Idle.on /\ ~Idle.overrun /\ Idle.out = << >>
  BY DEF Idle
<1>4. ISender
  BY <1>1, <1>2, <1>3, IdleIsUnused DEF ISender, Sender, Current
<1>5. IWire
  BY <1>1, StreamAssumption DEF IWire
<1>6. IReceiver
  BY <1>1, <1>2, <1>3, IdleIsUnused DEF IReceiver
<1> QED BY <1>4, <1>5, <1>6 DEF IStream

\* The history of a message after a call.
LEMMA CallsAfter ==
  ASSUME NEW h, Calls(h), NEW s, NEW w \in Nat
  PROVE  /\ Calls(NoCalls) /\ NoCalls.stored = 0
         /\ Calls(AfterAad(h, s)) /\ AfterAad(h, s).stored = h.stored
         /\ AfterAad(h, s).ordered => h.ordered
         /\ Calls(AfterStore(h, s, w)) /\ AfterStore(h, s, w).stored = h.stored + w
         /\ AfterStore(h, s, w).ordered => h.ordered
         /\ Calls(AfterCopy(h, s)) /\ AfterCopy(h, s).stored = h.stored
         /\ AfterCopy(h, s).ordered => h.ordered /\ h.stored % End = 0
<1>1. Calls(NoCalls) /\ NoCalls.stored = 0
  BY DEF Calls, NoCalls
<1>2. /\ Calls(AfterAad(h, s)) /\ AfterAad(h, s).stored = h.stored
      /\ AfterAad(h, s).ordered => h.ordered
  <2> PICK v, t : v = (h.ordered /\ s.payload_len = 0 /\ s.aad_len % Block = 0)
                  /\ t = AfterAad(h, s)
    OBVIOUS
  <2>1. t = [h EXCEPT !.ordered = v]
    BY DEF AfterAad, Calls
  <2>2. t = [ordered |-> v, stored |-> h.stored]
    BY <2>1 DEF Calls
  <2>3. v \in BOOLEAN
    OBVIOUS
  <2> QED BY <2>2, <2>3 DEF Calls
<1>3. /\ Calls(AfterStore(h, s, w)) /\ AfterStore(h, s, w).stored = h.stored + w
      /\ AfterStore(h, s, w).ordered => h.ordered
  <2> PICK v : v = (h.ordered /\ (h.stored % End # 0 \/ s.payload_len % Block = 0))
    OBVIOUS
  <2>1. AfterStore(h, s, w) = [ordered |-> v, stored |-> h.stored + w]
    BY DEF AfterStore
  <2>2. v \in BOOLEAN /\ h.stored + w \in Nat
    BY DEF Calls
  <2> QED BY <2>1, <2>2 DEF Calls
<1>4. /\ Calls(AfterCopy(h, s)) /\ AfterCopy(h, s).stored = h.stored
      /\ AfterCopy(h, s).ordered => h.ordered /\ h.stored % End = 0
  <2> PICK v, t : v = (h.ordered /\ h.stored % End = 0 /\ s.payload_len % Block = 0)
                  /\ t = AfterCopy(h, s)
    OBVIOUS
  <2>1. t = [h EXCEPT !.ordered = v]
    BY DEF AfterCopy, Calls
  <2>2. t = [ordered |-> v, stored |-> h.stored]
    BY <2>1 DEF Calls
  <2>3. v \in BOOLEAN
    OBVIOUS
  <2>4. v => h.ordered /\ h.stored % End = 0
    OBVIOUS
  <2> QED BY <2>2, <2>3, <2>4 DEF Calls
<1> QED BY <1>1, <1>2, <1>3, <1>4

-----------------------------------------------------------------------------
(* Steps.                                                                  *)

LEMMA PlainType ==
  ASSUME NEW iv \in Nat, NEW from \in Nat, NEW n \in Nat
  PROVE  /\ Plain(iv, from, n) \in Seq(Text) /\ Len(Plain(iv, from, n)) = n
         /\ Aad(iv, from, n) \in Seq(Byte)
<1>1. Plain(iv, from, n) \in [1..n -> Text]
  BY DEF Plain, Text
<1>2. Aad(iv, from, n) \in [1..n -> Byte]
  BY DEF Aad, Byte, NoKey
<1>3. Plain(iv, from, n) \in Seq(Text)
  BY <1>1, SeqDef
<1>4. Aad(iv, from, n) \in Seq(Byte)
  BY <1>2, SeqDef
<1>5. DOMAIN Plain(iv, from, n) = 1..n
  BY DEF Plain
<1> QED BY <1>3, <1>4, <1>5, LenProperties

LEMMA TagType ==
  ASSUME NEW O, NEW s, Wrapper(s, O), NEW gmac \in Seq(Byte)
  PROVE  TagOf(s, gmac) \in Tag
<1>1. s.hash \o Chunks(gmac) \in Seq(Piece)
  BY ChunksType, ConcatProperties DEF Wrapper
<1> QED BY <1>1 DEF TagOf, Tag, Wrapper

\* A step of one side leaves the other, and the wire grows by the sender only.
LEMMA SenderKept ==
  ASSUME ISender, IWire, UNCHANGED <<tx, txCalls, wire>>
  PROVE  ISender' /\ IWire'
BY DEF ISender, IWire, Current

LEMMA SenderBegins == ASSUME IStream, TxInit PROVE ISender' /\ IWire'
<1>1. Len(wire) \in Nat /\ Len(wire) < Messages /\ ~tx.overrun /\ UNCHANGED wire
  BY LenProperties DEF IStream, IWire, TxInit
<1> PICK iv : iv = Len(wire) + 1
  OBVIOUS
<1>2. iv \in Nat /\ tx' = fuse_init(tx, iv) /\ txCalls' = NoCalls
  BY <1>1 DEF TxInit
<1>3. Wrapper(tx, Byte)
  BY DEF IStream, ISender, Sender
<1>4. Sender(tx', 0) /\ tx'.iv = iv /\ ~tx'.overrun
  BY <1>1, <1>2, <1>3, Initialised
<1>5. tx'.on
  <2> PICK v : v = TRUE
    OBVIOUS
  <2>1. tx' = [tx EXCEPT !.iv = iv, !.ctr = 2, !.hash = <<>>, !.aad_len = 0,
                         !.payload_len = 0, !.tx_ks_pos = End, !.tx_gmac = <<>>,
                         !.on = v, !.out = <<>>]
    BY <1>2 DEF fuse_init
  <2>2. tx'.on = v
    BY <1>3, <2>1 DEF Wrapper, IsWrapper
  <2> QED BY <2>2
<1>6. Calls(txCalls') /\ txCalls'.stored = 0
  BY <1>2, CallsAfter DEF IStream, ISender
<1>7. Current'
  BY <1>1, <1>4, <1>5 DEF Current
<1>8. ISender'
  BY <1>4, <1>6, <1>7 DEF ISender
<1> QED BY <1>1, <1>8 DEF IStream, IWire

\* A call in the middle of a message.
LEMMA SenderGoesOn ==
  ASSUME ISender, tx.on, UNCHANGED wire, Calls(txCalls'), Sender(tx', txCalls'.stored),
         tx'.on = tx.on, tx'.iv = tx.iv, txCalls'.ordered => ~tx'.overrun
  PROVE  ISender'
<1>1. Current'
  BY DEF ISender, Current
<1> QED BY <1>1 DEF ISender

LEMMA SenderCalls ==
  ASSUME IStream, \/ \E n \in AadLens : TxAad(n)
                  \/ \E w \in Widths : TxStore(w)
                  \/ \E n \in Copies : TxCopy(n)
  PROVE  ISender' /\ IWire'
<1>0. /\ ISender /\ IWire /\ Sender(tx, txCalls.stored) /\ Calls(txCalls) /\ Wrapper(tx, Byte)
      /\ txCalls.stored \in Nat /\ tx.iv \in Nat /\ tx.aad_len \in Nat /\ tx.payload_len \in Nat
  BY DEF IStream, ISender, Sender, Wrapper, Calls
<1>1. ASSUME NEW n \in AadLens, TxAad(n) PROVE ISender' /\ UNCHANGED wire
  <2>1. n \in Nat /\ tx.on /\ ~tx.overrun /\ UNCHANGED wire
    BY <1>1, StreamAssumption DEF TxAad
  <2> PICK bytes : bytes = Aad(tx.iv, tx.aad_len, n)
    OBVIOUS
  <2>2. bytes \in Seq(Byte) /\ tx' = fuse_update_enc(tx, bytes) /\ txCalls' = AfterAad(txCalls, tx)
    BY <1>0, <1>1, <2>1, PlainType DEF TxAad
  <2>3. Sender(tx', txCalls.stored) /\ tx'.on = tx.on /\ tx'.iv = tx.iv
        /\ tx'.overrun = tx.overrun
    BY <1>0, <2>2, Authenticated
  <2>4. Calls(txCalls') /\ txCalls'.stored = txCalls.stored
    BY <1>0, <2>2, CallsAfter
  <2>5. ISender'
    BY <1>0, <2>1, <2>3, <2>4, SenderGoesOn
  <2> QED BY <2>1, <2>5
<1>2. ASSUME NEW w \in Widths, TxStore(w) PROVE ISender' /\ UNCHANGED wire
  <2>1. w \in {1, 2, 4, 8} /\ w \in Nat /\ tx.on /\ ~tx.overrun /\ UNCHANGED wire
    BY <1>2, StreamAssumption DEF TxStore
  <2> PICK ps : ps = Plain(tx.iv, tx.payload_len, w)
    OBVIOUS
  <2>2. ps \in Seq(Text) /\ Len(ps) = w /\ tx' = Enc(tx, ps) /\ txCalls' = AfterStore(txCalls, tx, w)
    BY <1>0, <1>2, <2>1, PlainType DEF TxStore
  <2>3. Sender(tx', txCalls.stored + w) /\ Frame(tx, tx')
    BY <1>0, <2>1, <2>2, Stored
  <2>4. Calls(txCalls') /\ txCalls'.stored = txCalls.stored + w
    BY <1>0, <2>1, <2>2, CallsAfter
  <2>5. tx'.on = tx.on /\ tx'.iv = tx.iv /\ tx'.overrun = tx.overrun
    BY <2>3 DEF Frame
  <2>6. ISender'
    BY <1>0, <2>1, <2>3, <2>4, <2>5, SenderGoesOn
  <2> QED BY <2>1, <2>6
<1>3. ASSUME NEW n \in Copies, TxCopy(n) PROVE ISender' /\ UNCHANGED wire
  <2>1. n \in Nat /\ tx.on /\ ~tx.overrun /\ UNCHANGED wire
    BY <1>3, StreamAssumption DEF TxCopy
  <2> PICK ps : ps = Plain(tx.iv, tx.payload_len, n)
    OBVIOUS
  <2>2. /\ ps \in Seq(Text) /\ tx' = fuse_inline_enc_memcpy(tx, ps)
        /\ txCalls' = AfterCopy(txCalls, tx)
    BY <1>0, <1>3, <2>1, PlainType DEF TxCopy
  <2>3. Sender(tx', txCalls.stored) /\ tx'.on = tx.on /\ tx'.iv = tx.iv
        /\ (txCalls.stored % End = 0 => tx'.overrun = tx.overrun)
    BY <1>0, <2>2, Copied
  <2>4. Calls(txCalls') /\ txCalls'.stored = txCalls.stored
        /\ (txCalls'.ordered => txCalls.stored % End = 0)
    BY <1>0, <2>2, CallsAfter
  <2>5. txCalls'.ordered => ~tx'.overrun
    BY <2>1, <2>3, <2>4
  <2>6. ISender'
    BY <1>0, <2>1, <2>3, <2>4, <2>5, SenderGoesOn
  <2> QED BY <2>1, <2>6
<1>4. ISender' /\ UNCHANGED wire
  BY <1>1, <1>2, <1>3
<1> QED BY <1>0, <1>4 DEF IWire

LEMMA SenderEnds == ASSUME IStream, TxFinalize PROVE ISender' /\ IWire'
<1> PICK m : m = [iv |-> tx.iv, aad_len |-> tx.aad_len, ct |-> tx.out,
                  tag |-> TagOf(tx, tx.tx_gmac), ordered |-> txCalls.ordered]
  OBVIOUS
<1>1. /\ Wrapper(tx, Byte) /\ Positions(tx, txCalls.stored) /\ Keys(tx) /\ Calls(txCalls)
      /\ tx.on /\ ~tx.overrun /\ tx.iv = Len(wire) + 1 /\ Len(wire) < Messages
      /\ wire \in Seq(Mail) /\ tx.tx_gmac \in Seq(Byte)
  BY DEF IStream, ISender, IWire, Sender, Current, TxFinalize, Wrapper, Buffers
<1>2. tx' = fuse_finalize_enc(tx) /\ wire' = Append(wire, m) /\ UNCHANGED txCalls
  BY DEF TxFinalize
<1>3. /\ Wrapper(tx', Byte) /\ ~tx'.on /\ tx'.iv = tx.iv /\ tx'.overrun = tx.overrun
      /\ tx'.ctr = tx.ctr /\ tx'.tx_ks = tx.tx_ks /\ tx'.tx_ks_pos = tx.tx_ks_pos
      /\ tx'.tx_gmac = tx.tx_gmac /\ tx'.out = tx.out
  <2>1. tx' = Ended(tx, tx.tx_gmac)
    BY <1>2 DEF fuse_finalize_enc, Ended
  <2> QED BY <1>1, <2>1, Closed
<1>4. Sender(tx', txCalls'.stored)
  BY <1>1, <1>2, <1>3 DEF Sender, Positions, Keys, Reserve, Behind
<1>5. m \in Mail /\ m.ct = tx.out
  <2>1. TagOf(tx, tx.tx_gmac) \in Tag
    BY <1>1, TagType
  <2>2. txCalls.ordered \in BOOLEAN
    BY <1>1 DEF Calls
  <2> PICK v : v = txCalls.ordered
    OBVIOUS
  <2>3. m = [iv |-> tx.iv, aad_len |-> tx.aad_len, ct |-> tx.out,
             tag |-> TagOf(tx, tx.tx_gmac), ordered |-> v]
    OBVIOUS
  <2>4. tx.iv \in Nat /\ tx.aad_len \in Nat /\ tx.out \in Seq(Byte)
    BY <1>1 DEF Wrapper
  <2> QED BY <2>1, <2>2, <2>3, <2>4 DEF Mail
<1>6. /\ wire' \in Seq(Mail) /\ Len(wire') = Len(wire) + 1 /\ wire'[Len(wire) + 1] = m
      /\ \A i \in 1..Len(wire) : wire'[i] = wire[i]
      /\ Len(wire) \in Nat
  BY <1>1, <1>2, <1>5, AppendProperties
<1>7. Enciphered(m, Len(wire) + 1)
  BY <1>1, <1>5 DEF Keys, Behind, Enciphered
<1>8. IWire'
  <2>1. Len(wire') <= Messages
    BY <1>1, <1>6, StreamAssumption
  <2>2. ASSUME NEW i \in 1..Len(wire') PROVE Enciphered(wire'[i], i)
    <3>1. CASE i \in 1..Len(wire)
      <4>1. Enciphered(wire[i], i)
        BY <3>1 DEF IStream, IWire
      <4>2. wire'[i] = wire[i]
        BY <1>6, <3>1
      <4> QED BY <4>1, <4>2
    <3>2. CASE i = Len(wire) + 1
      BY <1>6, <1>7, <3>2
    <3> QED BY <1>6, <3>1, <3>2
  <2> QED BY <1>6, <2>1, <2>2 DEF IWire
<1>9. Current'
  BY <1>3, <1>5, <1>6 DEF Current
<1>10. Calls(txCalls') /\ ~tx'.overrun
  BY <1>1, <1>2, <1>3
<1>11. ISender'
  BY <1>4, <1>9, <1>10 DEF ISender
<1> QED BY <1>8, <1>11

LEMMA SenderNext == ASSUME IStream, [Next]_vars PROVE ISender' /\ IWire'
<1>1. CASE TxInit
  BY <1>1, SenderBegins
<1>2. CASE \/ \E n \in AadLens : TxAad(n)
           \/ \E w \in Widths : TxStore(w)
           \/ \E n \in Copies : TxCopy(n)
  BY <1>2, SenderCalls
<1>3. CASE TxFinalize
  BY <1>3, SenderEnds
<1>4. CASE UNCHANGED <<tx, txCalls, wire>>
  BY <1>4, SenderKept DEF IStream
<1> QED BY <1>1, <1>2, <1>3, <1>4
        DEF Next, vars, RxInit, RxAad, RxStore, RxCopy, RxVerify

\* What the receiver reads is on the wire.
LEMMA Arrived ==
  ASSUME IWire, IReceiver, Len(got) < Len(wire)
  PROVE  /\ Incoming \in Mail /\ Incoming.iv \in Nat /\ Incoming.aad_len \in Nat
         /\ Incoming.ct \in Seq(Byte)
         /\ \A from, n \in Nat : from + n <= Len(Incoming.ct) =>
                /\ SubSeq(Incoming.ct, from + 1, from + n) \in Seq(Byte)
                /\ Len(SubSeq(Incoming.ct, from + 1, from + n)) = n
<1>1. Len(got) + 1 \in 1..Len(wire)
  BY LenProperties DEF IWire, IReceiver
<1>2. Incoming \in Mail
  BY <1>1, ElementOfSeq DEF IWire, Incoming
<1>3. Incoming.iv \in Nat /\ Incoming.aad_len \in Nat /\ Incoming.ct \in Seq(Byte)
  BY <1>2 DEF Mail
<1>4. ASSUME NEW ct \in Seq(Byte), NEW from \in Nat, NEW n \in Nat, from + n <= Len(ct)
      PROVE  /\ SubSeq(ct, from + 1, from + n) \in Seq(Byte)
             /\ Len(SubSeq(ct, from + 1, from + n)) = n
  <2>1. \A i \in from + 1..from + n : ct[i] \in Byte
    BY <1>4, ElementOfSeq, LenProperties
  <2>2. /\ SubSeq(ct, from + 1, from + n) \in Seq(Byte)
        /\ Len(SubSeq(ct, from + 1, from + n)) =
               IF from + 1 <= from + n THEN from + n - (from + 1) + 1 ELSE 0
    BY <2>1, SubSeqProperties
  <2> QED BY <2>2
<1> QED BY <1>2, <1>3, <1>4

LEMMA ReceiverNext == ASSUME IStream, [Next]_vars PROVE IReceiver'
<1>0. /\ IWire /\ IReceiver /\ Calls(rxCalls) /\ Wrapper(rx, Text)
      /\ got \in Seq(Outcome) /\ Len(got) \in Nat /\ Len(wire) \in Nat /\ Len(got) <= Len(wire)
      /\ rx.iv \in Nat /\ rx.payload_len \in Nat
  BY LenProperties DEF IStream, IReceiver, IWire, Wrapper
<1>1. CASE RxInit
  <2>1. Len(got) < Len(wire) /\ rx' = fuse_init(rx, Incoming.iv) /\ rxCalls' = NoCalls
        /\ UNCHANGED <<wire, got>>
    BY <1>1 DEF RxInit
  <2>2. Wrapper(rx', Text)
    BY <1>0, <2>1, Arrived, InitType
  <2>3. Calls(rxCalls')
    BY <1>0, <2>1, CallsAfter
  <2> QED BY <1>0, <2>1, <2>2, <2>3 DEF IReceiver
<1>2. CASE RxAad
  <2>1. rx.on /\ Len(got) < Len(wire) /\ UNCHANGED <<wire, got>>
    BY <1>0, <1>2 DEF RxAad, IReceiver
  <2> PICK bytes : bytes = Aad(rx.iv, 0, Incoming.aad_len)
    OBVIOUS
  <2>2. bytes \in Seq(Byte)
    BY <1>0, <2>1, Arrived, PlainType
  <2>3. rx' = fuse_update_enc(rx, bytes) /\ rxCalls' = AfterAad(rxCalls, rx)
    BY <1>2 DEF RxAad, fuse_update_dec
  <2>4. Wrapper(rx', Text)
    BY <1>0, <2>2, <2>3, AadType
  <2>5. Calls(rxCalls')
    BY <1>0, <2>3, CallsAfter
  <2> QED BY <1>0, <2>1, <2>4, <2>5 DEF IReceiver
<1>3. ASSUME NEW w \in Widths, RxStore(w) PROVE IReceiver'
  <2>1. rx.on /\ Len(got) < Len(wire) /\ UNCHANGED <<wire, got>>
        /\ w \in {1, 2, 4, 8} /\ w \in Nat /\ w <= Left
    BY <1>0, <1>3, StreamAssumption DEF RxStore, IReceiver
  <2> PICK cs : cs = NextBytes(w)
    OBVIOUS
  <2>2. cs \in Seq(Byte) /\ Len(cs) = w
    <3>1. Len(Incoming.ct) \in Nat
      BY <1>0, <2>1, Arrived, LenProperties
    <3>2. rx.payload_len + w <= Len(Incoming.ct)
      BY <1>0, <2>1, <3>1 DEF Left
    <3> QED BY <1>0, <2>1, <3>2, Arrived DEF NextBytes
  <2>3. rx' = Dec(rx, cs) /\ rxCalls' = AfterStore(rxCalls, rx, w)
    BY <1>3 DEF RxStore
  <2>4. Wrapper(rx', Text)
    BY <1>0, <2>1, <2>2, <2>3, Loaded
  <2>5. Calls(rxCalls')
    BY <1>0, <2>1, <2>3, CallsAfter
  <2> QED BY <1>0, <2>1, <2>4, <2>5 DEF IReceiver
<1>4. ASSUME NEW n \in Copies, RxCopy(n) PROVE IReceiver'
  <2>1. rx.on /\ Len(got) < Len(wire) /\ UNCHANGED <<wire, got>> /\ n \in Nat /\ n <= Left
    BY <1>0, <1>4, StreamAssumption DEF RxCopy, IReceiver
  <2> PICK cs : cs = NextBytes(n)
    OBVIOUS
  <2>2. cs \in Seq(Byte)
    <3>1. Len(Incoming.ct) \in Nat
      BY <1>0, <2>1, Arrived, LenProperties
    <3>2. rx.payload_len + n <= Len(Incoming.ct)
      BY <1>0, <2>1, <3>1 DEF Left
    <3> QED BY <1>0, <2>1, <3>2, Arrived DEF NextBytes
  <2>3. rx' = fuse_inline_dec_memcpy(rx, cs) /\ rxCalls' = AfterCopy(rxCalls, rx)
    BY <1>4 DEF RxCopy
  <2>4. Wrapper(rx', Text)
    BY <1>0, <2>2, <2>3, CopiedOut
  <2>5. Calls(rxCalls')
    BY <1>0, <2>3, CallsAfter
  <2> QED BY <1>0, <2>1, <2>4, <2>5 DEF IReceiver
<1>5. CASE RxVerify
  <2>1. rx.on /\ Len(got) < Len(wire) /\ UNCHANGED <<wire, rxCalls>>
    BY <1>0, <1>5 DEF RxVerify, IReceiver
  <2> PICK s, t, gmac, v, o :
        /\ s = rx /\ t = rx' /\ gmac = rx.rx_gmac /\ v = (TagOf(rx, rx.rx_gmac) = Incoming.tag)
        /\ o = rxCalls.ordered
    OBVIOUS
  <2>2. t = Ended(s, gmac)
    BY <1>5 DEF RxVerify, fuse_verify_dec, Ended
  <2>3. Wrapper(s, Text) /\ gmac \in Seq(Byte)
    BY <1>0 DEF Wrapper, Buffers
  <2>4. Wrapper(t, Text) /\ ~t.on
    BY <2>2, <2>3, Closed
  <2>5. got' = Append(got, [accepted |-> v, text |-> rx.out, ordered |-> o,
                            stored |-> rxCalls.stored])
    BY <1>5 DEF RxVerify
  <2>6. v \in BOOLEAN /\ o \in BOOLEAN /\ rx.out \in Seq(Text) /\ rxCalls.stored \in Nat
    BY <1>0 DEF Wrapper, Calls
  <2>7. [accepted |-> v, text |-> rx.out, ordered |-> o, stored |-> rxCalls.stored] \in Outcome
    BY <2>6 DEF Outcome
  <2>8. got' \in Seq(Outcome) /\ Len(got') = Len(got) + 1
    BY <1>0, <2>5, <2>7, AppendProperties
  <2> QED BY <1>0, <2>1, <2>4, <2>8 DEF IReceiver
<1>6. CASE UNCHANGED <<rx, rxCalls, got>> /\ Len(wire') >= Len(wire)
  BY <1>0, <1>6 DEF IReceiver
<1>7. CASE TxFinalize
  <2>1. UNCHANGED <<rx, rxCalls, got>> /\ \E m : wire' = Append(wire, m)
    BY <1>7 DEF TxFinalize
  <2>2. Len(wire') >= Len(wire)
    <3> PICK m : wire' = Append(wire, m)
      BY <2>1
    <3>1. wire \in Seq(Mail \cup {m}) /\ m \in Mail \cup {m}
      BY <1>0, SeqMonotonic DEF IWire
    <3> QED BY <1>0, <3>1, AppendProperties
  <2> QED BY <1>6, <2>1, <2>2
<1> QED BY <1>0, <1>1, <1>2, <1>3, <1>4, <1>5, <1>6, <1>7
        DEF Next, vars, TxInit, TxAad, TxStore, TxCopy

LEMMA StreamNext == ASSUME IStream, [Next]_vars PROVE IStream'
BY SenderNext, ReceiverNext DEF IStream

-----------------------------------------------------------------------------
(* The theorems.                                                           *)

LEMMA StreamInvariant == Spec => []IStream
BY StreamInit, StreamNext, PTL DEF Spec

\* Positions stay inside the buffers they index and blocks inside the
\* cipher's, whatever the calls and however messages follow one another.
THEOREM TypeCorrect == Spec => []TypeOK
<1>1. ASSUME NEW O, NEW s, Wrapper(s, O) PROVE WrapperOK(s)
  <2>1. \A i \in DOMAIN s.hash : Len(s.hash[i]) \in 1..Block
    <3>1. s.hash \in Seq(Piece)
      BY <1>1 DEF Wrapper
    <3>2. ASSUME NEW i \in DOMAIN s.hash PROVE s.hash[i] \in Piece
      BY <3>1, LenProperties, ElementOfSeq
    <3> QED BY <3>2 DEF Piece
  <2>2. {s.on, s.overrun} \subseteq BOOLEAN
    BY <1>1, Zenon DEF Wrapper
  <2>3. {s.iv, s.ctr, s.aad_len, s.payload_len} \subseteq Nat
    BY <1>1 DEF Wrapper
  <2>4. /\ s.tx_ks_pos \in 0..End /\ Len(s.tx_gmac) < End
        /\ s.rx_ks_pos \in 0..End /\ Len(s.rx_gmac) < End
    BY <1>1 DEF Wrapper, Buffers
  <2> QED BY <2>1, <2>2, <2>3, <2>4 DEF WrapperOK
<1>2. IStream => TypeOK
  BY <1>1 DEF IStream, ISender, IWire, IReceiver, Sender, Calls, TypeOK
<1> QED BY <1>2, StreamInvariant, PTL

\* A copy that keeps the order of its message never hands the tail routine
\* more than its scratch block holds.
THEOREM OrderedCopiesFit == Spec => []OrderedTailFits
<1>1. IStream => OrderedTailFits
  BY DEF IStream, ISender, OrderedTailFits
<1> QED BY <1>1, StreamInvariant, PTL

\* No byte of keystream enciphers two bytes of plaintext, in any mixture of
\* stores and copies and over any number of messages.
THEOREM KeystreamUsedOnce == Spec => []KeystreamOnce
<1>1. ASSUME IStream PROVE KeystreamOnce
  <2>1. Len(wire) \in Nat /\ DOMAIN wire = 1..Len(wire)
    BY <1>1, LenProperties DEF IStream, IWire
  <2>2. \A i \in 1..Len(wire) : Enciphered(wire[i], i)
    BY <1>1 DEF IStream, IWire
  <2>3. CASE tx.on
    <3>1. Once(Range(tx.out)) /\ \A c \in Range(tx.out) : c.ks[1] = Len(wire) + 1
      BY <1>1, <2>3 DEF IStream, ISender, Sender, Current, Keys, Behind
    <3>2. ASSUME NEW b \in Sent, NEW c \in Sent, b.ks = c.ks PROVE b.pt = c.pt
      <4>1. CASE b \in Range(tx.out) /\ c \in Range(tx.out)
        BY <3>1, <3>2, <4>1 DEF Once
      <4>2. ASSUME NEW i \in 1..Len(wire), b \in Range(wire[i].ct) PROVE b.pt = c.pt
        <5>1. b.ks[1] = i
          BY <2>2, <4>2 DEF Enciphered
        <5>2. c \in Range(wire[i].ct)
          BY <2>1, <2>2, <3>1, <3>2, <5>1 DEF Enciphered, Sent
        <5> QED BY <2>2, <3>2, <4>2, <5>2 DEF Enciphered, Once
      <4>3. ASSUME NEW i \in 1..Len(wire), c \in Range(wire[i].ct) PROVE b.pt = c.pt
        <5>1. c.ks[1] = i
          BY <2>2, <4>3 DEF Enciphered
        <5>2. b \in Range(wire[i].ct)
          BY <2>1, <2>2, <3>1, <3>2, <5>1 DEF Enciphered, Sent
        <5> QED BY <2>2, <3>2, <4>3, <5>2 DEF Enciphered, Once
      <4> QED BY <2>1, <4>1, <4>2, <4>3 DEF Sent
    <3> QED BY <3>2 DEF KeystreamOnce
  <2>4. CASE ~tx.on
    <3>1. \A c \in Range(tx.out) : \E i \in 1..Len(wire) : c \in Range(wire[i].ct)
      <4>1. CASE tx.out = << >>
        BY <4>1 DEF Range
      <4>2. CASE Len(wire) >= 1 /\ tx.out = wire[Len(wire)].ct
        BY <2>1, <4>2
      <4> QED BY <1>1, <2>4, <4>1, <4>2 DEF IStream, ISender, Current
    <3>2. ASSUME NEW b \in Sent, NEW c \in Sent, b.ks = c.ks PROVE b.pt = c.pt
      <4>1. PICK i \in 1..Len(wire) : b \in Range(wire[i].ct)
        BY <2>1, <3>1 DEF Sent
      <4>2. PICK j \in 1..Len(wire) : c \in Range(wire[j].ct)
        BY <2>1, <3>1 DEF Sent
      <4>3. b.ks[1] = i /\ c.ks[1] = j
        BY <2>2, <4>1, <4>2 DEF Enciphered
      <4> QED BY <2>2, <3>2, <4>1, <4>2, <4>3 DEF Enciphered, Once
    <3> QED BY <3>2 DEF KeystreamOnce
  <2> QED BY <2>3, <2>4
<1> QED BY <1>1, StreamInvariant, PTL

-----------------------------------------------------------------------------
(***************************************************************************)
(* A message of StreamCipher whose calls came in order is AES-GCM, and a   *)
(* receiver that opens it in order accepts it: for blocks and buffers of   *)
(* any size, any mixture of stores and copies on either side and any       *)
(* number of messages.                                                     *)
(***************************************************************************)

-----------------------------------------------------------------------------
(* Cutting a text into blocks.                                             *)

\* Quotient and remainder are unique.
LEMMA Quotient ==
  ASSUME NEW k \in Nat, NEW r \in 0..Block - 1
  PROVE  (Block * k + r) \div Block = k /\ (Block * k + r) % Block = r
<1> PICK x : x = Block * k + r
  OBVIOUS
<1>1. x \in Nat
  BY StreamAssumption
<1> PICK k1, r1 : k1 = x \div Block /\ r1 = x % Block
  OBVIOUS
<1>2. k1 \in Nat /\ r1 \in 0..Block - 1 /\ x = Block * k1 + r1
  BY <1>1, Division
<1>3. Block * (k + 1) = Block * k + Block /\ Block * (k1 + 1) = Block * k1 + Block
      /\ Block * k \in Nat /\ Block * k1 \in Nat
  BY <1>2, StreamAssumption
<1>4. CASE k + 1 <= k1
  <2>1. Block * (k + 1) <= Block * k1
    BY <1>2, <1>4, StreamAssumption
  <2> QED BY <1>2, <1>3, <2>1, StreamAssumption
<1>5. CASE k1 + 1 <= k
  <2>1. Block * (k1 + 1) <= Block * k
    BY <1>2, <1>5, StreamAssumption
  <2> QED BY <1>2, <1>3, <2>1, StreamAssumption
<1>6. CASE k1 = k
  BY <1>2, <1>3, <1>6
<1>7. k1 = k /\ r1 = r
  BY <1>2, <1>4, <1>5, <1>6
<1> QED BY <1>7

\* q whole blocks in front of n bytes.
LEMMA WholeBlocks ==
  ASSUME NEW q \in Nat, NEW n \in Nat
  PROVE  /\ q * Block \in Nat
         /\ (q * Block + n) \div Block = q + (n \div Block)
         /\ (q * Block + n) % Block = n % Block
<1> PICK k, r : k = n \div Block /\ r = n % Block
  OBVIOUS
<1>1. k \in Nat /\ r \in 0..Block - 1 /\ n = Block * k + r
  BY Division
<1>2. q * Block + n = Block * (q + k) + r /\ q * Block \in Nat /\ q + k \in Nat
  BY <1>1, StreamAssumption
<1> QED BY <1>1, <1>2, Quotient

LEMMA BlocksAdd ==
  ASSUME NEW q \in Nat, NEW n \in Nat
  PROVE  Blocks(q * Block + n) = q + Blocks(n)
<1>1. n + Block - 1 \in Nat
  BY StreamAssumption
<1>2. q * Block + n + Block - 1 = q * Block + (n + Block - 1)
  BY WholeBlocks, StreamAssumption
<1> QED BY <1>1, <1>2, WholeBlocks DEF Blocks

LEMMA BlocksOfWhole ==
  ASSUME NEW q \in Nat
  PROVE  Blocks(q * Block) = q /\ Blocks(0) = 0 /\ (q * Block) % Block = 0
<1>1. Blocks(0) = 0
  <2>1. Block - 1 \in 0..Block - 1 /\ Block * 0 + (Block - 1) = 0 + Block - 1
    BY StreamAssumption
  <2> QED BY <2>1, Quotient DEF Blocks
<1>2. q * Block + 0 = q * Block /\ q + 0 = q
  BY WholeBlocks
<1>3. 0 % Block = 0
  BY StreamAssumption
<1> QED BY <1>1, <1>2, <1>3, BlocksAdd, WholeBlocks

\* A whole number of blocks, by its remainder.
LEMMA Whole ==
  ASSUME NEW n \in Nat, n % Block = 0
  PROVE  \E q \in Nat : n = q * Block
<1> PICK q : q = n \div Block
  OBVIOUS
<1>1. q \in Nat /\ n = Block * q + 0
  BY Division
<1>2. n = q * Block
  BY <1>1, StreamAssumption
<1> QED BY <1>1, <1>2

\* The places where a block begins.
Starts == {q * Block : q \in Nat}

\* The b-th block of a text.
Chunk(bytes, b) ==
    SubSeq(bytes, (b - 1) * Block + 1,
           IF b * Block <= Len(bytes) THEN b * Block ELSE Len(bytes))

LEMMA ChunksOf ==
  ASSUME NEW bytes \in Seq(Byte)
  PROVE  /\ Len(Chunks(bytes)) = Blocks(Len(bytes)) /\ Blocks(Len(bytes)) \in Nat
         /\ \A b \in 1..Blocks(Len(bytes)) : Chunks(bytes)[b] = Chunk(bytes, b)
<1>1. Blocks(Len(bytes)) \in Nat /\ Len(bytes) \in Nat
  BY BlockCount, LenProperties
<1>2. Chunks(bytes) \in Seq(Piece)
  BY ChunksType
<1>3. DOMAIN Chunks(bytes) = 1..Blocks(Len(bytes))
  BY DEF Chunks
<1>4. Len(Chunks(bytes)) \in Nat /\ DOMAIN Chunks(bytes) = 1..Len(Chunks(bytes))
  BY <1>2, LenProperties
<1>5. \A b \in 1..Blocks(Len(bytes)) : Chunks(bytes)[b] = Chunk(bytes, b)
  BY DEF Chunks, Chunk
<1> HIDE DEF Chunk
<1> QED BY <1>1, <1>3, <1>4, <1>5

\* Two windows of equal length with equal contents.
LEMMA SameWindow ==
  ASSUME NEW a \in Seq(Byte), NEW b \in Seq(Byte), NEW m \in Nat, NEW n \in Nat, NEW k \in Nat,
         m + k <= Len(a), n + k <= Len(b), \A i \in 1..k : a[m + i] = b[n + i]
  PROVE  SubSeq(a, m + 1, m + k) = SubSeq(b, n + 1, n + k)
<1>1. Len(a) \in Nat /\ Len(b) \in Nat
  BY LenProperties
<1>2. \A i \in m + 1..m + k : a[i] \in Byte
  BY <1>1, ElementOfSeq
<1>3. \A i \in n + 1..n + k : b[i] \in Byte
  BY <1>1, ElementOfSeq
<1>4. /\ SubSeq(a, m + 1, m + k) \in Seq(Byte)
      /\ Len(SubSeq(a, m + 1, m + k)) = IF m + 1 <= m + k THEN m + k - (m + 1) + 1 ELSE 0
      /\ \A i \in 1..m + k - (m + 1) + 1 : SubSeq(a, m + 1, m + k)[i] = a[m + 1 + i - 1]
  BY <1>2, SubSeqProperties
<1>5. /\ SubSeq(b, n + 1, n + k) \in Seq(Byte)
      /\ Len(SubSeq(b, n + 1, n + k)) = IF n + 1 <= n + k THEN n + k - (n + 1) + 1 ELSE 0
      /\ \A i \in 1..n + k - (n + 1) + 1 : SubSeq(b, n + 1, n + k)[i] = b[n + 1 + i - 1]
  BY <1>3, SubSeqProperties
<1>6. Len(SubSeq(a, m + 1, m + k)) = k /\ Len(SubSeq(b, n + 1, n + k)) = k
  BY <1>4, <1>5
<1>7. \A i \in 1..k : SubSeq(a, m + 1, m + k)[i] = SubSeq(b, n + 1, n + k)[i]
  <2> TAKE i \in 1..k
  <2>1. m + 1 + i - 1 = m + i /\ n + 1 + i - 1 = n + i
    OBVIOUS
  <2>2. i \in 1..m + k - (m + 1) + 1 /\ i \in 1..n + k - (n + 1) + 1
    OBVIOUS
  <2> QED BY <1>4, <1>5, <2>1, <2>2
<1> QED BY <1>4, <1>5, <1>6, <1>7, SeqEqual

\* Concatenation, under a name the provers do not look into.
Joint(a, b) == a \o b

\* Joining two texts.
LEMMA Joined ==
  ASSUME NEW S, NEW a \in Seq(S), NEW b \in Seq(S), NEW c, c = a \o b
  PROVE  /\ c \in Seq(S) /\ Len(c) = Len(a) + Len(b) /\ Len(a) \in Nat /\ Len(b) \in Nat
         /\ \A i \in 1..Len(a) : c[i] = a[i]
         /\ \A i \in 1..Len(b) : c[Len(a) + i] = b[i]
<1>1. /\ c \in Seq(S) /\ Len(c) = Len(a) + Len(b)
      /\ \A i \in 1..Len(a) + Len(b) : c[i] = IF i <= Len(a) THEN a[i] ELSE b[i - Len(a)]
  BY ConcatProperties
<1> PICK m, n : m = Len(a) /\ n = Len(b)
  OBVIOUS
<1>2. m \in Nat /\ n \in Nat
  BY LenProperties
<1>3. \A i \in 1..m : i \in 1..m + n /\ i <= m
  BY <1>2
<1>4. \A i \in 1..n : m + i \in 1..m + n /\ ~(m + i <= m) /\ m + i - m = i
  BY <1>2
<1> QED BY <1>1, <1>2, <1>3, <1>4

LEMMA JoinedPieces ==
  ASSUME NEW x \in Seq(Piece), NEW y \in Seq(Piece), NEW d, d = x \o y
  PROVE  /\ d \in Seq(Piece) /\ Len(d) = Len(x) + Len(y)
         /\ \A i \in 1..Len(x) : d[i] = x[i]
         /\ \A i \in 1..Len(y) : d[Len(x) + i] = y[i]
BY Joined

LEMMA PiecesAssociate ==
  ASSUME NEW x \in Seq(Piece), NEW y \in Seq(Piece), NEW z \in Seq(Piece)
  PROVE  Joint(Joint(x, y), z) = Joint(x, Joint(y, z))
BY ConcatAssociative DEF Joint

\* A text that begins with one and goes on with another.
LEMMA Pasted ==
  ASSUME NEW S, NEW a \in Seq(S), NEW b \in Seq(S), NEW d \in Seq(S),
         Len(d) = Len(a) + Len(b),
         \A i \in 1..Len(a) : d[i] = a[i], \A i \in 1..Len(b) : d[Len(a) + i] = b[i]
  PROVE  a \o b = d
<1> PICK c, m, n : c = a \o b /\ m = Len(a) /\ n = Len(b)
  OBVIOUS
<1>1. /\ c \in Seq(S) /\ Len(c) = m + n /\ m \in Nat /\ n \in Nat
      /\ \A i \in 1..m : c[i] = a[i]
      /\ \A i \in 1..n : c[m + i] = b[i]
  <2>1. /\ c \in Seq(S) /\ Len(c) = Len(a) + Len(b) /\ Len(a) \in Nat /\ Len(b) \in Nat
        /\ \A i \in 1..Len(a) : c[i] = a[i]
        /\ \A i \in 1..Len(b) : c[Len(a) + i] = b[i]
    BY Joined
  <2> QED BY <2>1
<1>2. ASSUME NEW i \in 1..m + n PROVE c[i] = d[i]
  <2>1. CASE i <= m
    <3>1. i \in 1..m
      BY <1>1, <2>1
    <3> QED BY <1>1, <3>1
  <2>2. CASE ~(i <= m)
    <3> PICK j : j = i - m
      OBVIOUS
    <3>1. j \in 1..n /\ m + j = i
      BY <1>1, <2>2
    <3>2. c[m + j] = b[j] /\ d[m + j] = b[j]
      BY <1>1, <3>1
    <3> QED BY <3>1, <3>2
  <2> QED BY <2>1, <2>2
<1>3. Len(d) = m + n
  OBVIOUS
<1>4. c = d
  BY <1>1, <1>2, <1>3, SeqEqual
<1> QED BY <1>4

\* Whole blocks followed by anything are cut where the two are cut.
LEMMA ChunksConcat ==
  ASSUME NEW a \in Seq(Byte), Len(a) \in Starts, NEW b \in Seq(Byte)
  PROVE  Joint(Chunks(a), Chunks(b)) = Chunks(Joint(a, b))
<1>q. PICK q \in Nat : Len(a) = q * Block
  BY DEF Starts
<1>c. PICK c : c = a \o b
  OBVIOUS
<1>n. PICK n : n = Len(b)
  OBVIOUS
<1>u. PICK u : u = Len(a)
  OBVIOUS
<1>1. /\ c \in Seq(Byte) /\ n \in Nat /\ u \in Nat /\ Len(c) = u + n
      /\ \A i \in 1..u : c[i] = a[i]
      /\ \A i \in 1..n : c[u + i] = b[i]
  <2> PICK v, w : v = a /\ w = b
    OBVIOUS
  <2>1. /\ c \in Seq(Byte) /\ Len(c) = Len(v) + Len(w) /\ Len(v) \in Nat /\ Len(w) \in Nat
        /\ \A i \in 1..Len(v) : c[i] = v[i]
        /\ \A i \in 1..Len(w) : c[Len(v) + i] = w[i]
    BY <1>c, Joined
  <2> QED BY <1>n, <1>u, <2>1
<1>2. Blocks(Len(c)) = q + Blocks(n) /\ Blocks(Len(a)) = q /\ Blocks(n) \in Nat
  <2>1. Blocks(Len(c)) = Blocks(q * Block + n) /\ Blocks(Len(a)) = Blocks(q * Block)
    BY <1>q, <1>u, <1>1
  <2> QED BY <1>1, <2>1, BlocksAdd, BlocksOfWhole, BlockCount
<1>k. PICK k : k = Blocks(n)
  OBVIOUS
<1>3. /\ Chunks(a) \in Seq(Piece) /\ Chunks(b) \in Seq(Piece) /\ Chunks(c) \in Seq(Piece)
      /\ Len(Chunks(a)) = q /\ Len(Chunks(b)) = k /\ Len(Chunks(c)) = q + k
      /\ k \in Nat
      /\ \A j \in 1..q : Chunks(a)[j] = Chunk(a, j)
      /\ \A j \in 1..k : Chunks(b)[j] = Chunk(b, j)
      /\ \A j \in 1..q + k : Chunks(c)[j] = Chunk(c, j)
  BY <1>1, <1>2, <1>n, <1>k, ChunksOf, ChunksType
<1>d. PICK d : d = Chunks(a) \o Chunks(b)
  OBVIOUS
<1>4. /\ d \in Seq(Piece) /\ Len(d) = q + k
      /\ \A j \in 1..q : d[j] = Chunks(a)[j]
      /\ \A j \in 1..k : d[q + j] = Chunks(b)[j]
  <2> PICK x, y : x = Chunks(a) /\ y = Chunks(b)
    OBVIOUS
  <2>1. x \in Seq(Piece) /\ y \in Seq(Piece) /\ d = x \o y
    BY <1>3, <1>d
  <2>2. /\ d \in Seq(Piece) /\ Len(d) = Len(x) + Len(y)
        /\ \A i \in 1..Len(x) : d[i] = x[i]
        /\ \A i \in 1..Len(y) : d[Len(x) + i] = y[i]
    BY <2>1, JoinedPieces
  <2>3. Len(x) = q /\ Len(y) = k
    BY <1>3
  <2> QED BY <2>2, <2>3
<1>5. ASSUME NEW j \in 1..q PROVE Chunk(a, j) = Chunk(c, j)
  <2>l. PICK lo : lo = (j - 1) * Block
    OBVIOUS
  <2>1. lo \in Nat /\ j * Block = lo + Block
    BY <2>l, StreamAssumption
  <2>2. j * Block <= q * Block
    BY StreamAssumption
  <2>3. lo + Block <= u /\ lo + Block <= u + n /\ Block \in Nat
    <3>1. u = q * Block
      BY <1>q, <1>u
    <3>2. u \in Nat /\ n \in Nat /\ Block \in Nat
      BY <1>1, StreamAssumption
    <3> QED BY <2>1, <2>2, <3>1, <3>2
  <2>4. \A i \in 1..Block : a[lo + i] = c[lo + i]
    <3> TAKE i \in 1..Block
    <3>1. lo + i \in 1..u
      BY <1>1, <2>1, <2>3
    <3> QED BY <1>1, <3>1
  <2>5. SubSeq(a, lo + 1, lo + Block) = SubSeq(c, lo + 1, lo + Block)
    BY <1>1, <1>u, <2>1, <2>3, <2>4, SameWindow
  <2>6. Chunk(a, j) = SubSeq(a, lo + 1, lo + Block)
    BY <1>u, <2>l, <2>1, <2>3 DEF Chunk
  <2>7. Chunk(c, j) = SubSeq(c, lo + 1, lo + Block)
    BY <1>1, <2>l, <2>1, <2>3 DEF Chunk
  <2> QED BY <2>5, <2>6, <2>7
<1>6. ASSUME NEW j \in 1..k PROVE Chunk(b, j) = Chunk(c, q + j)
  <2>l. PICK lo : lo = (j - 1) * Block
    OBVIOUS
  <2>m. PICK m : m = IF lo + Block <= n THEN Block ELSE n - lo
    OBVIOUS
  <2>1. lo \in Nat /\ j * Block = lo + Block
    BY <1>3, <2>l, StreamAssumption
  <2>2. lo + 1 <= n
    BY <1>1, <1>k, <2>l, BlockCount
  <2>3. /\ m \in Nat /\ lo + m <= n /\ u + lo \in Nat /\ u + lo + m <= u + n
        /\ lo + m = (IF lo + Block <= n THEN lo + Block ELSE n)
        /\ u + lo + m = (IF u + lo + Block <= u + n THEN u + lo + Block ELSE u + n)
        /\ \A i \in 1..m : lo + i \in 1..n /\ u + (lo + i) = u + lo + i
    <3>1. n \in Nat /\ u \in Nat /\ lo \in Nat /\ Block \in Nat
      BY <1>1, <2>1, StreamAssumption
    <3>2. m \in Nat /\ lo + m <= n
      BY <2>2, <2>m, <3>1
    <3> QED BY <2>2, <2>m, <3>1, <3>2
  <2>4. (q + j - 1) * Block = u + lo /\ (q + j) * Block = u + lo + Block
    <3>1. j \in Nat /\ Block \in Nat /\ q * Block = u
      BY <1>3, <1>q, <1>u, StreamAssumption
    <3>2. /\ (q + j - 1) * Block = q * Block + (j - 1) * Block
          /\ (q + j) * Block = q * Block + j * Block
      BY <3>1
    <3>3. (q + j - 1) * Block = u + lo /\ (q + j) * Block = u + (lo + Block)
      BY <2>1, <2>l, <3>1, <3>2
    <3> QED BY <1>1, <2>1, <3>1, <3>3
  <2>5. \A i \in 1..m : b[lo + i] = c[u + lo + i]
    BY <1>1, <2>3
  <2>6. SubSeq(b, lo + 1, lo + m) = SubSeq(c, u + lo + 1, u + lo + m)
    <3>w. PICK w \in Nat : w = u + lo
      BY <2>3
    <3>1. lo \in Nat /\ m \in Nat /\ lo + m <= Len(b) /\ w + m <= Len(c) /\ c \in Seq(Byte)
      BY <1>1, <1>n, <2>1, <2>3, <3>w
    <3>2. \A i \in 1..m : b[lo + i] = c[w + i]
      BY <2>5, <3>w
    <3>3. SubSeq(b, lo + 1, lo + m) = SubSeq(c, w + 1, w + m)
      BY <3>1, <3>2, SameWindow
    <3> QED BY <3>3, <3>w
  <2>7. Chunk(b, j) = SubSeq(b, lo + 1, lo + m)
    BY <1>n, <2>l, <2>1, <2>3 DEF Chunk
  <2>8. Chunk(c, q + j) = SubSeq(c, u + lo + 1, u + lo + m)
    <3> PICK h, from, to : h = q + j /\ from = (h - 1) * Block /\ to = h * Block
      OBVIOUS
    <3>1. from = u + lo /\ to = u + lo + Block /\ Len(c) = u + n
      BY <1>1, <2>4
    <3>2. Chunk(c, h) = SubSeq(c, from + 1, IF to <= Len(c) THEN to ELSE Len(c))
      BY DEF Chunk
    <3>3. Chunk(c, h) = SubSeq(c, u + lo + 1,
              IF u + lo + Block <= u + n THEN u + lo + Block ELSE u + n)
      BY <3>1, <3>2
    <3> QED BY <2>3, <3>3
  <2> QED BY <2>6, <2>7, <2>8
<1>7. ASSUME NEW j \in 1..q + k
      PROVE  d[j] = Chunks(c)[j]
  <2>1. CASE j <= q
    <3>1. j \in 1..q
      BY <2>1
    <3> QED BY <1>3, <1>4, <1>5, <3>1
  <2>2. CASE ~(j <= q)
    <3> PICK i : i = j - q
      OBVIOUS
    <3>1. i \in 1..k /\ q + i = j
      BY <1>3, <2>2
    <3>2. d[q + i] = Chunk(b, i) /\ Chunk(b, i) = Chunk(c, q + i)
      BY <1>3, <1>4, <1>6, <3>1
    <3> QED BY <1>3, <3>1, <3>2
  <2> QED BY <2>1, <2>2
<1>8. d = Chunks(c)
  <2> PICK t : t = Chunks(c)
    OBVIOUS
  <2>1. t \in Seq(Piece) /\ Len(d) = Len(t) /\ \A i \in 1..Len(d) : d[i] = t[i]
    BY <1>3, <1>4, <1>7
  <2> QED BY <1>4, <2>1, SeqEqual
<1> QED BY <1>8, <1>c, <1>d DEF Joint

LEMMA ChunksOfNothing == Chunks(<< >>) = << >>
<1>1. << >> \in Seq(Byte) /\ Len(<< >>) = 0
  OBVIOUS
<1>2. Chunks(<< >>) \in Seq(Piece) /\ Len(Chunks(<< >>)) = 0
  BY <1>1, BlocksOfWhole, ChunksOf, ChunksType
<1> QED BY <1>2, EmptySeq

-----------------------------------------------------------------------------
(* Stretches of the ciphertext AES-GCM gives a message.                    *)

GcmByte(iv, i) == [pt |-> <<iv, i>>, ks |-> KsByte(iv, 2, i - 1)]
Stretch(iv, from, n) == [i \in 1..n |-> GcmByte(iv, from + i)]

LEMMA GcmByteType ==
  ASSUME NEW iv \in Nat, NEW i \in Nat, i >= 1
  PROVE  GcmByte(iv, i) \in Byte
<1>1. i - 1 \in Nat /\ 2 \in Nat
  OBVIOUS
<1>2. KsByte(iv, 2, i - 1) \in Nat \X Nat \X Nat
  BY <1>1, KsByteType
<1> QED BY <1>2 DEF GcmByte, Byte

LEMMA GcmByteAt ==
  ASSUME NEW iv, NEW i \in Nat
  PROVE  GcmByte(iv, i + 1) = [pt |-> <<iv, i + 1>>, ks |-> KsByte(iv, 2, i)]
<1> PICK j : j = i + 1
  OBVIOUS
<1>1. j - 1 = i
  OBVIOUS
<1>2. GcmByte(iv, j) = [pt |-> <<iv, j>>, ks |-> KsByte(iv, 2, j - 1)]
  BY DEF GcmByte
<1>3. GcmByte(iv, j) = [pt |-> <<iv, j>>, ks |-> KsByte(iv, 2, i)]
  BY <1>1, <1>2
<1> QED BY <1>3

\* The byte at place q * Block + m is in the q-th block, at place m % Block of
\* its keystream: a buffer that starts there continues GCM's keystream.
LEMMA KeystreamContinues ==
  ASSUME NEW iv, NEW q \in Nat, NEW m \in Nat
  PROVE  KsByte(iv, 2 + q, m) = KsByte(iv, 2, q * Block + m)
<1>1. (q * Block + m) \div Block = q + (m \div Block) /\ (q * Block + m) % Block = m % Block
  BY WholeBlocks
<1>2. m \div Block \in Nat
  BY Division
<1>3. 2 + q + (m \div Block) = 2 + (q + (m \div Block))
  BY <1>2
<1> QED BY <1>1, <1>3 DEF KsByte

LEMMA StretchType ==
  ASSUME NEW iv \in Nat, NEW from \in Nat, NEW n \in Nat
  PROVE  /\ Stretch(iv, from, n) \in Seq(Byte) /\ Len(Stretch(iv, from, n)) = n
         /\ \A i \in 1..n : Stretch(iv, from, n)[i] = GcmByte(iv, from + i)
<1>1. ASSUME NEW i \in 1..n PROVE GcmByte(iv, from + i) \in Byte
  BY GcmByteType
<1>2. Stretch(iv, from, n) \in [1..n -> Byte]
  BY <1>1 DEF Stretch
<1>3. Stretch(iv, from, n) \in Seq(Byte)
  BY <1>2, SeqDef
<1>4. DOMAIN Stretch(iv, from, n) = 1..n
  BY DEF Stretch
<1>5. \A i \in 1..n : Stretch(iv, from, n)[i] = GcmByte(iv, from + i)
  BY DEF Stretch
<1> QED BY <1>3, <1>4, <1>5, LenProperties

LEMMA StretchOfNothing ==
  ASSUME NEW iv \in Nat, NEW from \in Nat
  PROVE  Stretch(iv, from, 0) = << >>
BY StretchType, EmptySeq

\* Two adjoining stretches.
LEMMA StretchConcat ==
  ASSUME NEW iv \in Nat, NEW m \in Nat, NEW n \in Nat
  PROVE  Joint(Stretch(iv, 0, m), Stretch(iv, m, n)) = Stretch(iv, 0, m + n)
<1> PICK a, b, d : a = Stretch(iv, 0, m) /\ b = Stretch(iv, m, n) /\ d = Stretch(iv, 0, m + n)
  OBVIOUS
<1>1. a \in Seq(Byte) /\ Len(a) = m /\ b \in Seq(Byte) /\ Len(b) = n
  BY StretchType
<1>2. d \in Seq(Byte) /\ Len(d) = m + n
  <2> PICK l \in Nat : l = m + n
    OBVIOUS
  <2>1. d = Stretch(iv, 0, l)
    OBVIOUS
  <2> QED BY <2>1, StretchType
<1>3. ASSUME NEW i \in 1..m PROVE d[i] = a[i]
  BY DEF Stretch
<1>4. ASSUME NEW i \in 1..n PROVE d[m + i] = b[i]
  <2> PICK j \in 1..m + n : j = m + i
    OBVIOUS
  <2>1. 0 + j = m + i
    OBVIOUS
  <2>2. d[j] = GcmByte(iv, 0 + j) /\ b[i] = GcmByte(iv, m + i)
    BY DEF Stretch
  <2> QED BY <2>1, <2>2
<1>5. a \o b = d
  <2>1. /\ Len(d) = Len(a) + Len(b) /\ \A i \in 1..Len(a) : d[i] = a[i]
        /\ \A i \in 1..Len(b) : d[Len(a) + i] = b[i]
    BY <1>1, <1>2, <1>3, <1>4
  <2>2. a \in Seq(Byte) /\ b \in Seq(Byte) /\ d \in Seq(Byte)
    BY <1>1, <1>2
  <2> QED BY <2>1, <2>2, Pasted
<1> QED BY <1>5 DEF Joint

\* A stretch and the next byte.
LEMMA StretchAppend ==
  ASSUME NEW iv \in Nat, NEW from \in Nat, NEW n \in Nat
  PROVE  Append(Stretch(iv, from, n), GcmByte(iv, from + n + 1)) = Stretch(iv, from, n + 1)
<1> PICK a, x, c, d, l : /\ a = Stretch(iv, from, n) /\ x = GcmByte(iv, l)
                         /\ c = Append(a, x) /\ d = Stretch(iv, from, n + 1) /\ l = from + n + 1
  OBVIOUS
<1>1. a \in Seq(Byte) /\ Len(a) = n /\ d \in Seq(Byte) /\ Len(d) = n + 1
  <2> PICK j : j = n + 1
    OBVIOUS
  <2>1. j \in Nat /\ d = Stretch(iv, from, j)
    OBVIOUS
  <2> QED BY <2>1, StretchType
<1>2. x \in Byte
  <2>1. l \in Nat /\ l >= 1
    OBVIOUS
  <2> QED BY <2>1, GcmByteType
<1>3. /\ c \in Seq(Byte) /\ Len(c) = n + 1 /\ c[n + 1] = x
      /\ \A i \in 1..n : c[i] = a[i]
  BY <1>1, <1>2, AppendProperties
<1>4. ASSUME NEW i \in 1..n PROVE d[i] = a[i]
  BY DEF Stretch
<1>5. d[n + 1] = x
  <2>1. n + 1 \in 1..n + 1 /\ from + (n + 1) = l
    OBVIOUS
  <2>2. d[n + 1] = GcmByte(iv, from + (n + 1))
    BY <2>1 DEF Stretch
  <2> QED BY <2>1, <2>2
<1>6. \A i \in 1..n + 1 : c[i] = d[i]
  BY <1>3, <1>4, <1>5
<1>7. c = d
  BY <1>1, <1>3, <1>6, SeqEqual
<1> QED BY <1>7

\* The additional data.
LEMMA AadBytes ==
  ASSUME NEW iv \in Nat, NEW from \in Nat, NEW n \in Nat
  PROVE  Aad(iv, from, n) \in Seq(Byte) /\ Len(Aad(iv, from, n)) = n
<1>1. Aad(iv, from, n) \in Seq(Byte)
  BY PlainType
<1>2. DOMAIN Aad(iv, from, n) = 1..n
  BY DEF Aad
<1> QED BY <1>1, <1>2, LenProperties

LEMMA AadConcat ==
  ASSUME NEW iv \in Nat, NEW m \in Nat, NEW n \in Nat
  PROVE  Joint(Aad(iv, 0, m), Aad(iv, m, n)) = Aad(iv, 0, m + n)
<1> PICK a, b, d : a = Aad(iv, 0, m) /\ b = Aad(iv, m, n) /\ d = Aad(iv, 0, m + n)
  OBVIOUS
<1>1. a \in Seq(Byte) /\ Len(a) = m /\ b \in Seq(Byte) /\ Len(b) = n
  BY AadBytes
<1>2. d \in Seq(Byte) /\ Len(d) = m + n
  <2> PICK l : l = m + n
    OBVIOUS
  <2>1. l \in Nat /\ d = Aad(iv, 0, l)
    OBVIOUS
  <2> QED BY <2>1, AadBytes
<1>3. ASSUME NEW i \in 1..m PROVE d[i] = a[i]
  BY DEF Aad
<1>4. ASSUME NEW i \in 1..n PROVE d[m + i] = b[i]
  <2> PICK j : j = m + i
    OBVIOUS
  <2>1. j \in 1..m + n /\ 0 + j = m + i
    OBVIOUS
  <2>2. d[j] = [pt |-> <<iv, 0 + j>>, ks |-> NoKey] /\ b[i] = [pt |-> <<iv, m + i>>, ks |-> NoKey]
    BY <2>1 DEF Aad
  <2> QED BY <2>1, <2>2
<1>5. a \o b = d
  <2>1. /\ Len(d) = Len(a) + Len(b) /\ \A i \in 1..Len(a) : d[i] = a[i]
        /\ \A i \in 1..Len(b) : d[Len(a) + i] = b[i]
    BY <1>1, <1>2, <1>3, <1>4
  <2>2. a \in Seq(Byte) /\ b \in Seq(Byte) /\ d \in Seq(Byte)
    BY <1>1, <1>2
  <2> QED BY <2>1, <2>2, Pasted
<1> QED BY <1>5 DEF Joint

-----------------------------------------------------------------------------
(* One direction of a wrapper on the way through an ordered message: n     *)
(* bytes of payload behind a bytes of AAD.  The first d bytes have been    *)
(* absorbed, the others wait in the GMAC buffer; if any wait, they began   *)
(* at a block, with a fresh buffer of keystream.                           *)

Heard(iv, a, d) == Chunks(Aad(iv, 0, a)) \o Chunks(Stretch(iv, 0, d))

Waiting(iv, n, d, ctr, ks, pos) ==
    \E q \in Nat : /\ d = q * Block /\ pos = n - d
                   /\ ks = <<iv, 2 + q>> /\ ctr = 2 + q + Wide

OnCourse(iv, a, n, hash, ctr, ks, pos, gmac) ==
    \E d \in 0..n :
        /\ gmac = Stretch(iv, d, n - d) /\ n - d < End /\ hash = Heard(iv, a, d)
        /\ n = d => pos = End /\ ctr = 2 + Blocks(n)
        /\ n # d => Waiting(iv, n, d, ctr, ks, pos)

LEMMA HeardType ==
  ASSUME NEW iv \in Nat, NEW a \in Nat, NEW d \in Nat
  PROVE  /\ Chunks(Aad(iv, 0, a)) \in Seq(Piece) /\ Chunks(Stretch(iv, 0, d)) \in Seq(Piece)
         /\ Heard(iv, a, d) \in Seq(Piece)
<1>1. Aad(iv, 0, a) \in Seq(Byte) /\ Stretch(iv, 0, d) \in Seq(Byte)
  BY AadBytes, StretchType
<1>2. Chunks(Aad(iv, 0, a)) \in Seq(Piece) /\ Chunks(Stretch(iv, 0, d)) \in Seq(Piece)
  BY <1>1, ChunksType
<1> QED BY <1>2, ConcatProperties DEF Heard

\* Whole blocks have been absorbed; the next stretch follows.
LEMMA HeardMore ==
  ASSUME NEW iv \in Nat, NEW a \in Nat, NEW d \in Nat, d \in Starts, NEW m \in Nat
  PROVE  Joint(Heard(iv, a, d), Chunks(Stretch(iv, d, m))) = Heard(iv, a, d + m)
<1> PICK v, b, w, x, y, z : /\ v = Stretch(iv, 0, d) /\ b = Stretch(iv, d, m)
                            /\ w = Stretch(iv, 0, d + m)
                            /\ x = Chunks(Aad(iv, 0, a)) /\ y = Chunks(v) /\ z = Chunks(b)
  OBVIOUS
<1>1. /\ v \in Seq(Byte) /\ Len(v) = d /\ b \in Seq(Byte)
  BY StretchType
<1>2. x \in Seq(Piece) /\ y \in Seq(Piece) /\ z \in Seq(Piece)
  BY <1>1, ChunksType, HeardType
<1>3. Joint(Joint(x, y), z) = Joint(x, Joint(y, z))
  BY <1>2, PiecesAssociate
<1>4. Joint(v, b) = w
  BY StretchConcat
<1>5. Joint(y, z) = Chunks(w)
  <2>1. Len(v) \in Starts
    BY <1>1
  <2>2. Joint(y, z) = Chunks(Joint(v, b))
    BY <1>1, <2>1, ChunksConcat
  <2> QED BY <1>4, <2>2
<1>6. Heard(iv, a, d) = Joint(x, y) /\ Heard(iv, a, d + m) = Joint(x, Chunks(w))
  BY DEF Heard, Joint
<1> QED BY <1>3, <1>5, <1>6

\* Nothing has been absorbed of a message that has just begun.
LEMMA HeardNothing ==
  ASSUME NEW iv \in Nat
  PROVE  Heard(iv, 0, 0) = << >>
<1>1. Aad(iv, 0, 0) = << >>
  BY AadBytes, EmptySeq
<1>2. Stretch(iv, 0, 0) = << >>
  BY StretchOfNothing
<1> QED BY <1>1, <1>2, ChunksOfNothing DEF Heard

LEMMA CourseBegins ==
  ASSUME NEW iv \in Nat, NEW ks
  PROVE  OnCourse(iv, 0, 0, << >>, 2, ks, End, << >>)
<1>1. Stretch(iv, 0, 0 - 0) = << >> /\ Heard(iv, 0, 0) = << >>
  <2>1. 0 - 0 = 0
    OBVIOUS
  <2> QED BY <2>1, StretchOfNothing, HeardNothing
<1>2. Blocks(0) = 0
  BY BlocksOfWhole
<1>3. 0 \in 0..0 /\ 0 - 0 < End /\ 2 = 2 + 0
  BY EndPositive
<1> QED BY <1>1, <1>2, <1>3 DEF OnCourse

\* Additional data, before any payload and behind whole blocks of it.
LEMMA CourseAad ==
  ASSUME NEW iv \in Nat, NEW a \in Nat, a % Block = 0, NEW hash, NEW ctr, NEW ks, NEW pos,
         NEW gmac, OnCourse(iv, a, 0, hash, ctr, ks, pos, gmac), NEW k \in Nat
  PROVE  OnCourse(iv, a + k, 0, Joint(hash, Chunks(Aad(iv, a, k))), ctr, ks, pos, gmac)
<1>1. hash = Heard(iv, a, 0)
  BY DEF OnCourse
<1>2. a \in Starts
  BY Whole DEF Starts
<1> PICK x, y : x = Aad(iv, 0, a) /\ y = Aad(iv, a, k)
  OBVIOUS
<1>3. x \in Seq(Byte) /\ Len(x) = a /\ y \in Seq(Byte) /\ Joint(x, y) = Aad(iv, 0, a + k)
  <2>1. x \in Seq(Byte) /\ Len(x) = a
    <3>1. 0 \in Nat
      OBVIOUS
    <3> QED BY <3>1, AadBytes
  <2>2. y \in Seq(Byte)
    BY AadBytes
  <2> QED BY <2>1, <2>2, AadConcat
<1>4. Joint(Chunks(x), Chunks(y)) = Chunks(Aad(iv, 0, a + k))
  <2>1. Len(x) \in Starts
    BY <1>2, <1>3
  <2>2. Joint(Chunks(x), Chunks(y)) = Chunks(Joint(x, y))
    BY <1>3, <2>1, ChunksConcat
  <2> QED BY <1>3, <2>2
<1>5. a + k \in Nat
  OBVIOUS
<1>6. \A b \in Nat : Heard(iv, b, 0) = Chunks(Aad(iv, 0, b))
  <2> TAKE b \in Nat
  <2>1. Stretch(iv, 0, 0) = << >>
    BY StretchOfNothing
  <2>2. Chunks(Aad(iv, 0, b)) \in Seq(Piece)
    BY HeardType
  <2>3. Chunks(Aad(iv, 0, b)) \o << >> = Chunks(Aad(iv, 0, b))
    BY <2>2, ConcatEmptySeq
  <2> QED BY <2>1, <2>3, ChunksOfNothing DEF Heard
<1>7. Joint(hash, Chunks(y)) = Heard(iv, a + k, 0)
  BY <1>1, <1>4, <1>5, <1>6
<1> QED BY <1>7 DEF OnCourse

\* All of a message's ciphertext has been absorbed once the buffer has.
LEMMA CourseEnds ==
  ASSUME NEW iv \in Nat, NEW a \in Nat, NEW n \in Nat, NEW hash, NEW ctr, NEW ks, NEW pos,
         NEW gmac, OnCourse(iv, a, n, hash, ctr, ks, pos, gmac)
  PROVE  Joint(hash, Chunks(gmac)) = Heard(iv, a, n)
<1> PICK d \in 0..n :
        /\ gmac = Stretch(iv, d, n - d) /\ hash = Heard(iv, a, d)
        /\ n # d => d \in Starts
  BY DEF OnCourse, Waiting, Starts
<1>1. CASE n = d
  <2>1. n - d = 0
    BY <1>1
  <2>2. gmac = << >>
    BY <2>1, StretchOfNothing
  <2>3. hash \o << >> = hash
    <3>1. hash \in Seq(Piece)
      BY HeardType
    <3> QED BY <3>1, ConcatEmptySeq
  <2> QED BY <1>1, <2>2, <2>3, ChunksOfNothing DEF Joint
<1>2. CASE n # d
  <2> PICK m \in Nat : m = n - d
    OBVIOUS
  <2>1. Joint(hash, Chunks(gmac)) = Heard(iv, a, n)
    <3>1. d \in Nat /\ d \in Starts
      BY <1>2
    <3>2. n = d + m /\ gmac = Stretch(iv, d, m) /\ hash = Heard(iv, a, d)
      OBVIOUS
    <3>3. Joint(Heard(iv, a, d), Chunks(Stretch(iv, d, m))) = Heard(iv, a, d + m)
      BY <3>1, HeardMore
    <3> QED BY <3>2, <3>3
  <2> QED BY <2>1
<1> QED BY <1>1, <1>2

-----------------------------------------------------------------------------
(* A byte stored on course.                                                *)

\* A wrapper on course that has keystream for the next byte: q whole blocks
\* absorbed, m bytes waiting.
AtByte(iv, a, n, hash, ctr, ks, pos, gmac, q, m) ==
    /\ m < End /\ n = q * Block + m /\ pos = m
    /\ gmac = Stretch(iv, q * Block, m) /\ hash = Heard(iv, a, q * Block)
    /\ ks = <<iv, 2 + q>> /\ ctr = 2 + q + Wide

\* A buffer of keystream, generated anew if it was spent.
Refilled(iv, ctr, ks, pos, ctr1, ks1, pos1) ==
    IF pos = End THEN ks1 = <<iv, ctr>> /\ ctr1 = ctr + Wide /\ pos1 = 0
                 ELSE ks1 = ks /\ ctr1 = ctr /\ pos1 = pos

\* A buffer is begun where a block is.
MayStore(n, pos) == pos = End => n \in Starts

LEMMA CourseReady ==
  ASSUME NEW iv \in Nat, NEW a \in Nat, NEW n \in Nat, NEW hash, NEW ctr, NEW ks, NEW pos,
         NEW gmac, OnCourse(iv, a, n, hash, ctr, ks, pos, gmac),
         MayStore(n, pos), NEW ctr1, NEW ks1, NEW pos1,
         Refilled(iv, ctr, ks, pos, ctr1, ks1, pos1)
  PROVE  \E q, m \in Nat : AtByte(iv, a, n, hash, ctr1, ks1, pos1, gmac, q, m)
<1>d. PICK d \in 0..n :
        /\ gmac = Stretch(iv, d, n - d) /\ n - d < End /\ hash = Heard(iv, a, d)
        /\ n = d => pos = End /\ ctr = 2 + Blocks(n)
        /\ n # d => Waiting(iv, n, d, ctr, ks, pos)
  BY DEF OnCourse
<1>1. CASE n = d
  <2>1. pos = End /\ n \in Starts /\ ctr = 2 + Blocks(n) /\ n - d = 0
    BY <1>d, <1>1 DEF MayStore
  <2>q. PICK q \in Nat : n = q * Block
    BY <2>1 DEF Starts
  <2>2. Blocks(n) = q
    BY <2>q, BlocksOfWhole
  <2>3. n = n + 0 /\ 0 < End
    BY EndPositive
  <2>4. gmac = Stretch(iv, n, 0) /\ hash = Heard(iv, a, n)
    BY <1>d, <1>1, <2>1
  <2>5. ks1 = <<iv, 2 + q>> /\ ctr1 = 2 + q + Wide /\ pos1 = 0
    BY <2>1, <2>2 DEF Refilled
  <2>6. AtByte(iv, a, n, hash, ctr1, ks1, pos1, gmac, q, 0)
    BY <2>q, <2>3, <2>4, <2>5 DEF AtByte
  <2>7. 0 \in Nat
    OBVIOUS
  <2> QED BY <2>6, <2>7
<1>2. CASE n # d
  <2>q. PICK q \in Nat : d = q * Block /\ pos = n - d /\ ks = <<iv, 2 + q>> /\ ctr = 2 + q + Wide
    BY <1>d, <1>2 DEF Waiting
  <2>m. PICK m : m = n - d
    OBVIOUS
  <2>1. m \in Nat /\ n = d + m /\ m < End /\ pos = m
    BY <1>d, <2>m, <2>q
  <2>2. pos # End
    BY <2>1, EndPositive
  <2>3. ks1 = <<iv, 2 + q>> /\ ctr1 = 2 + q + Wide /\ pos1 = m
    BY <2>1, <2>2, <2>q DEF Refilled
  <2>4. AtByte(iv, a, n, hash, ctr1, ks1, pos1, gmac, q, m)
    BY <1>d, <2>1, <2>3, <2>m, <2>q DEF AtByte
  <2> QED BY <2>1, <2>4
<1> QED BY <1>1, <1>2

\* The next byte is the one GCM asks for, and the wrapper stays on course.
LEMMA CourseStore ==
  ASSUME NEW iv \in Nat, NEW a \in Nat, NEW n \in Nat, NEW hash, NEW ctr, NEW ks, NEW pos,
         NEW gmac, NEW q \in Nat, NEW m \in Nat,
         AtByte(iv, a, n, hash, ctr, ks, pos, gmac, q, m),
         NEW c, c = GcmByte(iv, n + 1)
  PROVE  /\ KsByte(ks[1], ks[2], pos) = KsByte(iv, 2, n)
         /\ OnCourse(iv, a, n + 1, Joint(hash, Absorbed(gmac, c)), ctr, ks, pos + 1,
                     Buffered(gmac, c))
         /\ MayStore(n + 1, pos + 1)
<1>d. PICK d : d = q * Block
  OBVIOUS
<1>e. PICK e : e = End
  OBVIOUS
<1>1. /\ m < e /\ n = d + m /\ pos = m
      /\ gmac = Stretch(iv, d, m) /\ hash = Heard(iv, a, d)
      /\ ks = <<iv, 2 + q>> /\ ctr = 2 + q + Wide /\ d \in Nat /\ d \in Starts /\ e \in Nat
  BY <1>d, <1>e, EndPositive, StreamAssumption DEF AtByte, Starts
<1>2. KsByte(ks[1], ks[2], pos) = KsByte(iv, 2, n)
  <2>1. KsByte(iv, 2 + q, m) = KsByte(iv, 2, d + m)
    BY <1>d, KeystreamContinues
  <2> QED BY <1>1, <2>1
<1>3. Append(gmac, c) = Stretch(iv, d, m + 1) /\ Len(gmac) = m
  <2>1. Append(Stretch(iv, d, m), GcmByte(iv, d + m + 1)) = Stretch(iv, d, m + 1)
    BY <1>1, StretchAppend
  <2>2. Len(Stretch(iv, d, m)) = m
    BY <1>1, StretchType
  <2> QED BY <1>1, <2>1, <2>2
<1>4. CASE m + 1 = e
  <2>1. Buffered(gmac, c) = << >> /\ Absorbed(gmac, c) = Chunks(Stretch(iv, d, e))
    BY <1>3, <1>4, <1>e DEF Buffered, Absorbed
  <2>2. Joint(hash, Absorbed(gmac, c)) = Heard(iv, a, d + e)
    BY <1>1, <2>1, HeardMore
  <2>3. n + 1 = d + e /\ pos + 1 = e
    BY <1>1, <1>4
  <2>4. d + e = (q + Wide) * Block /\ q + Wide \in Nat
    BY <1>d, <1>e, StreamAssumption DEF End
  <2>5. Blocks(d + e) = q + Wide /\ d + e \in Starts
    BY <2>4, BlocksOfWhole DEF Starts
  <2>6. ctr = 2 + Blocks(n + 1)
    BY <1>1, <2>3, <2>5, StreamAssumption
  <2>7. n + 1 \in 0..n + 1 /\ n + 1 \in Nat /\ n + 1 - (n + 1) = 0 /\ 0 < End
    BY EndPositive
  <2>8. Stretch(iv, n + 1, n + 1 - (n + 1)) = << >>
    BY <2>7, StretchOfNothing
  <2>9. OnCourse(iv, a, n + 1, Joint(hash, Absorbed(gmac, c)), ctr, ks, pos + 1, Buffered(gmac, c))
    BY <1>e, <2>1, <2>2, <2>3, <2>6, <2>7, <2>8 DEF OnCourse
  <2> QED BY <1>2, <2>3, <2>5, <2>9 DEF MayStore
<1>5. CASE m + 1 # e
  <2>1. Buffered(gmac, c) = Stretch(iv, d, m + 1) /\ Absorbed(gmac, c) = << >>
    BY <1>3, <1>5, <1>e DEF Buffered, Absorbed
  <2>2. Joint(hash, Absorbed(gmac, c)) = hash
    <3>1. hash \in Seq(Piece)
      BY <1>1, HeardType
    <3>2. hash \o << >> = hash
      BY <3>1, ConcatEmptySeq
    <3> QED BY <2>1, <3>2 DEF Joint
  <2>3. /\ n + 1 - d = m + 1 /\ m + 1 < e /\ n + 1 # d /\ d \in 0..n + 1
        /\ pos + 1 = m + 1
    BY <1>1, <1>5
  <2>4. Waiting(iv, n + 1, d, ctr, ks, pos + 1)
    BY <1>1, <1>d, <2>3 DEF Waiting
  <2>5. OnCourse(iv, a, n + 1, Joint(hash, Absorbed(gmac, c)), ctr, ks, pos + 1, Buffered(gmac, c))
    BY <1>1, <1>e, <2>1, <2>2, <2>3, <2>4 DEF OnCourse
  <2>6. pos + 1 # End
    BY <1>e, <1>5, <2>3
  <2> QED BY <1>2, <2>5, <2>6 DEF MayStore
<1> QED BY <1>4, <1>5

\* The two together.
LEMMA CourseByte ==
  ASSUME NEW iv \in Nat, NEW a \in Nat, NEW n \in Nat, NEW hash, NEW ctr, NEW ks, NEW pos,
         NEW gmac, OnCourse(iv, a, n, hash, ctr, ks, pos, gmac),
         MayStore(n, pos), NEW ctr1, NEW ks1, NEW pos1,
         Refilled(iv, ctr, ks, pos, ctr1, ks1, pos1)
  PROVE  /\ KsByte(ks1[1], ks1[2], pos1) = KsByte(iv, 2, n)
         /\ OnCourse(iv, a, n + 1, Joint(hash, Absorbed(gmac, GcmByte(iv, n + 1))), ctr1, ks1,
                     pos1 + 1, Buffered(gmac, GcmByte(iv, n + 1)))
         /\ MayStore(n + 1, pos1 + 1)
<1>1. PICK q, m \in Nat : AtByte(iv, a, n, hash, ctr1, ks1, pos1, gmac, q, m)
  BY CourseReady
<1> QED BY <1>1, CourseStore

-----------------------------------------------------------------------------
(* A copy on course.                                                       *)

\* What the engine makes of the text at a block boundary of the payload.
LEMMA CourseCopy ==
  ASSUME NEW iv \in Nat, NEW a \in Nat, NEW n \in Nat, NEW hash, NEW ctr, NEW ks, NEW pos,
         NEW gmac, OnCourse(iv, a, n, hash, ctr, ks, pos, gmac), pos = End, n \in Starts,
         NEW k \in Nat
  PROVE  /\ \A i \in Nat : KsByte(iv, ctr, i) = KsByte(iv, 2, n + i)
         /\ OnCourse(iv, a, n + k, Joint(hash, Chunks(Stretch(iv, n, k))), ctr + Blocks(k), ks,
                     pos, gmac)
<1>d. PICK d \in 0..n :
        /\ gmac = Stretch(iv, d, n - d) /\ n - d < End /\ hash = Heard(iv, a, d)
        /\ n = d => pos = End /\ ctr = 2 + Blocks(n)
        /\ n # d => Waiting(iv, n, d, ctr, ks, pos)
  BY DEF OnCourse
<1>1. n = d
  <2>1. ASSUME n # d PROVE FALSE
    <3>1. pos = n - d
      BY <1>d, <2>1 DEF Waiting
    <3> QED BY <1>d, <3>1, EndPositive
  <2> QED BY <2>1
<1>q. PICK q \in Nat : n = q * Block
  BY DEF Starts
<1>2. ctr = 2 + q /\ n - d = 0
  BY <1>1, <1>d, <1>q, BlocksOfWhole
<1>3. gmac = << >> /\ hash = Heard(iv, a, n)
  BY <1>1, <1>2, <1>d, StretchOfNothing
<1>4. ASSUME NEW i \in Nat PROVE KsByte(iv, ctr, i) = KsByte(iv, 2, n + i)
  <2>1. KsByte(iv, 2 + q, i) = KsByte(iv, 2, q * Block + i)
    BY KeystreamContinues
  <2> QED BY <1>2, <1>q, <2>1
<1>5. Joint(hash, Chunks(Stretch(iv, n, k))) = Heard(iv, a, n + k)
  BY <1>3, HeardMore
<1>6. ctr + Blocks(k) = 2 + Blocks(n + k)
  <2>1. Blocks(n + k) = q + Blocks(k) /\ Blocks(k) \in Nat
    BY <1>q, BlocksAdd, BlockCount
  <2> QED BY <1>2, <2>1
<1>7. OnCourse(iv, a, n + k, Heard(iv, a, n + k), 2 + Blocks(n + k), ks, End, << >>)
  <2> PICK l \in Nat : l = n + k
    OBVIOUS
  <2>1. l - l = 0 /\ 0 < End /\ l \in 0..l /\ Stretch(iv, l, 0) = << >>
    BY EndPositive, StretchOfNothing
  <2>2. OnCourse(iv, a, l, Heard(iv, a, l), 2 + Blocks(l), ks, End, << >>)
    BY <2>1 DEF OnCourse
  <2> QED BY <2>2
<1> QED BY <1>3, <1>4, <1>5, <1>6, <1>7

-----------------------------------------------------------------------------
(* The sender on course.                                                   *)

TxOnCourse(s) ==
    /\ OnCourse(s.iv, s.aad_len, s.payload_len, s.hash, s.ctr, s.tx_ks, s.tx_ks_pos, s.tx_gmac)
    /\ s.out = Stretch(s.iv, 0, s.payload_len)

\* A sender on course that may store the next byte.
Sends(s, k) ==
    /\ Sender(s, k) /\ TxOnCourse(s)
    /\ MayStore(s.payload_len, s.tx_ks_pos)

LEMMA SendOne ==
  ASSUME NEW s, NEW k \in Nat, Sends(s, k), NEW p, p = <<s.iv, s.payload_len + 1>>,
         NEW t, t = fuse_inline_enc_8(s, p)
  PROVE  Sends(t, k + 1) /\ Frame(s, t) /\ t.payload_len = s.payload_len + 1
<1>w. Wrapper(s, Byte) /\ s.iv \in Nat /\ s.aad_len \in Nat /\ s.payload_len \in Nat
  BY DEF Sends, Sender, Wrapper
<1>p. p \in Text
  BY <1>w DEF Text
<1>1. Sender(t, k + 1) /\ Frame(s, t)
  BY <1>p, StoreOne DEF Sends
<1>c. PICK c : c = Cipher(s, p)
  OBVIOUS
<1>g. PICK g : g = Ready(s)
  OBVIOUS
<1>2. /\ t.tx_ks = g.tx_ks /\ t.tx_ks_pos = g.tx_ks_pos + 1
      /\ t.ctr = g.ctr /\ t.tx_gmac = Buffered(s.tx_gmac, c)
      /\ t.payload_len = s.payload_len + 1
      /\ t.hash = s.hash \o Absorbed(s.tx_gmac, c)
      /\ t.out = Append(s.out, c)
  BY <1>c, <1>g, <1>p, <1>w, StoredByte
<1>3. t.hash = Joint(s.hash, Absorbed(s.tx_gmac, c))
  BY <1>2 DEF Joint
<1>4. t.iv = s.iv /\ t.aad_len = s.aad_len
  BY <1>1 DEF Frame
<1>5. Refilled(s.iv, s.ctr, s.tx_ks, s.tx_ks_pos, g.ctr, g.tx_ks, g.tx_ks_pos)
  <2>1. /\ s.tx_ks_pos = End =>
             g.tx_ks_pos = 0 /\ g.ctr = s.ctr + Wide /\ g.tx_ks = <<s.iv, s.ctr>>
        /\ s.tx_ks_pos # End => g = s
    BY <1>g, <1>w, ReadyToSend
  <2> QED BY <2>1 DEF Refilled
<1>6. /\ OnCourse(s.iv, s.aad_len, s.payload_len, s.hash, s.ctr, s.tx_ks, s.tx_ks_pos, s.tx_gmac)
      /\ s.out = Stretch(s.iv, 0, s.payload_len)
      /\ MayStore(s.payload_len, s.tx_ks_pos)
  BY DEF Sends, TxOnCourse
<1>n. PICK iv, a, n : iv = s.iv /\ a = s.aad_len /\ n = s.payload_len
  OBVIOUS
<1>7. iv \in Nat /\ a \in Nat /\ n \in Nat
  BY <1>n, <1>w
<1>8. /\ KsByte(g.tx_ks[1], g.tx_ks[2], g.tx_ks_pos) = KsByte(iv, 2, n)
      /\ OnCourse(iv, a, n + 1, Joint(s.hash, Absorbed(s.tx_gmac, GcmByte(iv, n + 1))), g.ctr,
                  g.tx_ks, g.tx_ks_pos + 1, Buffered(s.tx_gmac, GcmByte(iv, n + 1)))
      /\ MayStore(n + 1, g.tx_ks_pos + 1)
  <2>1. /\ OnCourse(iv, a, n, s.hash, s.ctr, s.tx_ks, s.tx_ks_pos, s.tx_gmac)
        /\ MayStore(n, s.tx_ks_pos)
        /\ Refilled(iv, s.ctr, s.tx_ks, s.tx_ks_pos, g.ctr, g.tx_ks, g.tx_ks_pos)
    BY <1>5, <1>6, <1>n
  <2> QED BY <1>7, <2>1, CourseByte
<1>9. c = GcmByte(iv, n + 1)
  <2>1. c = [pt |-> p, ks |-> KsByte(g.tx_ks[1], g.tx_ks[2], g.tx_ks_pos)]
    BY <1>c, <1>g DEF Cipher
  <2>2. p = <<iv, n + 1>>
    BY <1>n
  <2> QED BY <1>7, <1>8, <2>1, <2>2, GcmByteAt
<1>10. t.out = Stretch(iv, 0, n + 1)
  <2>o. PICK o \in Nat : o = 0
    OBVIOUS
  <2>1. Append(Stretch(iv, o, n), GcmByte(iv, o + n + 1)) = Stretch(iv, o, n + 1)
    BY <1>7, StretchAppend
  <2>2. o + n + 1 = n + 1
    BY <1>7, <2>o
  <2>3. s.out = Stretch(iv, o, n)
    BY <1>6, <1>n, <2>o
  <2>4. t.out = Stretch(iv, o, n + 1)
    BY <1>2, <1>9, <2>1, <2>2, <2>3
  <2> QED BY <2>4, <2>o
<1>11. t.iv = iv /\ t.aad_len = a /\ t.payload_len = n + 1
  BY <1>2, <1>4, <1>n
<1>12. TxOnCourse(t)
  BY <1>2, <1>3, <1>8, <1>9, <1>10, <1>11 DEF TxOnCourse
<1>13. MayStore(t.payload_len, t.tx_ks_pos)
  BY <1>2, <1>8, <1>11
<1> QED BY <1>1, <1>2, <1>12, <1>13 DEF Sends

LEMMA SendTwo ==
  ASSUME NEW s, NEW k \in Nat, Sends(s, k),
         NEW p, p = <<s.iv, s.payload_len + 1>>, NEW q, q = <<s.iv, s.payload_len + 2>>,
         NEW t, t = fuse_inline_enc_8(fuse_inline_enc_8(s, p), q)
  PROVE  Sends(t, k + 2) /\ Frame(s, t) /\ t.payload_len = s.payload_len + 2
<1>u. PICK u : u = fuse_inline_enc_8(s, p)
  OBVIOUS
<1>1. Sends(u, k + 1) /\ Frame(s, u) /\ u.payload_len = s.payload_len + 1
  BY <1>u, SendOne
<1>2. s.payload_len \in Nat
  BY DEF Sends, Sender, Wrapper
<1>3. q = <<u.iv, u.payload_len + 1>> /\ t = fuse_inline_enc_8(u, q) /\ k + 1 \in Nat
  <2>1. s.payload_len + 1 + 1 = s.payload_len + 2
    BY <1>2
  <2> QED BY <1>1, <1>u, <2>1 DEF Frame
<1>4. Sends(t, k + 1 + 1) /\ Frame(u, t) /\ t.payload_len = u.payload_len + 1
  BY <1>1, <1>3, SendOne
<1>5. k + 1 + 1 = k + 2 /\ s.payload_len + 1 + 1 = s.payload_len + 2
  BY <1>2
<1> QED BY <1>1, <1>4, <1>5 DEF Frame

LEMMA SendFour ==
  ASSUME NEW s, NEW k \in Nat, Sends(s, k),
         NEW ps, \A i \in 1..4 : ps[i] = <<s.iv, s.payload_len + i>>,
         NEW t, t = fuse_inline_enc_32(s, ps)
  PROVE  Sends(t, k + 4) /\ Frame(s, t) /\ t.payload_len = s.payload_len + 4
<1>u. PICK u : u = fuse_inline_enc_16(s, ps)
  OBVIOUS
<1>1. Sends(u, k + 2) /\ Frame(s, u) /\ u.payload_len = s.payload_len + 2
  BY <1>u, SendTwo DEF fuse_inline_enc_16
<1>2. s.payload_len \in Nat
  BY DEF Sends, Sender, Wrapper
<1>3. /\ ps[3] = <<u.iv, u.payload_len + 1>> /\ ps[4] = <<u.iv, u.payload_len + 2>>
      /\ t = fuse_inline_enc_8(fuse_inline_enc_8(u, ps[3]), ps[4]) /\ k + 2 \in Nat
  <2>1. s.payload_len + 2 + 1 = s.payload_len + 3 /\ s.payload_len + 2 + 2 = s.payload_len + 4
    BY <1>2
  <2>2. t = fuse_inline_enc_8(fuse_inline_enc_8(u, ps[3]), ps[4])
    BY <1>u DEF fuse_inline_enc_32
  <2> QED BY <1>1, <2>1, <2>2 DEF Frame
<1>4. Sends(t, k + 2 + 2) /\ Frame(u, t) /\ t.payload_len = u.payload_len + 2
  BY <1>1, <1>3, SendTwo
<1>5. k + 2 + 2 = k + 4 /\ s.payload_len + 2 + 2 = s.payload_len + 4
  BY <1>2
<1> QED BY <1>1, <1>4, <1>5 DEF Frame

\* A store of each width.
LEMMA EncOf ==
  ASSUME NEW s, NEW ps
  PROVE  /\ Len(ps) = 1 => Enc(s, ps) = fuse_inline_enc_8(s, ps[1])
         /\ Len(ps) = 2 => Enc(s, ps) = fuse_inline_enc_8(fuse_inline_enc_8(s, ps[1]), ps[2])
         /\ Len(ps) = 4 => Enc(s, ps) = fuse_inline_enc_32(s, ps)
         /\ Len(ps) = 8 =>
              Enc(s, ps) = fuse_inline_enc_32(fuse_inline_enc_32(s, ps), SubSeq(ps, 5, 8))
<1>1. Len(ps) = 1 => Enc(s, ps) = fuse_inline_enc_8(s, ps[1])
  BY DEF Enc
<1>2. Len(ps) = 2 => Enc(s, ps) = fuse_inline_enc_16(s, ps)
  BY DEF Enc
<1>3. Len(ps) = 4 => Enc(s, ps) = fuse_inline_enc_32(s, ps)
  BY DEF Enc
<1>4. Len(ps) = 8 => Enc(s, ps) = fuse_inline_enc_64(s, ps)
  BY DEF Enc
<1> QED BY <1>1, <1>2, <1>3, <1>4 DEF fuse_inline_enc_16, fuse_inline_enc_64

\* A store of any width keeps the message on course.
LEMMA SentOnCourse ==
  ASSUME NEW s, NEW k \in Nat, Sends(s, k), NEW w \in {1, 2, 4, 8},
         NEW t, t = Enc(s, Plain(s.iv, s.payload_len, w))
  PROVE  TxOnCourse(t)
<1>n. s.payload_len \in Nat /\ s.iv \in Nat
  BY DEF Sends, Sender, Wrapper
<1>p. PICK ps : ps = Plain(s.iv, s.payload_len, w)
  OBVIOUS
<1>1. /\ ps \in Seq(Text) /\ Len(ps) = w /\ \A i \in 1..w : ps[i] = <<s.iv, s.payload_len + i>>
  <2>1. w \in Nat
    OBVIOUS
  <2>2. ps \in Seq(Text) /\ Len(ps) = w
    BY <1>n, <1>p, <2>1, PlainType
  <2>3. \A i \in 1..w : ps[i] = <<s.iv, s.payload_len + i>>
    BY <1>p DEF Plain
  <2> QED BY <2>2, <2>3
<1>t. t = Enc(s, ps)
  BY <1>p
<1>2. CASE w = 1
  <2>1. t = fuse_inline_enc_8(s, ps[1])
    <3>1. Len(ps) = 1
      BY <1>1, <1>2
    <3> QED BY <1>t, <3>1, EncOf
  <2>2. ps[1] = <<s.iv, s.payload_len + 1>>
    BY <1>1, <1>2
  <2> QED BY <2>1, <2>2, SendOne DEF Sends
<1>3. CASE w = 2
  <2>1. t = fuse_inline_enc_8(fuse_inline_enc_8(s, ps[1]), ps[2])
    <3>1. Len(ps) = 2
      BY <1>1, <1>3
    <3> QED BY <1>t, <3>1, EncOf
  <2> QED BY <1>1, <1>3, <2>1, SendTwo DEF Sends
<1>4. CASE w = 4
  <2>1. t = fuse_inline_enc_32(s, ps)
    <3>1. Len(ps) = 4
      BY <1>1, <1>4
    <3> QED BY <1>t, <3>1, EncOf
  <2> QED BY <1>1, <1>4, <2>1, SendFour DEF Sends
<1>5. CASE w = 8
  <2> PICK u, qs : u = fuse_inline_enc_32(s, ps) /\ qs = SubSeq(ps, 5, 8)
    OBVIOUS
  <2>1. t = fuse_inline_enc_32(u, qs)
    <3>1. Len(ps) = 8
      BY <1>1, <1>5
    <3> QED BY <1>t, <3>1, EncOf
  <2>2. Sends(u, k + 4) /\ Frame(s, u) /\ u.payload_len = s.payload_len + 4
    BY <1>1, <1>5, SendFour
  <2>3. ASSUME NEW i \in 1..4 PROVE qs[i] = <<u.iv, u.payload_len + i>>
    <3>1. qs[i] = ps[4 + i]
      BY <1>1, <1>5, SubSeqProperties
    <3>2. ps[4 + i] = <<s.iv, s.payload_len + (4 + i)>>
      BY <1>1, <1>5
    <3>3. s.payload_len + (4 + i) = s.payload_len + 4 + i
      BY <1>n
    <3> QED BY <2>2, <3>1, <3>2, <3>3 DEF Frame
  <2>4. k + 4 \in Nat
    OBVIOUS
  <2> QED BY <2>1, <2>2, <2>3, <2>4, SendFour DEF Sends
<1> QED BY <1>2, <1>3, <1>4, <1>5

\* So does a copy at a block boundary, with the streaming buffers idle.
LEMMA CopiedOnCourse ==
  ASSUME NEW s, Wrapper(s, Byte), TxOnCourse(s), s.tx_ks_pos = End, s.payload_len \in Starts,
         NEW k \in Nat, NEW t, t = process_fused(s, Plain(s.iv, s.payload_len, k))
  PROVE  TxOnCourse(t)
<1>n. PICK iv, a, n : iv = s.iv /\ a = s.aad_len /\ n = s.payload_len
  OBVIOUS
<1>1. iv \in Nat /\ a \in Nat /\ n \in Nat
  BY <1>n DEF Wrapper
<1>p. PICK ps : ps = Plain(iv, n, k)
  OBVIOUS
<1>2. ps \in Seq(Text) /\ Len(ps) = k /\ \A i \in 1..k : ps[i] = <<iv, n + i>>
  <2>1. ps \in Seq(Text) /\ Len(ps) = k
    BY <1>1, <1>p, PlainType
  <2>2. \A i \in 1..k : ps[i] = <<iv, n + i>>
    BY <1>p DEF Plain
  <2> QED BY <2>1, <2>2
<1>3. /\ Frame(s, t) /\ t.ctr = s.ctr + Blocks(k)
      /\ t.tx_ks = s.tx_ks /\ t.tx_ks_pos = s.tx_ks_pos /\ t.tx_gmac = s.tx_gmac
      /\ t.out = s.out \o CipherText(s, ps)
      /\ t.hash = s.hash \o Chunks(CipherText(s, ps))
      /\ t.payload_len = s.payload_len + k
  <2>1. t = process_fused(s, ps)
    BY <1>n, <1>p
  <2> QED BY <1>2, <2>1, ProcessedType
<1>4. /\ t.iv = iv /\ t.aad_len = a /\ t.payload_len = n + k
      /\ t.out = Joint(s.out, CipherText(s, ps))
      /\ t.hash = Joint(s.hash, Chunks(CipherText(s, ps)))
  BY <1>3, <1>n DEF Frame, Joint
<1>5. OnCourse(iv, a, n, s.hash, s.ctr, s.tx_ks, s.tx_ks_pos, s.tx_gmac) /\ s.out = Stretch(iv, 0, n)
      /\ n \in Starts
  BY <1>n DEF TxOnCourse
<1>6. /\ \A i \in Nat : KsByte(iv, s.ctr, i) = KsByte(iv, 2, n + i)
      /\ OnCourse(iv, a, n + k, Joint(s.hash, Chunks(Stretch(iv, n, k))), s.ctr + Blocks(k), s.tx_ks,
                  s.tx_ks_pos, s.tx_gmac)
  BY <1>1, <1>5, CourseCopy
<1>7. CipherText(s, ps) = Stretch(iv, n, k)
  <2>1. DOMAIN ps = 1..k
    BY <1>2, LenProperties
  <2>2. ASSUME NEW i \in 1..k
        PROVE  [pt |-> ps[i], ks |-> KsByte(iv, s.ctr, i - 1)] = GcmByte(iv, n + i)
    <3>j. PICK j : j = n + (i - 1)
      OBVIOUS
    <3>1. i - 1 \in Nat /\ j \in Nat /\ j + 1 = n + i
      BY <1>1, <3>j
    <3>2. KsByte(iv, s.ctr, i - 1) = KsByte(iv, 2, j)
      BY <1>6, <3>1, <3>j
    <3>3. ps[i] = <<iv, j + 1>>
      BY <1>2, <3>1
    <3>4. GcmByte(iv, j + 1) = [pt |-> <<iv, j + 1>>, ks |-> KsByte(iv, 2, j)]
      BY <3>1, GcmByteAt
    <3> QED BY <3>1, <3>2, <3>3, <3>4
  <2>3. CipherText(s, ps) = [i \in 1..k |-> [pt |-> ps[i], ks |-> KsByte(iv, s.ctr, i - 1)]]
    BY <1>n, <2>1 DEF CipherText
  <2> QED BY <2>2, <2>3 DEF Stretch
<1>8. t.out = Stretch(iv, 0, n + k)
  <2>1. Joint(Stretch(iv, 0, n), Stretch(iv, n, k)) = Stretch(iv, 0, n + k)
    BY <1>1, StretchConcat
  <2> QED BY <1>4, <1>5, <1>7, <2>1
<1> QED BY <1>3, <1>4, <1>6, <1>7, <1>8 DEF TxOnCourse

-----------------------------------------------------------------------------
(* The receiver.                                                           *)

\* A receiver that has read k bytes one by one since its buffers were empty.
\* It never sends, so the test of fuse_inline_dec_memcpy always holds.
Receiver(s, k) ==
    /\ Wrapper(s, Text) /\ s.tx_gmac = << >> /\ s.tx_ks_pos = End
    /\ Len(s.rx_gmac) = k % End /\ s.rx_ks_pos = Position(k)

RxOnCourse(s) ==
    OnCourse(s.iv, s.aad_len, s.payload_len, s.hash, s.ctr, s.rx_ks, s.rx_ks_pos, s.rx_gmac)

\* If o, it is on course in a message that is GCM's.
Loads(s, k, o) ==
    /\ Receiver(s, k)
    /\ o => RxOnCourse(s) /\ MayStore(s.payload_len, s.rx_ks_pos)

LEMMA LoadOne ==
  ASSUME NEW o, NEW s, NEW k \in Nat, Loads(s, k, o), NEW c \in Byte,
         o => c = GcmByte(s.iv, s.payload_len + 1), NEW t, t = fuse_inline_dec_8(s, c)
  PROVE  Loads(t, k + 1, o) /\ Frame(s, t) /\ t.payload_len = s.payload_len + 1
<1>w. /\ Wrapper(s, Text) /\ s.iv \in Nat /\ s.aad_len \in Nat /\ s.payload_len \in Nat
      /\ s.rx_gmac \in Seq(Byte)
  BY DEF Loads, Receiver, Wrapper, Buffers
<1>p. PICK ctr1, ks1, pos1 :
        /\ ks1 = (IF s.rx_ks_pos = End THEN <<s.iv, s.ctr>> ELSE s.rx_ks)
        /\ ctr1 = (IF s.rx_ks_pos = End THEN s.ctr + Wide ELSE s.ctr)
        /\ pos1 = (IF s.rx_ks_pos = End THEN 0 ELSE s.rx_ks_pos)
  OBVIOUS
<1>1. /\ Wrapper(t, Text) /\ Frame(s, t)
      /\ t.tx_gmac = s.tx_gmac /\ t.tx_ks_pos = s.tx_ks_pos
      /\ t.rx_ks = ks1 /\ t.ctr = ctr1 /\ t.rx_ks_pos = pos1 + 1
      /\ t.rx_gmac = Buffered(s.rx_gmac, c)
      /\ t.hash = s.hash \o Absorbed(s.rx_gmac, c)
      /\ t.payload_len = s.payload_len + 1
  BY <1>p, <1>w, LoadedByte
<1>2. t.hash = Joint(s.hash, Absorbed(s.rx_gmac, c)) /\ t.iv = s.iv /\ t.aad_len = s.aad_len
  BY <1>1 DEF Frame, Joint
<1>3. Receiver(t, k + 1)
  <2>1. /\ Len(s.rx_gmac) = k % End /\ s.rx_ks_pos = Position(k)
        /\ s.tx_gmac = << >> /\ s.tx_ks_pos = End
    BY DEF Loads, Receiver
  <2>2. /\ k % End \in 0..End - 1
        /\ (k + 1) % End = IF (k % End) + 1 = End THEN 0 ELSE (k % End) + 1
    BY NextPosition
  <2>3. pos1 = k % End
    BY <1>p, <2>1, <2>2, EndPositive DEF Position
  <2>4. Len(t.rx_gmac) = IF Len(s.rx_gmac) + 1 = End THEN 0 ELSE Len(s.rx_gmac) + 1
    <3>1. Len(Append(s.rx_gmac, c)) = Len(s.rx_gmac) + 1
      BY <1>w, AppendProperties
    <3> QED BY <1>1, <3>1 DEF Buffered
  <2>5. Len(t.rx_gmac) = (k + 1) % End
    BY <2>1, <2>2, <2>4
  <2>6. t.rx_ks_pos = Position(k + 1)
    BY <1>1, <2>2, <2>3, EndPositive DEF Position
  <2> QED BY <1>1, <2>1, <2>5, <2>6 DEF Receiver
<1>4. ASSUME o PROVE RxOnCourse(t) /\ MayStore(t.payload_len, t.rx_ks_pos)
  <2>n. PICK iv, a, n : iv = s.iv /\ a = s.aad_len /\ n = s.payload_len
    OBVIOUS
  <2>1. iv \in Nat /\ a \in Nat /\ n \in Nat
    BY <1>w, <2>n
  <2>2. Refilled(iv, s.ctr, s.rx_ks, s.rx_ks_pos, ctr1, ks1, pos1)
    BY <1>p, <2>n DEF Refilled
  <2>3. /\ OnCourse(iv, a, n, s.hash, s.ctr, s.rx_ks, s.rx_ks_pos, s.rx_gmac)
        /\ MayStore(n, s.rx_ks_pos)
    BY <1>4, <2>n DEF Loads, RxOnCourse
  <2>4. /\ OnCourse(iv, a, n + 1, Joint(s.hash, Absorbed(s.rx_gmac, GcmByte(iv, n + 1))), ctr1,
                    ks1, pos1 + 1, Buffered(s.rx_gmac, GcmByte(iv, n + 1)))
        /\ MayStore(n + 1, pos1 + 1)
    BY <2>1, <2>2, <2>3, CourseByte
  <2>5. c = GcmByte(iv, n + 1) /\ t.iv = iv /\ t.aad_len = a /\ t.payload_len = n + 1
    BY <1>1, <1>2, <1>4, <2>n
  <2> QED BY <1>1, <1>2, <2>4, <2>5 DEF RxOnCourse
<1> QED BY <1>1, <1>3, <1>4 DEF Loads

LEMMA LoadTwo ==
  ASSUME NEW o, NEW s, NEW k \in Nat, Loads(s, k, o), NEW c \in Byte, NEW d \in Byte,
         o => c = GcmByte(s.iv, s.payload_len + 1) /\ d = GcmByte(s.iv, s.payload_len + 2),
         NEW t, t = fuse_inline_dec_8(fuse_inline_dec_8(s, c), d)
  PROVE  Loads(t, k + 2, o) /\ Frame(s, t) /\ t.payload_len = s.payload_len + 2
<1>u. PICK u : u = fuse_inline_dec_8(s, c)
  OBVIOUS
<1>1. Loads(u, k + 1, o) /\ Frame(s, u) /\ u.payload_len = s.payload_len + 1
  BY <1>u, LoadOne
<1>n. PICK n : n = s.payload_len
  OBVIOUS
<1>2. n \in Nat
  BY <1>n DEF Loads, Receiver, Wrapper
<1>3. /\ o => d = GcmByte(u.iv, u.payload_len + 1)
      /\ t = fuse_inline_dec_8(u, d) /\ k + 1 \in Nat
  <2>1. n + 1 + 1 = n + 2
    BY <1>2
  <2>2. u.iv = s.iv /\ u.payload_len = n + 1
    BY <1>1, <1>n DEF Frame
  <2>3. o => d = GcmByte(u.iv, n + 2)
    BY <1>n, <2>2
  <2>4. t = fuse_inline_dec_8(u, d) /\ k + 1 \in Nat
    BY <1>u
  <2> QED BY <2>1, <2>2, <2>3, <2>4
<1>4. Loads(t, k + 1 + 1, o) /\ Frame(u, t) /\ t.payload_len = u.payload_len + 1
  BY <1>1, <1>3, LoadOne
<1>5. k + 1 + 1 = k + 2 /\ n + 1 + 1 = n + 2
  BY <1>2
<1> QED BY <1>1, <1>4, <1>5, <1>n DEF Frame

LEMMA LoadFour ==
  ASSUME NEW o, NEW s, NEW k \in Nat, Loads(s, k, o), NEW cs, \A i \in 1..4 : cs[i] \in Byte,
         o => \A i \in 1..4 : cs[i] = GcmByte(s.iv, s.payload_len + i),
         NEW t, t = fuse_inline_dec_32(s, cs)
  PROVE  Loads(t, k + 4, o) /\ Frame(s, t) /\ t.payload_len = s.payload_len + 4
<1>u. PICK u : u = fuse_inline_dec_8(fuse_inline_dec_8(s, cs[1]), cs[2])
  OBVIOUS
<1>n. PICK n : n = s.payload_len
  OBVIOUS
<1>0. n \in Nat /\ 1 \in 1..4 /\ 2 \in 1..4 /\ 3 \in 1..4 /\ 4 \in 1..4
  BY <1>n DEF Loads, Receiver, Wrapper
<1>1. Loads(u, k + 2, o) /\ Frame(s, u) /\ u.payload_len = s.payload_len + 2
  <2>1. o => cs[1] = GcmByte(s.iv, s.payload_len + 1) /\ cs[2] = GcmByte(s.iv, s.payload_len + 2)
    BY <1>0
  <2>2. cs[1] \in Byte /\ cs[2] \in Byte
    BY <1>0
  <2> QED BY <1>u, <2>1, <2>2, LoadTwo
<1>3. /\ o => cs[3] = GcmByte(u.iv, u.payload_len + 1) /\ cs[4] = GcmByte(u.iv, u.payload_len + 2)
      /\ t = fuse_inline_dec_8(fuse_inline_dec_8(u, cs[3]), cs[4]) /\ k + 2 \in Nat
      /\ cs[3] \in Byte /\ cs[4] \in Byte
  <2>1. n + 2 + 1 = n + 3 /\ n + 2 + 2 = n + 4
    BY <1>0
  <2>2. u.iv = s.iv /\ u.payload_len = n + 2
    BY <1>1, <1>n DEF Frame
  <2>3. o => cs[3] = GcmByte(u.iv, n + 3) /\ cs[4] = GcmByte(u.iv, n + 4)
    BY <1>0, <1>n, <2>2
  <2>4. t = fuse_inline_dec_8(fuse_inline_dec_8(u, cs[3]), cs[4])
    BY <1>u DEF fuse_inline_dec_32, fuse_inline_dec_16
  <2>5. k + 2 \in Nat /\ cs[3] \in Byte /\ cs[4] \in Byte
    BY <1>0
  <2> QED BY <2>1, <2>2, <2>3, <2>4, <2>5
<1>4. Loads(t, k + 2 + 2, o) /\ Frame(u, t) /\ t.payload_len = u.payload_len + 2
  BY <1>1, <1>3, LoadTwo
<1>5. k + 2 + 2 = k + 4 /\ n + 2 + 2 = n + 4
  BY <1>0
<1> QED BY <1>1, <1>4, <1>5, <1>n DEF Frame

LEMMA DecOf ==
  ASSUME NEW s, NEW cs
  PROVE  /\ Len(cs) = 1 => Dec(s, cs) = fuse_inline_dec_8(s, cs[1])
         /\ Len(cs) = 2 => Dec(s, cs) = fuse_inline_dec_8(fuse_inline_dec_8(s, cs[1]), cs[2])
         /\ Len(cs) = 4 => Dec(s, cs) = fuse_inline_dec_32(s, cs)
         /\ Len(cs) = 8 =>
              Dec(s, cs) = fuse_inline_dec_32(fuse_inline_dec_32(s, cs), SubSeq(cs, 5, 8))
<1>1. Len(cs) = 1 => Dec(s, cs) = fuse_inline_dec_8(s, cs[1])
  BY DEF Dec
<1>2. Len(cs) = 2 => Dec(s, cs) = fuse_inline_dec_16(s, cs)
  BY DEF Dec
<1>3. Len(cs) = 4 => Dec(s, cs) = fuse_inline_dec_32(s, cs)
  BY DEF Dec
<1>4. Len(cs) = 8 => Dec(s, cs) = fuse_inline_dec_64(s, cs)
  BY DEF Dec
<1> QED BY <1>1, <1>2, <1>3, <1>4 DEF fuse_inline_dec_16, fuse_inline_dec_64

\* A store of any width, read back.
LEMMA LoadedOnCourse ==
  ASSUME NEW o, NEW s, NEW k \in Nat, Loads(s, k, o),
         NEW cs \in Seq(Byte), Len(cs) \in {1, 2, 4, 8},
         o => cs = Stretch(s.iv, s.payload_len, Len(cs)),
         NEW t, t = Dec(s, cs)
  PROVE  Receiver(t, k + Len(cs)) /\ Frame(s, t) /\ (o => RxOnCourse(t))
<1>n. s.payload_len \in Nat /\ s.iv \in Nat
  BY DEF Loads, Receiver, Wrapper
<1>1. \A i \in 1..Len(cs) : cs[i] \in Byte
  BY ElementOfSeq
<1>2. o => \A i \in 1..Len(cs) : cs[i] = GcmByte(s.iv, s.payload_len + i)
  BY DEF Stretch
<1>3. CASE Len(cs) = 1
  <2>1. t = fuse_inline_dec_8(s, cs[1]) /\ 1 \in 1..Len(cs)
    BY <1>3, DecOf
  <2>2. cs[1] \in Byte /\ (o => cs[1] = GcmByte(s.iv, s.payload_len + 1))
    BY <1>1, <1>2, <2>1
  <2>3. Loads(t, k + 1, o) /\ Frame(s, t)
    BY <2>1, <2>2, LoadOne
  <2> QED BY <1>3, <2>3 DEF Loads
<1>4. CASE Len(cs) = 2
  <2>1. t = fuse_inline_dec_8(fuse_inline_dec_8(s, cs[1]), cs[2]) /\ 1 \in 1..Len(cs) /\ 2 \in 1..Len(cs)
    BY <1>4, DecOf
  <2>2. /\ cs[1] \in Byte /\ cs[2] \in Byte
        /\ o => cs[1] = GcmByte(s.iv, s.payload_len + 1) /\ cs[2] = GcmByte(s.iv, s.payload_len + 2)
    BY <1>1, <1>2, <2>1
  <2>3. Loads(t, k + 2, o) /\ Frame(s, t)
    BY <2>1, <2>2, LoadTwo
  <2> QED BY <1>4, <2>3 DEF Loads
<1>5. CASE Len(cs) = 4
  <2>1. t = fuse_inline_dec_32(s, cs)
    BY <1>5, DecOf
  <2>2. Loads(t, k + 4, o) /\ Frame(s, t)
    BY <1>1, <1>2, <1>5, <2>1, LoadFour
  <2> QED BY <1>5, <2>2 DEF Loads
<1>6. CASE Len(cs) = 8
  <2>u. PICK u, bs : u = fuse_inline_dec_32(s, cs) /\ bs = SubSeq(cs, 5, 8)
    OBVIOUS
  <2>1. t = fuse_inline_dec_32(u, bs)
    BY <1>6, <2>u, DecOf
  <2>2. \A i \in 1..4 : i \in 1..Len(cs) /\ 4 + i \in 1..Len(cs)
    BY <1>6
  <2>3. Loads(u, k + 4, o) /\ Frame(s, u) /\ u.payload_len = s.payload_len + 4
    BY <1>1, <1>2, <2>2, <2>u, LoadFour
  <2>4. \A i \in 1..4 : bs[i] = cs[4 + i]
    BY <1>1, <1>6, <2>u, SubSeqProperties
  <2>5. \A i \in 1..4 : bs[i] \in Byte
    BY <1>1, <2>2, <2>4
  <2>6. o => \A i \in 1..4 : bs[i] = GcmByte(u.iv, u.payload_len + i)
    <3>1. \A i \in 1..4 : s.payload_len + (4 + i) = s.payload_len + 4 + i
      BY <1>n
    <3>2. o => \A i \in 1..4 : bs[i] = GcmByte(s.iv, s.payload_len + (4 + i))
      BY <1>2, <2>2, <2>4
    <3>3. u.iv = s.iv
      BY <2>3 DEF Frame
    <3> QED BY <2>3, <3>1, <3>2, <3>3
  <2>7. k + 4 \in Nat /\ k + 4 + 4 = k + 8
    OBVIOUS
  <2>8. Loads(t, k + 4 + 4, o) /\ Frame(u, t)
    BY <2>1, <2>3, <2>5, <2>6, <2>7, LoadFour
  <2>9. Frame(s, t)
    BY <2>3, <2>8 DEF Frame
  <2> QED BY <1>6, <2>7, <2>8, <2>9 DEF Loads
<1> QED BY <1>3, <1>4, <1>5, <1>6

\* What a receiver's copy does to the fields of the wrapper: the receive
\* positions stay, the engine goes on.
DecryptedInto(s, cs, t) ==
    /\ Wrapper(t, Text) /\ t.on = s.on /\ t.iv = s.iv /\ t.aad_len = s.aad_len
    /\ t.tx_gmac = s.tx_gmac /\ t.tx_ks_pos = s.tx_ks_pos
    /\ t.rx_gmac = s.rx_gmac /\ t.rx_ks_pos = s.rx_ks_pos /\ t.rx_ks = s.rx_ks
    /\ t.hash = s.hash \o Chunks(cs) /\ t.ctr = s.ctr + Blocks(Len(cs))
    /\ t.payload_len = s.payload_len + Len(cs)
    /\ TookCopy(s, cs, t)

LEMMA WholeCopy ==
  ASSUME NEW s, Wrapper(s, Text), s.tx_gmac = << >>, s.tx_ks_pos = End,
         NEW cs \in Seq(Byte), NEW t, t = fuse_inline_dec_memcpy(s, cs)
  PROVE  DecryptedInto(s, cs, t)
<1>1. t = decrypt_fused(s, cs)
  BY DEF fuse_inline_dec_memcpy
<1>2. /\ Wrapper(t, Text) /\ t.on = s.on /\ t.iv = s.iv /\ t.aad_len = s.aad_len
      /\ t.tx_gmac = s.tx_gmac /\ t.tx_ks_pos = s.tx_ks_pos
      /\ t.rx_gmac = s.rx_gmac /\ t.rx_ks_pos = s.rx_ks_pos /\ t.rx_ks = s.rx_ks
      /\ t = decrypt_fused(s, cs) =>
           /\ t.hash = s.hash \o Chunks(cs) /\ t.ctr = s.ctr + Blocks(Len(cs))
           /\ t.payload_len = s.payload_len + Len(cs)
           /\ TookCopy(s, cs, t)
  BY CopiedOut
<1> QED BY <1>1, <1>2, Zenon DEF DecryptedInto

\* A copy, read back.
LEMMA CopiedBack ==
  ASSUME NEW o, NEW s, NEW k \in Nat, Receiver(s, k), NEW cs \in Seq(Byte),
         o => /\ RxOnCourse(s) /\ s.rx_ks_pos = End /\ s.payload_len \in Starts
              /\ cs = Stretch(s.iv, s.payload_len, Len(cs)),
         NEW t, t = fuse_inline_dec_memcpy(s, cs)
  PROVE  /\ Receiver(t, k) /\ t.on = s.on /\ t.iv = s.iv /\ t.aad_len = s.aad_len
         /\ o => RxOnCourse(t)
<1>w. /\ Wrapper(s, Text) /\ s.iv \in Nat /\ s.aad_len \in Nat /\ s.payload_len \in Nat
      /\ s.tx_gmac = << >> /\ s.tx_ks_pos = End
  BY DEF Receiver, Wrapper
<1>1. DecryptedInto(s, cs, t)
  BY <1>w, WholeCopy
<1>2. /\ Wrapper(t, Text) /\ t.on = s.on /\ t.iv = s.iv /\ t.aad_len = s.aad_len
      /\ t.tx_gmac = s.tx_gmac /\ t.tx_ks_pos = s.tx_ks_pos
      /\ t.rx_gmac = s.rx_gmac /\ t.rx_ks_pos = s.rx_ks_pos /\ t.rx_ks = s.rx_ks
      /\ t.hash = s.hash \o Chunks(cs) /\ t.ctr = s.ctr + Blocks(Len(cs))
      /\ t.payload_len = s.payload_len + Len(cs)
  BY <1>1 DEF DecryptedInto
<1>3. Receiver(t, k)
  BY <1>2 DEF Receiver
<1>4. ASSUME o PROVE RxOnCourse(t)
  <2>n. PICK iv, a, n, m : iv = s.iv /\ a = s.aad_len /\ n = s.payload_len /\ m = Len(cs)
    OBVIOUS
  <2>1. iv \in Nat /\ a \in Nat /\ n \in Nat /\ m \in Nat
    BY <1>w, <2>n, LenProperties
  <2>2. OnCourse(iv, a, n, s.hash, s.ctr, s.rx_ks, s.rx_ks_pos, s.rx_gmac)
        /\ s.rx_ks_pos = End /\ n \in Starts /\ cs = Stretch(iv, n, m)
    BY <1>4, <2>n DEF RxOnCourse
  <2>3. OnCourse(iv, a, n + m, Joint(s.hash, Chunks(Stretch(iv, n, m))), s.ctr + Blocks(m), s.rx_ks,
                 s.rx_ks_pos, s.rx_gmac)
    BY <2>1, <2>2, CourseCopy
  <2>4. t.hash = Joint(s.hash, Chunks(Stretch(iv, n, m)))
    BY <1>2, <2>2 DEF Joint
  <2> QED BY <1>2, <2>3, <2>4, <2>n DEF RxOnCourse
<1> QED BY <1>2, <1>3, <1>4

-----------------------------------------------------------------------------
(* The invariant: an ordered message is on course until it is sent and is  *)
(* then GCM's, and a receiver whose buffers were left empty is on course   *)
(* in it, if it reads it in order.                                         *)

Ordinary(m) ==
    \E n \in Nat :
        /\ m.ct = Stretch(m.iv, 0, n)
        /\ m.tag = [iv |-> m.iv, hash |-> Heard(m.iv, m.aad_len, n), aad_len |-> m.aad_len,
                    payload_len |-> n]

ISending == tx.on /\ txCalls.ordered => TxOnCourse(tx)

ISent == \A i \in 1..Len(wire) : wire[i].ordered => Ordinary(wire[i])

\* Every message received so far ended at a boundary of the streaming buffer.
Clean == \A j \in 1..Len(got) : got[j].stored % End = 0

IReading ==
    /\ rx.on => rx.iv = Incoming.iv /\ rx.aad_len \in {0, Incoming.aad_len}
    /\ Clean => Receiver(rx, IF rx.on THEN rxCalls.stored ELSE 0)
    /\ Clean /\ rx.on /\ Incoming.ordered /\ rxCalls.ordered => RxOnCourse(rx)

\* What the calls of a message have respected, if they were in order.
LEMMA Orderly ==
  ASSUME NEW h, Calls(h), NEW s, NEW w
  PROVE  /\ AfterAad(h, s).ordered => h.ordered /\ s.payload_len = 0 /\ s.aad_len % Block = 0
         /\ AfterStore(h, s, w).ordered =>
              h.ordered /\ (h.stored % End # 0 \/ s.payload_len % Block = 0)
         /\ AfterCopy(h, s).ordered =>
              h.ordered /\ h.stored % End = 0 /\ s.payload_len % Block = 0
<1>1. AfterAad(h, s).ordered => h.ordered /\ s.payload_len = 0 /\ s.aad_len % Block = 0
  <2> PICK v : v = (h.ordered /\ s.payload_len = 0 /\ s.aad_len % Block = 0)
    OBVIOUS
  <2>1. AfterAad(h, s) = [ordered |-> v, stored |-> h.stored]
    <3>1. AfterAad(h, s) = [h EXCEPT !.ordered = v]
      BY DEF AfterAad, Calls
    <3> QED BY <3>1 DEF Calls
  <2>2. AfterAad(h, s).ordered = v
    BY <2>1
  <2>3. v => h.ordered /\ s.payload_len = 0 /\ s.aad_len % Block = 0
    OBVIOUS
  <2> QED BY <2>2, <2>3
<1>2. AfterStore(h, s, w).ordered =>
        h.ordered /\ (h.stored % End # 0 \/ s.payload_len % Block = 0)
  BY DEF AfterStore
<1>3. AfterCopy(h, s).ordered => h.ordered /\ h.stored % End = 0 /\ s.payload_len % Block = 0
  <2> PICK v : v = (h.ordered /\ h.stored % End = 0 /\ s.payload_len % Block = 0)
    OBVIOUS
  <2>1. AfterCopy(h, s) = [ordered |-> v, stored |-> h.stored]
    <3>1. AfterCopy(h, s) = [h EXCEPT !.ordered = v]
      BY DEF AfterCopy, Calls
    <3> QED BY <3>1 DEF Calls
  <2>2. AfterCopy(h, s).ordered = v
    BY <2>1
  <2>3. v => h.ordered /\ h.stored % End = 0 /\ s.payload_len % Block = 0
    OBVIOUS
  <2> QED BY <2>2, <2>3
<1> QED BY <1>1, <1>2, <1>3

LEMMA WholeStarts ==
  ASSUME NEW n \in Nat, n % Block = 0
  PROVE  n \in Starts
BY Whole DEF Starts

\* A message begins on course.
LEMMA TxBegins ==
  ASSUME NEW s, Wrapper(s, Byte), NEW iv \in Nat, NEW t, t = fuse_init(s, iv)
  PROVE  TxOnCourse(t)
<1>1. /\ t.iv = iv /\ t.ctr = 2 /\ t.hash = << >> /\ t.out = << >> /\ t.aad_len = 0
      /\ t.payload_len = 0 /\ t.tx_ks_pos = End /\ t.tx_gmac = << >>
  <2>1. t.iv = iv /\ t.ctr = 2
    BY InitType
  <2>2. t.hash = << >> /\ t.out = << >>
    BY InitType
  <2>3. t.aad_len = 0 /\ t.payload_len = 0
    BY InitType
  <2>4. t.tx_ks_pos = End
    BY InitType
  <2>5. t.tx_gmac = << >>
    BY InitType
  <2> QED BY <2>1, <2>2, <2>3, <2>4, <2>5
<1>2. OnCourse(iv, 0, 0, << >>, 2, t.tx_ks, End, << >>)
  BY CourseBegins
<1>3. Stretch(iv, 0, 0) = << >>
  BY StretchOfNothing
<1> QED BY <1>1, <1>2, <1>3 DEF TxOnCourse

LEMMA SendingNext == ASSUME IStream, ISending, [Next]_vars PROVE ISending'
<1>0. /\ Calls(txCalls) /\ Sender(tx, txCalls.stored) /\ Wrapper(tx, Byte) /\ txCalls.stored \in Nat
      /\ tx.iv \in Nat /\ tx.aad_len \in Nat /\ tx.payload_len \in Nat /\ Len(wire) \in Nat
  BY LenProperties DEF IStream, ISender, IWire, Sender, Wrapper, Calls
<1>1. CASE TxInit
  <2>1. tx' = fuse_init(tx, Len(wire) + 1) /\ Len(wire) + 1 \in Nat
    BY <1>0, <1>1 DEF TxInit
  <2>2. TxOnCourse(tx')
    BY <1>0, <2>1, TxBegins
  <2> QED BY <2>2 DEF ISending
<1>2. ASSUME NEW n \in AadLens, TxAad(n), txCalls'.ordered PROVE TxOnCourse(tx')
  <2>n. n \in Nat
    BY StreamAssumption
  <2>1. tx.on /\ txCalls.ordered /\ tx.payload_len = 0 /\ tx.aad_len % Block = 0
    BY <1>0, <1>2, Orderly DEF TxAad
  <2>2. OnCourse(tx.iv, tx.aad_len, 0, tx.hash, tx.ctr, tx.tx_ks, tx.tx_ks_pos, tx.tx_gmac)
        /\ tx.out = Stretch(tx.iv, 0, 0)
    BY <2>1 DEF ISending, TxOnCourse
  <2>b. PICK bytes : bytes = Aad(tx.iv, tx.aad_len, n)
    OBVIOUS
  <2>3. bytes \in Seq(Byte) /\ Len(bytes) = n
    BY <1>0, <2>b, <2>n, AadBytes
  <2>4. tx' = fuse_update_enc(tx, bytes)
    BY <1>2, <2>b DEF TxAad
  <2>t. PICK t : t = tx'
    OBVIOUS
  <2>5. /\ t.hash = tx.hash \o Chunks(bytes) /\ t.aad_len = tx.aad_len + Len(bytes)
        /\ t.iv = tx.iv /\ t.ctr = tx.ctr /\ t.out = tx.out /\ t.payload_len = tx.payload_len
        /\ t.tx_ks = tx.tx_ks /\ t.tx_ks_pos = tx.tx_ks_pos /\ t.tx_gmac = tx.tx_gmac
    <3> PICK u : u = tx
      OBVIOUS
    <3>1. Wrapper(u, Byte) /\ t = fuse_update_enc(u, bytes)
      BY <1>0, <2>4, <2>t
    <3>2. \E v : /\ v = fuse_update_enc(u, bytes)
                /\ v.hash = u.hash \o Chunks(bytes) /\ v.aad_len = u.aad_len + Len(bytes)
                /\ v.iv = u.iv /\ v.ctr = u.ctr /\ v.out = u.out /\ v.payload_len = u.payload_len
                /\ v.tx_ks = u.tx_ks /\ v.tx_ks_pos = u.tx_ks_pos /\ v.tx_gmac = u.tx_gmac
      BY <2>3, <3>1, AadType
    <3> QED BY <3>1, <3>2
  <2>6. OnCourse(tx.iv, tx.aad_len + n, 0, Joint(tx.hash, Chunks(Aad(tx.iv, tx.aad_len, n))), tx.ctr,
                 tx.tx_ks, tx.tx_ks_pos, tx.tx_gmac)
    BY <1>0, <2>1, <2>2, <2>n, CourseAad
  <2>7. t.hash = Joint(tx.hash, Chunks(Aad(tx.iv, tx.aad_len, n))) /\ t.aad_len = tx.aad_len + n
        /\ t.payload_len = 0
    BY <2>1, <2>3, <2>5, <2>b DEF Joint
  <2>8. TxOnCourse(t)
    BY <2>2, <2>5, <2>6, <2>7 DEF TxOnCourse
  <2> QED BY <2>8, <2>t
<1>3. ASSUME NEW w \in Widths, TxStore(w), txCalls'.ordered PROVE TxOnCourse(tx')
  <2>1. tx.on /\ txCalls.ordered /\ (txCalls.stored % End # 0 \/ tx.payload_len % Block = 0)
        /\ tx' = Enc(tx, Plain(tx.iv, tx.payload_len, w)) /\ w \in {1, 2, 4, 8}
    BY <1>0, <1>3, Orderly, StreamAssumption DEF TxStore
  <2>2. TxOnCourse(tx)
    BY <2>1 DEF ISending
  <2>3. MayStore(tx.payload_len, tx.tx_ks_pos)
    <3>1. txCalls.stored % End # 0 => tx.tx_ks_pos # End
      <4>1. tx.tx_ks_pos = Position(txCalls.stored)
        BY <1>0 DEF Sender, Positions
      <4>2. txCalls.stored % End \in 0..End - 1
        BY <1>0, NextPosition
      <4> QED BY <4>1, <4>2, EndPositive DEF Position
    <3>2. tx.payload_len % Block = 0 => tx.payload_len \in Starts
      BY <1>0, WholeStarts
    <3> QED BY <2>1, <3>1, <3>2 DEF MayStore
  <2>4. Sends(tx, txCalls.stored)
    BY <1>0, <2>2, <2>3 DEF Sends
  <2> QED BY <1>0, <2>1, <2>4, SentOnCourse
<1>4. ASSUME NEW n \in Copies, TxCopy(n), txCalls'.ordered PROVE TxOnCourse(tx')
  <2>1. tx.on /\ txCalls.ordered /\ txCalls.stored % End = 0 /\ tx.payload_len % Block = 0
        /\ tx' = fuse_inline_enc_memcpy(tx, Plain(tx.iv, tx.payload_len, n)) /\ n \in Nat
    BY <1>0, <1>4, Orderly, StreamAssumption DEF TxCopy
  <2>2. TxOnCourse(tx)
    BY <2>1 DEF ISending
  <2>3. tx.tx_ks_pos = End /\ Len(tx.tx_gmac) = 0
    BY <1>0, <2>1 DEF Sender, Positions, Position
  <2>4. tx.tx_gmac = << >>
    BY <1>0, <2>3, EmptySeq DEF Wrapper, Buffers
  <2>5. tx.payload_len \in Starts
    BY <1>0, <2>1, WholeStarts
  <2>6. tx' = process_fused(tx, Plain(tx.iv, tx.payload_len, n))
    BY <2>1, <2>3, <2>4 DEF fuse_inline_enc_memcpy
  <2> QED BY <1>0, <2>1, <2>2, <2>3, <2>5, <2>6, CopiedOnCourse
<1>5. CASE TxFinalize
  <2>1. tx' = Ended(tx, tx.tx_gmac) /\ tx.tx_gmac \in Seq(Byte)
    BY <1>0, <1>5 DEF TxFinalize, fuse_finalize_enc, Ended, Wrapper, Buffers
  <2>2. ~tx'.on
    BY <1>0, <2>1, Closed
  <2> QED BY <2>2 DEF ISending
<1>6. CASE UNCHANGED <<tx, txCalls>>
  BY <1>6 DEF ISending
<1>7. CASE \/ \E n \in AadLens : TxAad(n)
           \/ \E w \in Widths : TxStore(w)
           \/ \E n \in Copies : TxCopy(n)
  BY <1>2, <1>3, <1>4, <1>7 DEF ISending
<1> QED BY <1>1, <1>5, <1>6, <1>7
        DEF Next, vars, RxInit, RxAad, RxStore, RxCopy, RxVerify

\* A message finalized on course.
LEMMA SentOrdinary ==
  ASSUME NEW s, Wrapper(s, Byte), TxOnCourse(s), NEW o,
         NEW m, m = [iv |-> s.iv, aad_len |-> s.aad_len, ct |-> s.out,
                     tag |-> TagOf(s, s.tx_gmac), ordered |-> o]
  PROVE  Ordinary(m)
<1>n. PICK iv, a, n : iv = s.iv /\ a = s.aad_len /\ n = s.payload_len
  OBVIOUS
<1>1. iv \in Nat /\ a \in Nat /\ n \in Nat
  BY <1>n DEF Wrapper
<1>2. OnCourse(iv, a, n, s.hash, s.ctr, s.tx_ks, s.tx_ks_pos, s.tx_gmac) /\ s.out = Stretch(iv, 0, n)
  BY <1>n DEF TxOnCourse
<1>3. Joint(s.hash, Chunks(s.tx_gmac)) = Heard(iv, a, n)
  BY <1>1, <1>2, CourseEnds
<1>4. TagOf(s, s.tx_gmac) = [iv |-> iv, hash |-> Heard(iv, a, n), aad_len |-> a, payload_len |-> n]
  BY <1>3, <1>n DEF TagOf, Joint
<1>5. m.iv = iv /\ m.aad_len = a /\ m.ct = Stretch(iv, 0, n) /\ m.tag = TagOf(s, s.tx_gmac)
  BY <1>2, <1>n
<1> QED BY <1>1, <1>4, <1>5 DEF Ordinary

LEMMA SentNext == ASSUME IStream, ISending, ISent, [Next]_vars PROVE ISent'
<1>0. wire \in Seq(Mail) /\ Len(wire) \in Nat /\ Wrapper(tx, Byte)
  BY LenProperties DEF IStream, ISender, IWire, Sender
<1>1. CASE TxFinalize
  <2>m. PICK m : m = [iv |-> tx.iv, aad_len |-> tx.aad_len, ct |-> tx.out,
                      tag |-> TagOf(tx, tx.tx_gmac), ordered |-> txCalls.ordered]
    OBVIOUS
  <2>1. wire' = Append(wire, m) /\ tx.on
    BY <1>1, <2>m DEF TxFinalize
  <2>2. m.ordered => Ordinary(m)
    <3>1. m.ordered = txCalls.ordered
      BY <2>m
    <3>2. txCalls.ordered => TxOnCourse(tx)
      BY <2>1 DEF ISending
    <3>3. TxOnCourse(tx) => Ordinary(m)
      BY <1>0, <2>m, SentOrdinary
    <3> QED BY <3>1, <3>2, <3>3
  <2>3. /\ Len(wire') = Len(wire) + 1 /\ wire'[Len(wire) + 1] = m
        /\ \A i \in 1..Len(wire) : wire'[i] = wire[i]
    <3>1. wire \in Seq(Mail \cup {m}) /\ m \in Mail \cup {m}
      BY <1>0, SeqMonotonic
    <3> QED BY <2>1, <3>1, AppendProperties
  <2>4. ASSUME NEW i \in 1..Len(wire'), wire'[i].ordered PROVE Ordinary(wire'[i])
    <3>1. CASE i \in 1..Len(wire)
      BY <2>3, <2>4, <3>1 DEF ISent
    <3>2. CASE i = Len(wire) + 1
      BY <2>2, <2>3, <2>4, <3>2
    <3> QED BY <1>0, <2>3, <3>1, <3>2
  <2> QED BY <2>4 DEF ISent
<1>2. CASE UNCHANGED wire
  BY <1>2 DEF ISent
<1> QED BY <1>1, <1>2
        DEF Next, vars, TxInit, TxAad, TxStore, TxCopy, RxInit, RxAad, RxStore, RxCopy, RxVerify

-----------------------------------------------------------------------------
(* The receiver's steps.                                                   *)

\* What the wire holds stays there.
LEMMA WireGrows ==
  ASSUME IStream, [Next]_vars
  PROVE  /\ Len(wire) \in Nat /\ Len(wire') \in Nat /\ Len(wire') >= Len(wire)
         /\ \A i \in 1..Len(wire) : wire'[i] = wire[i]
<1>0. wire \in Seq(Mail) /\ Len(wire) \in Nat
  BY LenProperties DEF IStream, IWire
<1>1. CASE TxFinalize
  <2>1. PICK m : wire' = Append(wire, m)
    BY <1>1 DEF TxFinalize
  <2>2. wire \in Seq(Mail \cup {m}) /\ m \in Mail \cup {m}
    BY <1>0, SeqMonotonic
  <2> QED BY <1>0, <2>1, <2>2, AppendProperties
<1>2. CASE UNCHANGED wire
  BY <1>0, <1>2
<1> QED BY <1>1, <1>2
        DEF Next, vars, TxInit, TxAad, TxStore, TxCopy, RxInit, RxAad, RxStore, RxCopy, RxVerify

\* A piece of the ciphertext GCM gives a message.
LEMMA StretchWindow ==
  ASSUME NEW iv \in Nat, NEW n \in Nat, NEW k \in Nat, NEW l \in Nat, n + k <= l
  PROVE  SubSeq(Stretch(iv, 0, l), n + 1, n + k) = Stretch(iv, n, k)
<1> PICK a, b, d, o : a = Stretch(iv, 0, l) /\ b = Stretch(iv, n, k) /\ d = SubSeq(b, o + 1, o + k)
                      /\ o = 0
  OBVIOUS
<1>1. a \in Seq(Byte) /\ Len(a) = l /\ b \in Seq(Byte) /\ Len(b) = k /\ o \in Nat
  BY StretchType
<1>2. \A i \in 1..k : a[n + i] = b[o + i]
  <2> TAKE i \in 1..k
  <2>j. PICK j : j = n + i
    OBVIOUS
  <2>1. j \in 1..l /\ 0 + j = n + i /\ o + i = i
    BY <2>j
  <2>2. a[j] = GcmByte(iv, 0 + j) /\ b[i] = GcmByte(iv, n + i)
    BY <2>1 DEF Stretch
  <2> QED BY <2>1, <2>2, <2>j
<1>3. SubSeq(a, n + 1, n + k) = SubSeq(b, o + 1, o + k)
  <2>1. n + k <= Len(a) /\ o + k <= Len(b)
    BY <1>1
  <2> QED BY <1>1, <1>2, <2>1, SameWindow
<1>4. SubSeq(b, o + 1, o + k) = b
  <2>1. \A i \in o + 1..o + k : b[i] \in Byte
    BY <1>1, ElementOfSeq
  <2>2. /\ d \in Seq(Byte)
        /\ Len(d) = IF o + 1 <= o + k THEN o + k - (o + 1) + 1 ELSE 0
        /\ \A i \in 1..o + k - (o + 1) + 1 : d[i] = b[o + 1 + i - 1]
    BY <2>1, SubSeqProperties
  <2>3. Len(d) = k /\ \A i \in 1..k : i \in 1..o + k - (o + 1) + 1 /\ o + 1 + i - 1 = i
    BY <2>2
  <2>4. \A i \in 1..k : d[i] = b[i]
    BY <2>2, <2>3
  <2> QED BY <1>1, <2>2, <2>3, <2>4, SeqEqual
<1> QED BY <1>3, <1>4

\* The next bytes of an ordered message.
LEMMA NextOfOrdered ==
  ASSUME IStream, ISent, IReading, rx.on, Incoming.ordered, NEW k \in Nat, k <= Left
  PROVE  NextBytes(k) = Stretch(rx.iv, rx.payload_len, k)
<1>1. /\ Len(got) + 1 \in 1..Len(wire) /\ rx.iv = Incoming.iv /\ rx.iv \in Nat
      /\ rx.payload_len \in Nat
  BY LenProperties DEF IStream, IWire, IReceiver, IReading, Wrapper
<1>2. Ordinary(Incoming)
  BY <1>1 DEF ISent, Incoming
<1>n. PICK n, iv : n = rx.payload_len /\ iv = rx.iv
  OBVIOUS
<1>3. PICK l \in Nat : Incoming.ct = Stretch(iv, 0, l)
  BY <1>1, <1>2, <1>n DEF Ordinary
<1>4. n \in Nat /\ iv \in Nat
  BY <1>1, <1>n
<1>5. n + k <= l
  <2>z. PICK o \in Nat : o = 0
    OBVIOUS
  <2>1. Len(Stretch(iv, o, l)) = l
    BY <1>4, StretchType
  <2>2. Len(Incoming.ct) = l
    BY <1>3, <2>1, <2>z
  <2> QED BY <1>4, <1>n, <2>2 DEF Left
<1>6. SubSeq(Stretch(iv, 0, l), n + 1, n + k) = Stretch(iv, n, k)
  BY <1>4, <1>5, StretchWindow
<1> QED BY <1>3, <1>6, <1>n DEF NextBytes

LEMMA ReadingBegins ==
  ASSUME IStream, IReading, RxInit
  PROVE  IReading'
<1>0. /\ Wrapper(rx, Text) /\ ~rx.on /\ Len(got) < Len(wire) /\ UNCHANGED <<wire, got>>
      /\ rx' = fuse_init(rx, Incoming.iv) /\ rxCalls' = NoCalls
  BY DEF IStream, IReceiver, RxInit
<1>1. Incoming.iv \in Nat /\ Incoming' = Incoming
  BY <1>0, Arrived DEF IStream, Incoming
<1>s. PICK s, iv, t : s = rx /\ iv = Incoming.iv /\ t = rx'
  OBVIOUS
<1>2. Wrapper(s, Text) /\ iv \in Nat /\ t = fuse_init(s, iv)
  BY <1>0, <1>1, <1>s
<1>3. /\ Wrapper(t, Text) /\ t.iv = iv /\ t.ctr = 2 /\ t.on
  BY <1>2, InitType
<1>4. t.hash = << >> /\ t.aad_len = 0 /\ t.payload_len = 0
  BY <1>2, InitType
<1>5. t.tx_ks_pos = End
  BY <1>2, InitType
<1>6. t.tx_gmac = << >>
  BY <1>2, InitType
<1>7. t.rx_ks_pos = s.rx_ks_pos /\ t.rx_gmac = s.rx_gmac
  BY <1>2, InitType
<1>8. ASSUME Clean PROVE Receiver(t, 0) /\ RxOnCourse(t)
  <2>1. Receiver(s, 0)
    BY <1>0, <1>8, <1>s DEF IReading
  <2>2. Receiver(t, 0)
    BY <1>3, <1>5, <1>6, <1>7, <2>1 DEF Receiver
  <2>3. 0 % End = 0
    BY EndPositive
  <2>4. s.rx_ks_pos = End /\ Len(s.rx_gmac) = 0
    BY <2>1, <2>3 DEF Receiver, Position
  <2>5. s.rx_gmac = << >>
    BY <1>2, <2>4, EmptySeq DEF Wrapper, Buffers
  <2>6. OnCourse(iv, 0, 0, << >>, 2, t.rx_ks, End, << >>)
    BY <1>2, CourseBegins
  <2>7. RxOnCourse(t)
    BY <1>3, <1>4, <1>7, <2>4, <2>5, <2>6 DEF RxOnCourse
  <2> QED BY <2>2, <2>7
<1>9. NoCalls.stored = 0 /\ (Clean' <=> Clean)
  BY <1>0 DEF NoCalls, Clean
<1> QED BY <1>0, <1>1, <1>3, <1>4, <1>8, <1>9, <1>s DEF IReading

LEMMA ReadingAad ==
  ASSUME IStream, IReading, RxAad
  PROVE  IReading'
<1>0. /\ Wrapper(rx, Text) /\ Calls(rxCalls) /\ rx.on /\ Len(got) < Len(wire)
      /\ UNCHANGED <<wire, got>> /\ rx.iv \in Nat /\ rx.payload_len \in Nat
      /\ rxCalls' = AfterAad(rxCalls, rx) /\ rx.aad_len # Incoming.aad_len
      /\ rx' = fuse_update_enc(rx, Aad(rx.iv, 0, Incoming.aad_len))
  BY DEF IStream, IReceiver, RxAad, AadRead, fuse_update_dec, Wrapper
<1>1. Incoming.aad_len \in Nat /\ Incoming' = Incoming
  BY <1>0, Arrived DEF IStream, Incoming
<1>2. rx.iv = Incoming.iv /\ rx.aad_len = 0
  BY <1>0 DEF IReading
<1>s. PICK s, iv, k, t, bytes : /\ s = rx /\ iv = rx.iv /\ k = Incoming.aad_len /\ t = rx'
                               /\ bytes = Aad(iv, 0, k)
  OBVIOUS
<1>3. /\ Wrapper(s, Text) /\ bytes \in Seq(Byte) /\ Len(bytes) = k /\ iv \in Nat /\ k \in Nat
      /\ t = fuse_update_enc(s, bytes) /\ s.iv = iv /\ s.aad_len = 0
  <2>z. PICK o \in Nat : o = 0
    OBVIOUS
  <2>1. iv \in Nat /\ k \in Nat
    BY <1>0, <1>1, <1>s
  <2>2. Aad(iv, o, k) \in Seq(Byte) /\ Len(Aad(iv, o, k)) = k
    BY <2>1, AadBytes
  <2>3. bytes \in Seq(Byte) /\ Len(bytes) = k
    BY <1>s, <2>2, <2>z
  <2> QED BY <1>0, <1>2, <1>s, <2>1, <2>3
<1>4. /\ Wrapper(t, Text)
      /\ t.hash = s.hash \o Chunks(bytes) /\ t.aad_len = s.aad_len + Len(bytes)
      /\ t.on = s.on /\ t.iv = s.iv /\ t.ctr = s.ctr /\ t.payload_len = s.payload_len
      /\ t.tx_ks_pos = s.tx_ks_pos /\ t.tx_gmac = s.tx_gmac
      /\ t.rx_ks = s.rx_ks /\ t.rx_ks_pos = s.rx_ks_pos /\ t.rx_gmac = s.rx_gmac
  <2>1. \E v : /\ v = fuse_update_enc(s, bytes) /\ Wrapper(v, Text)
              /\ v.hash = s.hash \o Chunks(bytes) /\ v.aad_len = s.aad_len + Len(bytes)
              /\ v.on = s.on /\ v.iv = s.iv /\ v.ctr = s.ctr /\ v.payload_len = s.payload_len
              /\ v.tx_ks_pos = s.tx_ks_pos /\ v.tx_gmac = s.tx_gmac
              /\ v.rx_ks = s.rx_ks /\ v.rx_ks_pos = s.rx_ks_pos /\ v.rx_gmac = s.rx_gmac
    BY <1>3, AadType
  <2> QED BY <1>3, <2>1
<1>5. t.on = s.on /\ t.iv = iv /\ t.aad_len = k /\ 0 + k = k
  BY <1>3, <1>4
<1>6. rxCalls'.stored = rxCalls.stored
      /\ (rxCalls'.ordered => rxCalls.ordered /\ rx.payload_len = 0)
  <2>z. PICK w \in Nat : w = 0
    OBVIOUS
  <2>1. AfterAad(rxCalls, rx).stored = rxCalls.stored
    BY <1>0, <2>z, CallsAfter
  <2>2. AfterAad(rxCalls, rx).ordered => rxCalls.ordered /\ rx.payload_len = 0
    BY <1>0, Orderly
  <2> QED BY <1>0, <2>1, <2>2
<1>7. ASSUME Clean PROVE Receiver(t, rxCalls.stored)
  <2>1. Receiver(s, rxCalls.stored)
    BY <1>0, <1>7, <1>s DEF IReading
  <2> QED BY <1>4, <2>1 DEF Receiver
<1>8. ASSUME Clean, Incoming.ordered, rxCalls'.ordered PROVE RxOnCourse(t)
  <2>1. RxOnCourse(s) /\ s.payload_len = 0
    BY <1>0, <1>6, <1>8, <1>s DEF IReading
  <2>2. OnCourse(iv, 0, 0, s.hash, s.ctr, s.rx_ks, s.rx_ks_pos, s.rx_gmac)
    BY <1>3, <2>1 DEF RxOnCourse
  <2>3. OnCourse(iv, k, 0, Joint(s.hash, Chunks(bytes)), s.ctr, s.rx_ks, s.rx_ks_pos, s.rx_gmac)
    <3>z. PICK o \in Nat : o = 0
      OBVIOUS
    <3>1. o % Block = 0 /\ o + k = k
      BY <1>3, <3>z, StreamAssumption
    <3>2. OnCourse(iv, o, 0, s.hash, s.ctr, s.rx_ks, s.rx_ks_pos, s.rx_gmac)
      BY <2>2, <3>z
    <3>3. OnCourse(iv, o + k, 0, Joint(s.hash, Chunks(Aad(iv, o, k))), s.ctr, s.rx_ks, s.rx_ks_pos,
                   s.rx_gmac)
      BY <1>3, <3>1, <3>2, CourseAad
    <3> QED BY <1>s, <3>1, <3>3, <3>z
  <2>4. t.hash = Joint(s.hash, Chunks(bytes))
    BY <1>4 DEF Joint
  <2> QED BY <1>4, <1>5, <2>1, <2>3, <2>4 DEF RxOnCourse
<1>9. Clean' <=> Clean
  BY <1>0 DEF Clean
<1>10. rx'.on /\ rx'.iv = Incoming.iv /\ rx'.aad_len = Incoming.aad_len
  BY <1>0, <1>2, <1>5, <1>s
<1> QED BY <1>1, <1>6, <1>7, <1>8, <1>9, <1>10, <1>s DEF IReading

\* The bytes a receiver takes from the wire.
LEMMA BytesTaken ==
  ASSUME IStream, rx.on, NEW k \in Nat, k <= Left
  PROVE  NextBytes(k) \in Seq(Byte) /\ Len(NextBytes(k)) = k
<1>1. IWire /\ IReceiver /\ Len(got) < Len(wire) /\ rx.payload_len \in Nat
  BY DEF IStream, IReceiver, Wrapper
<1>2. Len(Incoming.ct) \in Nat
  BY <1>1, Arrived, LenProperties
<1>3. rx.payload_len + k <= Len(Incoming.ct)
  BY <1>1, <1>2 DEF Left
<1> QED BY <1>1, <1>3, Arrived DEF NextBytes

LEMMA ReadingStore ==
  ASSUME IStream, ISent, IReading, NEW w \in Widths, RxStore(w)
  PROVE  IReading'
<1>w. w \in {1, 2, 4, 8} /\ w \in Nat
  BY StreamAssumption
<1>0. /\ Wrapper(rx, Text) /\ Calls(rxCalls) /\ rx.on /\ UNCHANGED <<wire, got>>
      /\ rx.iv \in Nat /\ rx.payload_len \in Nat /\ rxCalls.stored \in Nat
      /\ rxCalls' = AfterStore(rxCalls, rx, w) /\ w <= Left
      /\ rx.iv = Incoming.iv /\ rx.aad_len \in {0, Incoming.aad_len}
  BY DEF IStream, IReceiver, IReading, RxStore, Wrapper, Calls
<1>c. PICK cs : cs = NextBytes(w)
  OBVIOUS
<1>1. /\ cs \in Seq(Byte) /\ Len(cs) = w /\ rx' = Dec(rx, cs)
      /\ Incoming.ordered => cs = Stretch(rx.iv, rx.payload_len, w)
  <2>1. cs \in Seq(Byte) /\ Len(cs) = w
    BY <1>0, <1>c, <1>w, BytesTaken
  <2>2. Incoming.ordered => cs = Stretch(rx.iv, rx.payload_len, w)
    BY <1>0, <1>c, <1>w, NextOfOrdered
  <2> QED BY <1>c, <2>1, <2>2 DEF RxStore
<1>2. /\ rxCalls'.stored = rxCalls.stored + w
      /\ rxCalls'.ordered =>
           rxCalls.ordered /\ (rxCalls.stored % End # 0 \/ rx.payload_len % Block = 0)
  <2>1. AfterStore(rxCalls, rx, w).stored = rxCalls.stored + w
    BY <1>0, <1>w, CallsAfter
  <2>2. AfterStore(rxCalls, rx, w).ordered =>
           rxCalls.ordered /\ (rxCalls.stored % End # 0 \/ rx.payload_len % Block = 0)
    BY <1>0, Orderly
  <2> QED BY <1>0, <2>1, <2>2
<1>3. Incoming' = Incoming /\ (Clean' <=> Clean)
  BY <1>0 DEF Incoming, Clean
<1>4. Frame(rx, rx')
  BY <1>0, <1>1, <1>w, Loaded
<1>o. PICK o : o = (Clean /\ Incoming.ordered /\ rxCalls'.ordered)
  OBVIOUS
<1>5. ASSUME Clean
      PROVE  Receiver(rx', rxCalls.stored + w) /\ (o => RxOnCourse(rx'))
  <2>1. Receiver(rx, rxCalls.stored)
    BY <1>0, <1>5 DEF IReading
  <2>2. ASSUME o PROVE RxOnCourse(rx) /\ MayStore(rx.payload_len, rx.rx_ks_pos)
    <3>1. /\ Clean /\ Incoming.ordered /\ rxCalls.ordered
          /\ rxCalls.stored % End # 0 \/ rx.payload_len % Block = 0
      BY <1>2, <1>o, <2>2
    <3>2. RxOnCourse(rx)
      BY <1>0, <3>1 DEF IReading
    <3>3. rxCalls.stored % End # 0 => rx.rx_ks_pos # End
      <4>1. rxCalls.stored % End \in 0..End - 1
        BY <1>0, NextPosition
      <4>2. rx.rx_ks_pos = Position(rxCalls.stored)
        BY <2>1 DEF Receiver
      <4> QED BY <4>1, <4>2, EndPositive DEF Position
    <3>4. rx.payload_len % Block = 0 => rx.payload_len \in Starts
      BY <1>0, WholeStarts
    <3> QED BY <3>1, <3>2, <3>3, <3>4 DEF MayStore
  <2>3. Loads(rx, rxCalls.stored, o)
    BY <2>1, <2>2 DEF Loads
  <2>4. o => cs = Stretch(rx.iv, rx.payload_len, Len(cs))
    BY <1>1, <1>o
  <2>5. Receiver(rx', rxCalls.stored + Len(cs)) /\ (o => RxOnCourse(rx'))
    <3>1. Len(cs) \in {1, 2, 4, 8}
      BY <1>1, <1>w
    <3> QED BY <1>0, <1>1, <2>3, <2>4, <3>1, LoadedOnCourse
  <2> QED BY <1>1, <2>5
<1>6. rx'.on /\ rx'.iv = rx.iv /\ rx'.aad_len = rx.aad_len
  BY <1>0, <1>4 DEF Frame
<1>7. rx'.iv = Incoming'.iv /\ rx'.aad_len \in {0, Incoming'.aad_len}
  BY <1>0, <1>3, <1>6
<1>8. Clean' => Receiver(rx', rxCalls'.stored)
  BY <1>2, <1>3, <1>5
<1>9. Clean' /\ Incoming'.ordered /\ rxCalls'.ordered => RxOnCourse(rx')
  BY <1>3, <1>5, <1>o
<1> QED BY <1>6, <1>7, <1>8, <1>9 DEF IReading

LEMMA ReadingCopy ==
  ASSUME IStream, ISent, IReading, NEW k \in Copies, RxCopy(k)
  PROVE  IReading'
<1>k. k \in Nat
  BY StreamAssumption
<1>0. /\ Wrapper(rx, Text) /\ Calls(rxCalls) /\ rx.on /\ UNCHANGED <<wire, got>>
      /\ rx.iv \in Nat /\ rx.payload_len \in Nat /\ rxCalls.stored \in Nat
      /\ rxCalls' = AfterCopy(rxCalls, rx) /\ k <= Left
      /\ rx.iv = Incoming.iv /\ rx.aad_len \in {0, Incoming.aad_len}
  BY DEF IStream, IReceiver, IReading, RxCopy, Wrapper, Calls
<1>c. PICK cs : cs = NextBytes(k)
  OBVIOUS
<1>1. /\ cs \in Seq(Byte) /\ Len(cs) = k /\ rx' = fuse_inline_dec_memcpy(rx, cs)
      /\ Incoming.ordered => cs = Stretch(rx.iv, rx.payload_len, k)
  <2>1. cs \in Seq(Byte) /\ Len(cs) = k
    BY <1>0, <1>c, <1>k, BytesTaken
  <2>2. Incoming.ordered => cs = Stretch(rx.iv, rx.payload_len, k)
    BY <1>0, <1>c, <1>k, NextOfOrdered
  <2> QED BY <1>c, <2>1, <2>2 DEF RxCopy
<1>2. /\ rxCalls'.stored = rxCalls.stored
      /\ rxCalls'.ordered =>
           rxCalls.ordered /\ rxCalls.stored % End = 0 /\ rx.payload_len % Block = 0
  <2>1. AfterCopy(rxCalls, rx).stored = rxCalls.stored
    BY <1>0, <1>k, CallsAfter
  <2>2. AfterCopy(rxCalls, rx).ordered =>
           rxCalls.ordered /\ rxCalls.stored % End = 0 /\ rx.payload_len % Block = 0
    BY <1>0, Orderly
  <2> QED BY <1>0, <2>1, <2>2
<1>3. Incoming' = Incoming /\ (Clean' <=> Clean)
  BY <1>0 DEF Incoming, Clean
<1>4. rx'.on = rx.on /\ rx'.iv = rx.iv /\ rx'.aad_len = rx.aad_len
  BY <1>0, <1>1, CopiedOut
<1>o. PICK o : o = (Clean /\ Incoming.ordered /\ rxCalls'.ordered)
  OBVIOUS
<1>5. ASSUME Clean
      PROVE  Receiver(rx', rxCalls.stored) /\ (o => RxOnCourse(rx'))
  <2>1. Receiver(rx, rxCalls.stored)
    BY <1>0, <1>5 DEF IReading
  <2>2. ASSUME o
        PROVE  /\ RxOnCourse(rx) /\ rx.rx_ks_pos = End /\ rx.payload_len \in Starts
               /\ cs = Stretch(rx.iv, rx.payload_len, Len(cs))
    <3>1. /\ Clean /\ Incoming.ordered /\ rxCalls.ordered
          /\ rxCalls.stored % End = 0 /\ rx.payload_len % Block = 0
      BY <1>2, <1>o, <2>2
    <3>2. RxOnCourse(rx)
      BY <1>0, <3>1 DEF IReading
    <3>3. rx.rx_ks_pos = End
      BY <2>1, <3>1 DEF Receiver, Position
    <3>4. rx.payload_len \in Starts
      BY <1>0, <3>1, WholeStarts
    <3> QED BY <1>1, <3>1, <3>2, <3>3, <3>4
  <2> QED BY <1>0, <1>1, <2>1, <2>2, CopiedBack
<1>6. rx'.on /\ rx'.iv = Incoming'.iv /\ rx'.aad_len \in {0, Incoming'.aad_len}
  BY <1>0, <1>3, <1>4
<1>7. Clean' => Receiver(rx', rxCalls'.stored)
  BY <1>2, <1>3, <1>5
<1>8. Clean' /\ Incoming'.ordered /\ rxCalls'.ordered => RxOnCourse(rx')
  BY <1>3, <1>5, <1>o
<1> QED BY <1>6, <1>7, <1>8 DEF IReading

LEMMA ReadingEnds ==
  ASSUME IStream, IReading, RxVerify
  PROVE  IReading'
<1>r. PICK r : r = [accepted |-> TagOf(rx, rx.rx_gmac) = Incoming.tag, text |-> rx.out,
                    ordered |-> rxCalls.ordered, stored |-> rxCalls.stored]
  OBVIOUS
<1>0. /\ Wrapper(rx, Text) /\ rx.on /\ got \in Seq(Outcome) /\ Len(got) \in Nat
      /\ rx.rx_gmac \in Seq(Byte) /\ rx' = Ended(rx, rx.rx_gmac) /\ got' = Append(got, r)
  BY <1>r, LenProperties
     DEF IStream, IReceiver, RxVerify, fuse_verify_dec, Ended, Wrapper, Buffers
<1>1. /\ Wrapper(rx', Text) /\ ~rx'.on
      /\ rx'.tx_ks_pos = rx.tx_ks_pos /\ rx'.tx_gmac = rx.tx_gmac
      /\ rx'.rx_ks_pos = rx.rx_ks_pos /\ rx'.rx_gmac = rx.rx_gmac
  BY <1>0, Closed
<1>2. /\ Len(got') = Len(got) + 1 /\ got'[Len(got) + 1] = r
      /\ \A j \in 1..Len(got) : got'[j] = got[j]
  <2>1. got \in Seq(Outcome \cup {r}) /\ r \in Outcome \cup {r}
    BY <1>0, SeqMonotonic
  <2> QED BY <1>0, <2>1, AppendProperties
<1>3. ASSUME Clean' PROVE Receiver(rx', 0)
  <2>1. Clean /\ rxCalls.stored % End = 0
    <3>1. \A j \in 1..Len(got) : j \in 1..Len(got')
      BY <1>0, <1>2
    <3>2. Clean
      BY <1>2, <1>3, <3>1 DEF Clean
    <3>3. Len(got) + 1 \in 1..Len(got') /\ r.stored = rxCalls.stored
      BY <1>0, <1>2, <1>r
    <3> QED BY <1>2, <1>3, <3>2, <3>3 DEF Clean
  <2>2. Receiver(rx, rxCalls.stored)
    BY <1>0, <2>1 DEF IReading
  <2>3. 0 % End = 0
    BY EndPositive
  <2> QED BY <1>1, <2>1, <2>2, <2>3 DEF Receiver, Position
<1> QED BY <1>1, <1>3 DEF IReading

LEMMA ReadingKept ==
  ASSUME IStream, IReading, [Next]_vars, UNCHANGED <<rx, rxCalls, got>>
  PROVE  IReading'
<1>1. rx.on => Incoming' = Incoming
  <2>1. rx.on => Len(got) + 1 \in 1..Len(wire)
    BY LenProperties DEF IStream, IWire, IReceiver
  <2> QED BY <2>1, WireGrows DEF Incoming
<1>2. Clean' <=> Clean
  BY DEF Clean
<1>3. rx' = rx /\ rxCalls' = rxCalls
  OBVIOUS
<1>4. CASE rx.on
  BY <1>1, <1>2, <1>3, <1>4 DEF IReading
<1>5. CASE ~rx.on
  BY <1>2, <1>3, <1>5 DEF IReading
<1> QED BY <1>4, <1>5

LEMMA ReadingNext == ASSUME IStream, ISent, IReading, [Next]_vars PROVE IReading'
<1>1. CASE UNCHANGED <<rx, rxCalls, got>>
  BY <1>1, ReadingKept
<1>2. CASE \/ RxInit \/ RxAad \/ RxVerify
           \/ \E w \in Widths : RxStore(w)
           \/ \E k \in Copies : RxCopy(k)
  BY <1>2, ReadingBegins, ReadingAad, ReadingStore, ReadingCopy, ReadingEnds
<1> QED BY <1>1, <1>2 DEF Next, vars, TxInit, TxAad, TxStore, TxCopy, TxFinalize

\* A receiver on course computes the tag of the message it was sent.
LEMMA Accepts ==
  ASSUME IStream, ISent, IReading, RxVerify, Clean, Incoming.ordered, rxCalls.ordered
  PROVE  TagOf(rx, rx.rx_gmac) = Incoming.tag
<1>0. /\ rx.on /\ rx.aad_len = Incoming.aad_len /\ Left = 0 /\ rx.iv = Incoming.iv
      /\ Len(got) + 1 \in 1..Len(wire) /\ Wrapper(rx, Text)
  BY LenProperties DEF IStream, IWire, IReceiver, IReading, RxVerify, AadRead
<1>1. Ordinary(Incoming)
  BY <1>0 DEF ISent, Incoming
<1>n. PICK iv, a, n : iv = rx.iv /\ a = rx.aad_len /\ n = rx.payload_len
  OBVIOUS
<1>2. iv \in Nat /\ a \in Nat /\ n \in Nat
  BY <1>0, <1>n DEF Wrapper
<1>3. PICK l \in Nat :
        /\ Incoming.ct = Stretch(iv, 0, l)
        /\ Incoming.tag = [iv |-> iv, hash |-> Heard(iv, a, l), aad_len |-> a, payload_len |-> l]
  BY <1>0, <1>1, <1>n DEF Ordinary
<1>4. l = n
  <2>z. PICK o \in Nat : o = 0
    OBVIOUS
  <2>1. Len(Stretch(iv, o, l)) = l
    BY <1>2, StretchType
  <2>2. Len(Incoming.ct) = l
    BY <1>3, <2>1, <2>z
  <2> QED BY <1>0, <1>2, <1>n, <2>2 DEF Left
<1>5. OnCourse(iv, a, n, rx.hash, rx.ctr, rx.rx_ks, rx.rx_ks_pos, rx.rx_gmac)
  BY <1>0, <1>n DEF IReading, RxOnCourse
<1>6. Joint(rx.hash, Chunks(rx.rx_gmac)) = Heard(iv, a, n)
  BY <1>2, <1>5, CourseEnds
<1>7. TagOf(rx, rx.rx_gmac) = [iv |-> iv, hash |-> Heard(iv, a, n), aad_len |-> a, payload_len |-> n]
  BY <1>6, <1>n DEF TagOf, Joint
<1> QED BY <1>3, <1>4, <1>7

LEMMA DeliveredNext ==
  ASSUME IStream, ISent, IReading, Delivered, [Next]_vars
  PROVE  Delivered'
<1>0. /\ got \in Seq(Outcome) /\ Len(got) \in Nat /\ Len(got) <= Len(wire) /\ DOMAIN got = 1..Len(got)
      /\ Len(wire) \in Nat
  BY LenProperties DEF IStream, IWire, IReceiver
<1>1. CASE RxVerify
  <2>r. PICK r : r = [accepted |-> TagOf(rx, rx.rx_gmac) = Incoming.tag, text |-> rx.out,
                      ordered |-> rxCalls.ordered, stored |-> rxCalls.stored]
    OBVIOUS
  <2>1. got' = Append(got, r) /\ wire' = wire
    BY <1>1, <2>r DEF RxVerify
  <2>2. /\ DOMAIN got' = 1..Len(got) + 1 /\ got'[Len(got) + 1] = r
        /\ \A j \in 1..Len(got) : got'[j] = got[j]
    <3>1. got \in Seq(Outcome \cup {r}) /\ r \in Outcome \cup {r}
      BY <1>0, SeqMonotonic
    <3>2. got' \in Seq(Outcome \cup {r}) /\ Len(got') = Len(got) + 1
      BY <2>1, <3>1, AppendProperties
    <3>3. DOMAIN got' = 1..Len(got) + 1
      BY <3>2, LenProperties
    <3> QED BY <2>1, <3>1, <3>3, AppendProperties
  <2>3. ASSUME NEW i \in DOMAIN got', wire'[i].ordered, got'[i].ordered,
               \A j \in 1..(i - 1) : got'[j].stored % End = 0
        PROVE  got'[i].accepted
    <3>1. CASE i \in 1..Len(got)
      <4>1. \A j \in 1..(i - 1) : got[j].stored % End = 0
        <5>1. \A j \in 1..(i - 1) : j \in 1..Len(got)
          BY <1>0, <3>1
        <5> QED BY <2>2, <2>3, <5>1
      <4>2. got'[i] = got[i] /\ wire'[i] = wire[i]
        BY <2>1, <2>2, <3>1
      <4> QED BY <1>0, <2>3, <3>1, <4>1, <4>2 DEF Delivered
    <3>2. CASE i = Len(got) + 1
      <4>1. \A j \in 1..Len(got) : j \in 1..(i - 1)
        BY <1>0, <3>2
      <4>2. Clean
        BY <2>2, <2>3, <4>1 DEF Clean
      <4>3. Incoming.ordered
        BY <2>1, <2>3, <3>2 DEF Incoming
      <4>4. rxCalls.ordered
        <5>1. r.ordered
          BY <2>2, <2>3, <3>2
        <5>2. r.ordered = rxCalls.ordered
          BY <2>r
        <5> QED BY <5>1, <5>2
      <4>5. TagOf(rx, rx.rx_gmac) = Incoming.tag
        BY <1>1, <4>2, <4>3, <4>4, Accepts
      <4>6. r.accepted
        BY <2>r, <4>5
      <4> QED BY <2>2, <3>2, <4>6
    <3> QED BY <1>0, <2>2, <2>3, <3>1, <3>2
  <2> QED BY <2>3 DEF Delivered
<1>2. CASE UNCHANGED got
  <2>1. \A i \in DOMAIN got : wire'[i] = wire[i]
    <3>1. \A i \in DOMAIN got : i \in 1..Len(wire)
      BY <1>0
    <3> QED BY <3>1, WireGrows
  <2> QED BY <1>2, <2>1 DEF Delivered
<1> QED BY <1>1, <1>2
        DEF Next, vars, TxInit, TxAad, TxStore, TxCopy, TxFinalize, RxInit, RxAad, RxStore, RxCopy

-----------------------------------------------------------------------------
(* The theorems.                                                           *)

IGcm == IStream /\ ISending /\ ISent /\ IReading /\ Delivered

LEMMA GcmInit == ASSUME Init PROVE IGcm
<1>1. tx = Idle /\ rx = Idle /\ wire = << >> /\ got = << >> /\ txCalls = NoCalls
  BY DEF Init
<1>2. ~Idle.on /\ Idle.tx_gmac = << >> /\ Idle.tx_ks_pos = End
      /\ Idle.rx_gmac = << >> /\ Idle.rx_ks_pos = End
  BY DEF Idle
<1>3. IStream
  BY StreamInit
<1>4. ISending /\ ISent /\ Delivered
  BY <1>1, <1>2 DEF ISending, ISent, Delivered
<1>5. IReading
  <2>1. Receiver(rx, 0)
    <3>1. 0 % End = 0 /\ Len(<< >>) = 0
      BY EndPositive
    <3> QED BY <1>1, <1>2, <3>1, IdleIsUnused DEF Receiver, Position
  <2>2. ~rx.on
    BY <1>1, <1>2
  <2> QED BY <2>1, <2>2 DEF IReading
<1> QED BY <1>3, <1>4, <1>5 DEF IGcm

LEMMA GcmInvariant == Spec => []IGcm
<1>1. Init => IGcm
  BY GcmInit
<1>2. IGcm /\ [Next]_vars => IGcm'
  BY StreamNext, SendingNext, SentNext, ReadingNext, DeliveredNext DEF IGcm
<1> QED BY <1>1, <1>2, PTL DEF Spec

\* A message whose calls came in order is AES-GCM: each byte is under the
\* keystream of its place, and the tag is that of the AAD and the whole
\* ciphertext, whichever of the two routes its bytes took.
THEOREM OrderedIsGcm == Spec => []StreamIsGcm
<1>1. ASSUME IGcm PROVE StreamIsGcm
  <2>0. wire \in Seq(Mail) /\ Len(wire) \in Nat /\ DOMAIN wire = 1..Len(wire)
    BY <1>1, LenProperties DEF IGcm, IStream, IWire
  <2>1. ASSUME NEW i \in DOMAIN wire, wire[i].ordered
        PROVE  /\ wire[i].ct = GcmCipher(wire[i].iv, Len(wire[i].ct))
               /\ wire[i].tag = GcmTag(wire[i].iv, wire[i].aad_len, Len(wire[i].ct))
    <3>m. PICK m, iv : m = wire[i] /\ iv = wire[i].iv
      OBVIOUS
    <3>1. Ordinary(m) /\ m \in Mail
      BY <1>1, <2>0, <2>1, <3>m, ElementOfSeq DEF IGcm, ISent
    <3>2. PICK n \in Nat :
            /\ m.ct = Stretch(iv, 0, n)
            /\ m.tag = [iv |-> iv, hash |-> Heard(iv, m.aad_len, n), aad_len |-> m.aad_len,
                        payload_len |-> n]
      BY <3>1, <3>m DEF Ordinary
    <3>3. iv \in Nat
      BY <3>1, <3>m DEF Mail
    <3>4. Len(m.ct) = n
      <4>z. PICK o \in Nat : o = 0
        OBVIOUS
      <4>1. Len(Stretch(iv, o, n)) = n
        BY <3>3, StretchType
      <4> QED BY <3>2, <4>1, <4>z
    <3>5. Stretch(iv, 0, n) = GcmCipher(iv, n)
      <4>1. \A k \in 1..n : 0 + k = k
        OBVIOUS
      <4> QED BY <4>1 DEF Stretch, GcmCipher, GcmByte
    <3>6. m.tag = GcmTag(iv, m.aad_len, n)
      BY <3>2, <3>5 DEF GcmTag, Heard
    <3> QED BY <3>2, <3>4, <3>5, <3>6, <3>m
  <2> QED BY <2>1 DEF StreamIsGcm
<1> QED BY <1>1, GcmInvariant, PTL

\* A receiver whose earlier messages left its streaming buffers at a boundary
\* accepts every ordered message it opens in order, however differently from
\* the sender it cuts the bytes into stores and copies.
THEOREM OrderedIsAccepted == Spec => []Delivered
<1>1. IGcm => Delivered
  BY DEF IGcm
<1> QED BY <1>1, GcmInvariant, PTL
=============================================================================
