--------------------------- MODULE ZeroCopyCrypto ---------------------------
(***************************************************************************)
(* The data-sharing module: FusedCryptoWrapper.cpp in every process, the   *)
(* key heists that arm it, and the shared-memory chunks between a writer   *)
(* and its readers.                                                        *)
(*                                                                         *)
(* Each process has one copy of the wrapper's globals (the stashed         *)
(* context, the IV counter, g_fuse_active, the engine); no lock protects   *)
(* them.  The threads that touch them are the application threads that     *)
(* write (one per DataWriter), the listener threads that take samples, and *)
(* the threads that register writers with the security plugin.  A step is  *)
(* one access, or a run of accesses between which nothing another thread   *)
(* does can make a difference.                                             *)
(*                                                                         *)
(* A chunk holds one sample: size[w] is the plaintext length field, and a  *)
(* sample of n blocks occupies cells 1..n, its MAC cell n+1, its explicit  *)
(* IV cell n+2.  A chunk is reused for the next sample without waiting for *)
(* readers and is never cleared, so cells of older samples stay behind.    *)
(***************************************************************************)
EXTENDS GcmTerms, FiniteSets

CONSTANTS
  Procs,           \* processes, each with its own copy of the globals
  Writers,         \* DataWriters, each written by one application thread
  Readers,         \* DataReaders, each served by one listener thread
  Home,            \* the process of each writer and each reader
  Matched,         \* the writers each reader is matched with
  Handles,         \* writer crypto handles that get registered
  HandleProc,      \* the process a handle is registered in
  HandleMaterial,  \* its key materials: a sequence of [key, sender]
  HandleProtected, \* its payload-protected endpoint attribute
  StashCalls,      \* per handle: how often the inserted heist call runs
  Lens,            \* bound: the lengths of samples, in blocks
  MaxLen,          \* blocks of the longest sample the chunk has room for
  MaxFrames        \* bound: samples each writer writes

Threads == Writers \cup Readers

Material == UNION {{HandleMaterial[h][i] : i \in DOMAIN HandleMaterial[h]}
                     : h \in Handles}
Keys     == {Nil} \cup {m.key : m \in Material}
Senders  == {Nil} \cup {m.sender : m \in Material}

ASSUME ThreadsAssumption ==
  /\ Writers \cap Readers = {}
  /\ Home \in [Threads -> Procs]
  /\ Matched \in [Readers -> SUBSET Writers]
  /\ Nil \notin Writers

ASSUME HandlesAssumption ==
  /\ HandleProc \in [Handles -> Procs]
  /\ HandleProtected \in [Handles -> BOOLEAN]
  /\ \A h \in Handles : /\ DOMAIN HandleMaterial[h] = 1..Len(HandleMaterial[h])
                        /\ Len(HandleMaterial[h]) \in Nat

ASSUME BoundsAssumption ==
  /\ StashCalls \in [Handles -> Nat]
  /\ MaxLen \in Nat
  /\ Lens \subseteq 0..MaxLen
  /\ MaxFrames \in Nat

VARIABLES
  g_zero_copy_ctx,  \* per process: the stashed key (two 16-byte halves) and sender id
  is_ready,         \* per process: the context's atomic flag
  g_tx_iv_counter,  \* per process: the next IV counter
  g_fuse_active,    \* per process: is a fused operation open
  g_crypto_engine,  \* per process: the engine and tl_payload_len
  heist,            \* per handle: where its registration's heist calls stand
  tx,               \* per writer: its thread's position and locals
  rx,               \* per reader: its thread's position and locals
  size,             \* per chunk: the length field
  chunk,            \* per chunk: the cells
  notified,         \* per reader and writer: samples announced and not yet taken
  sent,             \* history, per writer: the lengths of the samples it has begun
  armed,            \* history, per writer: those of them begun with is_ready set
  lastSealed,       \* history, per writer: the newest sample whose tail is complete
  ignitions         \* history: the key and IV a sample opened the engine with

globals == <<g_zero_copy_ctx, is_ready, g_tx_iv_counter, g_fuse_active, g_crypto_engine>>
shm     == <<size, chunk>>
history == <<sent, armed, lastSealed, ignitions>>
vars    == <<globals, heist, tx, rx, shm, notified, history>>

Slots == 1..(MaxLen + 2)

\* The plaintext of writer w's f-th sample, block by block.
Pt(w, f, i)   == <<w, f, i>>
Payload(w, f) == [i \in 1..sent[w][f] |-> Pt(w, f, i)]
Zeros(n)      == [i \in 1..n |-> Zero]

\* The sample a writer's thread is working on.
Frame(w) == Len(sent[w])

\* A thread at "crypt" has auto_ignited set and will finish the operation; one
\* at "join" found an operation open and will not.
InitTx == [pc |-> "idle", off |-> 0, temp_iv |-> <<Nil, Blank>>]
InitRx == [pc |-> "idle", w |-> Nil, len |-> 0, off |-> 0,
           temp_iv |-> <<Nil, Blank>>, dest |-> << >>, seen |-> {}]

Init ==
  /\ g_zero_copy_ctx = [p \in Procs |-> [key |-> <<Nil, Nil>>, sender |-> Nil]]
  /\ is_ready = [p \in Procs |-> FALSE]
  /\ g_tx_iv_counter = [p \in Procs |-> 1]
  /\ g_fuse_active = [p \in Procs |-> FALSE]
  /\ g_crypto_engine = [p \in Procs |-> IdleEngine]
  /\ heist = [h \in Handles |-> [pc |-> "return", calls |-> 0]]
  /\ tx = [w \in Writers |-> InitTx]
  /\ rx = [r \in Readers |-> InitRx]
  /\ size = [w \in Writers |-> 0]
  /\ chunk = [w \in Writers |-> [s \in Slots |-> Blank]]
  /\ notified = [r \in Readers |-> [w \in Writers |-> 0]]
  /\ sent = [w \in Writers |-> << >>]
  /\ armed = [w \in Writers |-> {}]
  /\ lastSealed = [w \in Writers |-> 0]
  /\ ignitions = {}

-----------------------------------------------------------------------------
(* The key heist.                                                          *)

Stolen(h) == HandleMaterial[h][Len(HandleMaterial[h])]

\* Mutant: stashing again disarms the wrapper until the new key is complete.
StealKeyDisarms(h) ==
  /\ heist[h].pc = "return"
  /\ heist[h].calls < StashCalls[h]
  /\ HandleProtected[h]
  /\ Len(HandleMaterial[h]) > 0
  /\ g_zero_copy_ctx' =
       [g_zero_copy_ctx EXCEPT ![HandleProc[h]].key[1] = Stolen(h).key]
  /\ is_ready' = [is_ready EXCEPT ![HandleProc[h]] = FALSE]
  /\ heist' = [heist EXCEPT ![h] = [pc |-> "key", calls |-> @.calls + 1]]
  /\ UNCHANGED <<g_tx_iv_counter, g_fuse_active, g_crypto_engine,
                 tx, rx, shm, notified, history>>

\* Mutant: the attributes of the handle are not looked at.
StealKeyUnprotected(h) ==
  /\ heist[h].pc = "return"
  /\ heist[h].calls < StashCalls[h]
  /\ Len(HandleMaterial[h]) > 0
  /\ g_zero_copy_ctx' =
       [g_zero_copy_ctx EXCEPT ![HandleProc[h]].key[1] = Stolen(h).key]
  /\ heist' = [heist EXCEPT ![h] = [pc |-> "key", calls |-> @.calls + 1]]
  /\ UNCHANGED <<is_ready, g_tx_iv_counter, g_fuse_active, g_crypto_engine,
                 tx, rx, shm, notified, history>>

\* The next inserted call runs.  On an unprotected handle, or one without key
\* material, it returns at once.  The 32-byte copy of the key is two 16-byte
\* stores; the first one is part of this step.
StealKey(h) ==
  /\ heist[h].pc = "return"
  /\ heist[h].calls < StashCalls[h]
  /\ HandleProtected[h]
  /\ Len(HandleMaterial[h]) > 0
  /\ g_zero_copy_ctx' =
       [g_zero_copy_ctx EXCEPT ![HandleProc[h]].key[1] = Stolen(h).key]
  /\ heist' = [heist EXCEPT ![h] = [pc |-> "key", calls |-> @.calls + 1]]
  /\ UNCHANGED <<is_ready, g_tx_iv_counter, g_fuse_active, g_crypto_engine,
                 tx, rx, shm, notified, history>>

StashKeyEnd(h) ==
  /\ heist[h].pc = "key"
  /\ g_zero_copy_ctx' =
       [g_zero_copy_ctx EXCEPT ![HandleProc[h]].key[2] = Stolen(h).key]
  /\ heist' = [heist EXCEPT ![h].pc = "iv"]
  /\ UNCHANGED <<is_ready, g_tx_iv_counter, g_fuse_active, g_crypto_engine,
                 tx, rx, shm, notified, history>>

StashIv(h) ==
  /\ heist[h].pc = "iv"
  /\ g_zero_copy_ctx' =
       [g_zero_copy_ctx EXCEPT ![HandleProc[h]].sender = Stolen(h).sender]
  /\ heist' = [heist EXCEPT ![h].pc = "ready"]
  /\ UNCHANGED <<is_ready, g_tx_iv_counter, g_fuse_active, g_crypto_engine,
                 tx, rx, shm, notified, history>>

StashReady(h) ==
  /\ heist[h].pc = "ready"
  /\ is_ready' = [is_ready EXCEPT ![HandleProc[h]] = TRUE]
  /\ heist' = [heist EXCEPT ![h].pc = "return"]
  /\ UNCHANGED <<g_zero_copy_ctx, g_tx_iv_counter, g_fuse_active, g_crypto_engine,
                 tx, rx, shm, notified, history>>

Heist(h) ==
  StealKey(h) \/ StashKeyEnd(h) \/ StashIv(h) \/ StashReady(h)

-----------------------------------------------------------------------------
(* Both directions open the engine the same way.                           *)

\* fuse_init: the engine with the stashed key, the lengths at zero, active.
FuseInit(p, temp_iv) ==
  /\ g_crypto_engine' = [g_crypto_engine EXCEPT
       ![p] = [EngineInit(@, g_zero_copy_ctx[p].key, temp_iv) EXCEPT !.len = 0]]
  /\ g_fuse_active' = [g_fuse_active EXCEPT ![p] = TRUE]

\* Mutant: the operation is closed but stays marked active.
FuseDeactivateForgotten(p) == UNCHANGED g_fuse_active

\* The last thing fuse_finalize_enc and fuse_verify_dec do.
FuseDeactivate(p) == g_fuse_active' = [g_fuse_active EXCEPT ![p] = FALSE]

-----------------------------------------------------------------------------
(* The writer's thread: DataWriter::write serializes into the chunk.       *)

\* Mutant: the length field counts the tail as well.
TxSerializeTailCounted(w, n) ==
  /\ tx[w].pc = "idle"
  /\ Frame(w) < MaxFrames
  /\ size' = [size EXCEPT ![w] = n + 2]
  /\ sent' = [sent EXCEPT ![w] = Append(@, n)]
  /\ armed' = [armed EXCEPT ![w] = IF is_ready[Home[w]] THEN @ \cup {Frame(w) + 1} ELSE @]
  /\ tx' = [tx EXCEPT ![w] = [InitTx EXCEPT !.pc = IF n > 0 THEN "test" ELSE "publish"]]
  /\ UNCHANGED <<globals, heist, rx, chunk, notified, lastSealed, ignitions>>

\* The application writes a sample of n blocks: the length goes first, in
\* clear, and an empty sample needs nothing more.
TxSerialize(w, n) ==
  /\ tx[w].pc = "idle"
  /\ Frame(w) < MaxFrames
  /\ size' = [size EXCEPT ![w] = n]
  /\ sent' = [sent EXCEPT ![w] = Append(@, n)]
  /\ armed' = [armed EXCEPT ![w] = IF is_ready[Home[w]] THEN @ \cup {Frame(w) + 1} ELSE @]
  /\ tx' = [tx EXCEPT ![w] = [InitTx EXCEPT !.pc = IF n > 0 THEN "test" ELSE "publish"]]
  /\ UNCHANGED <<globals, heist, rx, chunk, notified, lastSealed, ignitions>>

\* Mutant: the counter is read and never advanced.
TakeCounterWithoutAdd(p) == UNCHANGED g_tx_iv_counter

\* fetch_add on the counter.
TakeCounter(p) == g_tx_iv_counter' = [g_tx_iv_counter EXCEPT ![p] = @ + 1]

\* An open fused operation is joined.  Otherwise, armed, the thread takes a
\* counter value and puts its IV together; not armed, it copies.  The counter
\* is atomic and is_ready never falls, so these loads make one step.
TxIgnite(w) ==
  LET p == Home[w] IN
  /\ tx[w].pc = "test"
  /\ IF g_fuse_active[p] \/ ~is_ready[p]
     THEN /\ tx' = [tx EXCEPT ![w].pc = IF g_fuse_active[p] THEN "join" ELSE "copy"]
          /\ UNCHANGED g_tx_iv_counter
     ELSE /\ TakeCounter(p)
          /\ tx' = [tx EXCEPT ![w].pc = "init",
               ![w].temp_iv = <<g_zero_copy_ctx[p].sender, IvCell(g_tx_iv_counter[p])>>]
  /\ UNCHANGED <<g_zero_copy_ctx, is_ready, g_fuse_active, g_crypto_engine,
                 heist, rx, shm, notified, history>>

TxFuseInit(w) ==
  /\ tx[w].pc = "init"
  /\ FuseInit(Home[w], tx[w].temp_iv)
  /\ tx' = [tx EXCEPT ![w].pc = "crypt"]
  /\ ignitions' = ignitions \cup
       {[w |-> w, f |-> Frame(w), key |-> g_zero_copy_ctx[Home[w]].key, iv |-> tx[w].temp_iv]}
  /\ UNCHANGED <<g_zero_copy_ctx, is_ready, g_tx_iv_counter,
                 heist, rx, shm, notified, sent, armed, lastSealed>>

\* One block: encrypt, store, absorb.  After the last one, a thread that opened
\* the engine goes on to the tag; any other returns.
TxEncryptBlock(w) ==
  LET p  == Home[w]
      e  == g_crypto_engine[p]
      i  == tx[w].off + 1
      ct == Ct(e.key, e.iv, e.ctr, Pt(w, Frame(w), i))
  IN
  /\ tx[w].pc \in {"crypt", "join"}
  /\ chunk' = [chunk EXCEPT ![w][i] = ct]
  /\ g_crypto_engine' = [g_crypto_engine EXCEPT ![p] = Absorb(@, ct)]
  /\ tx' = [tx EXCEPT
       ![w].off = i,
       ![w].pc  = IF i < sent[w][Frame(w)] THEN @
                  ELSE IF @ = "crypt" THEN "tag" ELSE "publish"]
  /\ UNCHANGED <<g_zero_copy_ctx, is_ready, g_tx_iv_counter, g_fuse_active,
                 heist, rx, size, notified, history>>

\* fuse_finalize_enc: the tag goes right behind the ciphertext.
TxFinalize(w) ==
  /\ tx[w].pc = "tag"
  /\ chunk' = [chunk EXCEPT
       ![w][sent[w][Frame(w)] + 1] = EngineTag(g_crypto_engine[Home[w]])]
  /\ FuseDeactivate(Home[w])
  /\ tx' = [tx EXCEPT ![w].pc = "iv"]
  /\ UNCHANGED <<g_zero_copy_ctx, is_ready, g_tx_iv_counter, g_crypto_engine,
                 heist, rx, size, notified, history>>

\* The counter goes behind the tag: the sample is sealed.
TxWriteIv(w) ==
  /\ tx[w].pc = "iv"
  /\ chunk' = [chunk EXCEPT ![w][sent[w][Frame(w)] + 2] = tx[w].temp_iv[2]]
  /\ tx' = [tx EXCEPT ![w].pc = "publish"]
  /\ lastSealed' = [lastSealed EXCEPT ![w] = Frame(w)]
  /\ rx' = [r \in Readers |->
              IF rx[r].pc # "idle" /\ rx[r].w = w
              THEN [rx[r] EXCEPT !.seen = @ \cup {Frame(w)}]
              ELSE rx[r]]
  /\ UNCHANGED <<globals, heist, size, notified, sent, armed, ignitions>>

\* The fallback: a plain copy, and no tail.
TxCopyBlock(w) ==
  LET i == tx[w].off + 1 IN
  /\ tx[w].pc = "copy"
  /\ chunk' = [chunk EXCEPT ![w][i] = Raw(Pt(w, Frame(w), i))]
  /\ tx' = [tx EXCEPT
       ![w].off = i,
       ![w].pc  = IF i < sent[w][Frame(w)] THEN "copy" ELSE "publish"]
  /\ UNCHANGED <<globals, heist, rx, size, notified, history>>

\* Fast DDS announces the sample to the matched readers.
TxPublish(w) ==
  /\ tx[w].pc = "publish"
  /\ tx' = [tx EXCEPT ![w] = InitTx]
  /\ notified' = [r \in Readers |->
       IF w \in Matched[r] THEN [notified[r] EXCEPT ![w] = @ + 1] ELSE notified[r]]
  /\ UNCHANGED <<globals, heist, rx, shm, history>>

\* What the thread does on its own once write has been called.
TxStep(w) ==
  \/ TxIgnite(w) \/ TxFuseInit(w) \/ TxEncryptBlock(w) \/ TxFinalize(w)
  \/ TxWriteIv(w) \/ TxCopyBlock(w) \/ TxPublish(w)

-----------------------------------------------------------------------------
(* The reader's thread: take_next_sample deserializes out of the chunk.    *)

\* The length is read and the destination resized; an empty sample is done.
RxTake(r, w) ==
  /\ rx[r].pc = "idle"
  /\ w \in Matched[r]
  /\ notified[r][w] > 0
  /\ notified' = [notified EXCEPT ![r][w] = @ - 1]
  /\ rx' = [rx EXCEPT ![r] = [InitRx EXCEPT
       !.pc = IF size[w] > 0 THEN "test" ELSE "return",
       !.w = w, !.len = size[w], !.seen = {lastSealed[w]}]]
  /\ UNCHANGED <<globals, heist, tx, shm, history>>

\* An open fused operation is joined.  Otherwise, armed, the explicit IV is
\* read from behind the tag; not armed, the sample is zeros.
RxIgnite(r) ==
  LET p == Home[r] IN
  /\ rx[r].pc = "test"
  /\ rx' = IF g_fuse_active[p] THEN [rx EXCEPT ![r].pc = "join"]
           ELSE IF is_ready[p]
           THEN [rx EXCEPT ![r].pc = "init",
                  ![r].temp_iv = <<g_zero_copy_ctx[p].sender, chunk[rx[r].w][rx[r].len + 2]>>]
           ELSE [rx EXCEPT ![r].pc = "return", ![r].dest = Zeros(rx[r].len)]
  /\ UNCHANGED <<globals, heist, tx, shm, notified, history>>

RxFuseInit(r) ==
  /\ rx[r].pc = "init"
  /\ FuseInit(Home[r], rx[r].temp_iv)
  /\ rx' = [rx EXCEPT ![r].pc = "crypt"]
  /\ UNCHANGED <<g_zero_copy_ctx, is_ready, g_tx_iv_counter,
                 heist, tx, shm, notified, history>>

\* One block: loaded once, absorbed, decrypted into the application's memory.
RxDecryptBlock(r) ==
  LET p == Home[r]
      e == g_crypto_engine[p]
      i == rx[r].off + 1
      c == chunk[rx[r].w][i]
  IN
  /\ rx[r].pc \in {"crypt", "join"}
  /\ g_crypto_engine' = [g_crypto_engine EXCEPT ![p] = Absorb(@, c)]
  /\ rx' = [rx EXCEPT
       ![r].off  = i,
       ![r].dest = Append(@, Decrypt(e.key, e.iv, e.ctr, c)),
       ![r].pc   = IF i < rx[r].len THEN @
                   ELSE IF @ = "crypt" THEN "verify" ELSE "return"]
  /\ UNCHANGED <<g_zero_copy_ctx, is_ready, g_tx_iv_counter, g_fuse_active,
                 heist, tx, shm, notified, history>>

\* Mutant: a mismatch is reported and the sample is kept.
RxVerifyKeepsSample(r) ==
  /\ rx[r].pc = "verify"
  /\ FuseDeactivate(Home[r])
  /\ rx' = [rx EXCEPT ![r].pc = "return"]
  /\ UNCHANGED <<g_zero_copy_ctx, is_ready, g_tx_iv_counter, g_crypto_engine,
                 heist, tx, shm, notified, history>>

\* fuse_verify_dec against the tag in the chunk; a mismatch zeroes the sample.
RxVerify(r) ==
  LET p     == Home[r]
      valid == chunk[rx[r].w][rx[r].len + 1] = EngineTag(g_crypto_engine[p])
  IN
  /\ rx[r].pc = "verify"
  /\ FuseDeactivate(p)
  /\ rx' = [rx EXCEPT
       ![r].pc   = "return",
       ![r].dest = IF valid THEN @ ELSE Zeros(rx[r].len)]
  /\ UNCHANGED <<g_zero_copy_ctx, is_ready, g_tx_iv_counter, g_crypto_engine,
                 heist, tx, shm, notified, history>>

\* take_next_sample has returned and the listener's callback, whose local the
\* sample is, ends.
RxReturn(r) ==
  /\ rx[r].pc = "return"
  /\ rx' = [rx EXCEPT ![r] = InitRx]
  /\ UNCHANGED <<globals, heist, tx, shm, notified, history>>

RxStep(r) ==
  \/ \E w \in Writers : RxTake(r, w)
  \/ RxIgnite(r) \/ RxFuseInit(r) \/ RxDecryptBlock(r) \/ RxVerify(r) \/ RxReturn(r)

-----------------------------------------------------------------------------
\* Every bounded supply is used up: the only way this system stops.
Finished ==
  /\ \A h \in Handles :
       /\ heist[h].pc = "return"
       /\ \/ heist[h].calls = StashCalls[h]
          \/ ~HandleProtected[h]
          \/ Len(HandleMaterial[h]) = 0
  /\ \A w \in Writers : tx[w].pc = "idle" /\ Frame(w) = MaxFrames
  /\ \A r \in Readers : /\ rx[r].pc = "idle"
                        /\ \A w \in Matched[r] : notified[r][w] = 0
  /\ UNCHANGED vars

Next ==
  \/ \E h \in Handles : Heist(h)
  \/ \E w \in Writers : (\E n \in Lens : TxSerialize(w, n)) \/ TxStep(w)
  \/ \E r \in Readers : RxStep(r)
  \/ Finished

Spec == Init /\ [][Next]_vars

\* The operating system runs a listener thread that has something to do.  What
\* the property below needs of the other threads it states itself.
Fairness == \A r \in Readers : WF_vars(RxStep(r))

FairSpec == Spec /\ Fairness

-----------------------------------------------------------------------------
(* Properties.                                                             *)

IvCells   == [kind : {"iv"}, n : Nat]
Ignitions == [w : Writers, f : 1..MaxFrames, key : [1..2 -> Keys], iv : Senders \X IvCells]

\* A finite sequence, of whatever.
IsSeq(s) == s \in Seq({s[i] : i \in DOMAIN s})

GlobalsType ==
  /\ g_zero_copy_ctx \in [Procs -> [key : [1..2 -> Keys], sender : Senders]]
  /\ is_ready \in [Procs -> BOOLEAN]
  /\ g_tx_iv_counter \in [Procs -> Nat]
  /\ g_fuse_active \in [Procs -> BOOLEAN]
  /\ heist \in [Handles -> [pc : {"return", "key", "iv", "ready"}, calls : Nat]]

EngineType ==
  /\ DOMAIN g_crypto_engine = Procs
  /\ \A p \in Procs : LET e == g_crypto_engine[p] IN
       /\ DOMAIN e = {"key", "iv", "ctr", "hash", "len"}
       /\ e.key \in [1..2 -> Keys]
       /\ e.ctr \in Nat
       /\ e.len \in Nat
       /\ IsSeq(e.hash)

TxType ==
  /\ DOMAIN tx = Writers
  /\ \A w \in Writers : LET t == tx[w] IN
       /\ DOMAIN t = {"pc", "off", "temp_iv"}
       /\ t.pc \in {"idle", "test", "init", "crypt", "join", "tag", "iv", "copy", "publish"}
       /\ t.off \in 0..MaxLen
       /\ t.pc \in {"init", "crypt", "tag", "iv"} => t.temp_iv \in Senders \X IvCells

RxType ==
  /\ DOMAIN rx = Readers
  /\ \A r \in Readers : LET t == rx[r] IN
       /\ DOMAIN t = {"pc", "w", "len", "off", "temp_iv", "dest", "seen"}
       /\ t.pc \in {"idle", "test", "init", "crypt", "join", "verify", "return"}
       /\ t.pc # "idle" => t.w \in Writers
       /\ t.len \in 0..MaxLen
       /\ t.off \in 0..MaxLen
       /\ IsSeq(t.dest)
       /\ t.seen \subseteq 0..MaxFrames

ShmType ==
  /\ size \in [Writers -> 0..MaxLen]
  /\ DOMAIN chunk = Writers
  /\ \A w \in Writers : DOMAIN chunk[w] = Slots
  /\ notified \in [Readers -> [Writers -> Nat]]

HistoryType ==
  /\ sent \in [Writers -> Seq(0..MaxLen)]
  /\ \A w \in Writers : Frame(w) <= MaxFrames
  /\ armed \in [Writers -> SUBSET (1..MaxFrames)]
  /\ lastSealed \in [Writers -> 0..MaxFrames]
  /\ ignitions \subseteq Ignitions

\* Every variable has its type; positions stay inside the sample and the chunk
\* (lines 157-181, 324-357: no block is written or read past the payload).
TypeOK == GlobalsType /\ EngineType /\ TxType /\ RxType /\ ShmType /\ HistoryType

\* A sample given to the application is a sample that was sealed, whole, by the
\* writer it is read from, and that was the last sealed one at some instant of
\* the read; or it is zeros.  What is read is otherwise a mixture (the chunk
\* changes under the reader), plaintext, or a block under another keystream.
DeliveredCurrent ==
  \A r \in Readers : rx[r].pc = "return" =>
    \/ rx[r].dest = Zeros(rx[r].len)
    \/ \E f \in rx[r].seen : f > 0 /\ rx[r].dest = Payload(rx[r].w, f)

\* A key and an IV open the engine for at most one sample, whichever writer
\* writes it (lines 138-143): its ciphertext may be in shared memory at once or
\* long gone.
NoncesUnique ==
  \A a, b \in ignitions : a.key = b.key /\ a.iv = b.iv => a = b

\* The cells of chunk w are a sealed sample of n blocks with plaintext body,
\* under the material of handle h: what a reader holding h's key accepts.
Opens(w, n, body, h) ==
  LET m  == Stolen(h)
      iv == <<m.sender, chunk[w][n + 2]>>
      ct == [i \in 1..n |-> Ct(<<m.key, m.key>>, iv, i, body[i])]
  IN  /\ \A i \in 1..n : chunk[w][i] = ct[i]
      /\ chunk[w][n + 1] = Mac(<<m.key, m.key>>, iv, n, ct)

\* Once write returns, a sample begun when the wrapper was armed carries its
\* own MAC and its own explicit IV behind its ciphertext, and opens under the
\* key material of a protected handle of the writer's process.
SealedAtRest ==
  \A w \in Writers : LET n == sent[w][Frame(w)] IN
    tx[w].pc = "idle" /\ Frame(w) \in armed[w] /\ n > 0 =>
      \E h \in Handles : /\ HandleProc[h] = Home[w]
                          /\ HandleProtected[h]
                          /\ Opens(w, n, Payload(w, Frame(w)), h)

\* Plaintext stands in shared memory only in samples begun before the process
\* was armed: stashing again never opens the fallback to a later sample.
NoPlaintextOnceArmed ==
  \A w \in Writers, s \in Slots :
    chunk[w][s].kind = "raw" => chunk[w][s].pt[2] \notin armed[w]

\* An open operation runs with a key and a sender id that belong together: one
\* protected handle of this process, whatever stash calls run meanwhile.
CoherentIgnition ==
  \A p \in Procs : g_fuse_active[p] =>
    \E h \in Handles :
      /\ HandleProc[h] = p
      /\ HandleProtected[h]
      /\ g_crypto_engine[p].key = <<Stolen(h).key, Stolen(h).key>>
      /\ g_crypto_engine[p].iv[1] = Stolen(h).sender

\* A reader that is armed and idle, with an announcement pending from a writer
\* that has sealed its sample and rests, delivers that sample, unless the
\* writer goes on to the next one: failed verifications before it leave nothing
\* behind that could spoil it (line 312: zeros only until the key arrives).
LastSampleArrives ==
  \A r \in Readers : \A w \in Matched[r] : \A f \in 1..MaxFrames :
    /\ rx[r].pc = "idle"
    /\ is_ready[Home[r]]
    /\ notified[r][w] > 0
    /\ tx[w].pc = "idle"
    /\ Frame(w) = f
    /\ lastSealed[w] = f
    ~> \/ tx[w].pc # "idle"
       \/ Frame(w) >= f /\ rx[r].pc = "return" /\ rx[r].dest = Payload(w, f)

Reading(r) == rx[r].pc \notin {"idle", "return"}

\* The wrapper implements the register of SecureChannel: a read is under way
\* from the take to the verdict on the tag, and a sample is sealed when its tail
\* is complete.
Abs == INSTANCE SecureChannel WITH
  Samples <- {[i \in 1..n |-> Pt(w, f, i)] :
                n \in 0..MaxLen, w \in Writers, f \in 1..MaxFrames},
  content <- [w \in Writers |-> [f \in 1..Frame(w) |-> Payload(w, f)]],
  reading <- [r \in Readers |-> IF Reading(r) THEN rx[r].w ELSE Nil],
  window <- [r \in Readers |-> IF Reading(r) THEN rx[r].seen ELSE {}],
  sample <- [r \in Readers |-> IF rx[r].pc = "return" THEN rx[r].dest ELSE << >>]

ImplementsChannel == Abs!Spec
=============================================================================
