# Verification of the fused encryption modules

TLA+ modules, TLC models and TLAPS proofs about the code under `src/`: three independent ways to
take AES-256-GCM out of the SROS2 cryptographic plugin and fuse it with the copy that moves a
sample. Paths below are relative to `src/`.

## 1. Inventory

### 1.1 Data sharing (`Data_sharing_LTO/`)

| part | state it keeps | operations |
|---|---|---|
| `FusedCryptoWrapper.cpp` | per process, unlocked: the stashed context (32-byte key, 12-byte IV of which 4 bytes are the sender id, atomic `is_ready`), the atomic counter `g_tx_iv_counter`, `g_fuse_active`, the engine, the lengths, streaming buffers and positions | `stash_stolen_key`; `fuse_inline_enc_memcpy` and `fuse_inline_dec_memcpy`, which open the engine by themselves, move one sample and close it; `fuse_init`, `fuse_finalize_enc`, `fuse_verify_dec`; the streaming `fuse_update_enc`, `fuse_inline_enc_8..64` and their decrypting twins |
| `FusedCryptoPayload.h` | key schedule and H with a key cache, J0, the counter block, the running hash | `init`, blocks of 16, 64, 128 and a tail in both directions, `finalize`, `verify_tag` |
| `ZeroCopyHeist.cpp` | none | takes the last key material of a payload-protected writer handle, derives the session key, stashes it |
| `ZeroCopyHeistPass.cpp` | - (compile time) | inserts a heist call before every return of the registration functions; registered at three extension points |
| `CryptoFusionPass.cpp` | - (compile time) | replaces stores and copies in the marked functions by calls of the wrapper |
| `Data_Sharing_Benchmark_Test/` | the sample; a shared-memory chunk owned by Fast DDS | `serialize` and `deserialize` move a sample through the chunk and jump over its 24-byte tail (MAC, counter); `main.cpp` is a publisher or a subscriber |

The application thread of each DataWriter, the listener thread of each DataReader and the threads
in which the middleware registers writers run concurrently in one process and share the wrapper's
globals. Processes share the chunks: a writer fills a chunk again without waiting for readers.

Hard: races on the globals; stashing again while samples move; reading a chunk that is being
overwritten; a plaintext fallback and zeroed samples before the key is there; decrypting before
verifying; everything that survives in engine and chunk from one sample to the next.

Correct means: a sample the application gets is a whole sample, current when read, or zeros; a
finished sample carries its own tail; no key and IV serve twice; plaintext only before the key is
there; failed reads leave nothing behind.

### 1.2 ROS2 (`ROS2_LTO/`)

| part | state | operations |
|---|---|---|
| `AESGCMGMAC_Transform.cpp` | per crypto handle, under its mutex: key materials, sessions (id, key, block counter), receiver-specific sessions, maps of remote materials | encode and decode of payloads, submessages and RTPS messages, session rotation, header, body and tag (de)serialization, handle lookup; the fast path that encrypts a thunk's sample through the wrapper |
| `FusedCryptoWrapper.cpp` | the same unlocked globals, without context and counter | streaming encryption between `fuse_init` and `fuse_finalize_enc`, which the transform calls |
| `CryptoFusionPass.cpp` | - | as above, for functions whose names contain "Cdr" and "serialize" |
| `ROS2_LTO_Benchmark_Test/` | the sample | `serialize` writes a 24-byte thunk (magic, size, function and data pointers) which the transform's fast path dereferences |

Writers, readers and participants encode in their own threads, each under its own mutex; the fast
paths of one process share one engine that no mutex covers. Decoders keep no state and derive
session keys from the message's header.

Hard: the pointer in the thunk is read later than it is written; one engine for all writers behind
per-writer mutexes; the transform's own serializers are instrumented and reach that engine;
payloads and submessages rotate one session for each other and receiver-specific keys follow; the
room computed in advance; lengths the format leaves out or keeps in 16 bits; messages lost,
repeated and overtaken by a rotation. Correct means: what is decoded is what was written, by the
entity that wrote it; a session key serves at most its number of messages; receivers' MACs are
under keys of the session the header names; encoding never runs out of room.

### 1.3 GPU against CPU SIMD (`GPU_vs_CPU_SIMD_Acceleration/`)

Engines of 1, 4 and 8 blocks per pass, two CUDA versions that evaluate GHASH as a tree of partial
products (`parallel_gcm.cu`, `aes_gcm_tree.cu`), and straight-line benchmark programs. The
threads of a thread block run concurrently between barriers. Hard: the weight of each partial
hash, cells read and overwritten on one level, sizes that do not fill the tree, keys cached across
messages. Correct means: every way to cut a text, and the tree, compute the serial GHASH.

## 2. Modules

| module | what it is |
|---|---|
| `GcmTerms` | AES-GCM with ideal primitives: cells, `EngineInit`, `Absorb`, `Decrypt`, `EngineTag` |
| `ZeroCopyCrypto` | the data-sharing system: globals of every process, heists, writers, readers, chunks |
| `SecureChannel` | abstract specification: a chunk is a register of sealed samples |
| `MCZeroCopyCrypto` | the benchmark's publisher and subscriber |
| `MCTopologies` | other placements of writers and readers in processes |
| `StreamCipher` | the streaming wrapper: byte stores, copies, buffers, positions, counters (section 5) |
| `MCStreamCipher` | its bounds |
| `SecureLayout` | the bytes of a secure message: lengths, offsets, where a decoder looks (section 6) |
| `SecureTransform` | the transform: sessions, encoders, fast path, decoders, lookup (section 6) |
| `MCSecureTransform` | two processes, a thunked and a conventional writer |
| `Gf128` | the field, as polynomials, and the code's products of it (section 7) |
| `GhashEngine` | the ARM engine: steps of 16, 64, 128 bytes and tails (section 7) |
| `GpuGhash` | the two CUDA kernels, thread by thread (section 7) |
| `MCGhash` | keys, messages, sizes |
| `ZeroCopyProofs`, `DeliveryProofs` | about `ZeroCopyCrypto`: types, plaintext, nonces, keys; what an application gets, the refinement, and what lies in a chunk |
| `StreamProofs`, `BookProofs` | about `StreamCipher`: types, positions, keystream, GCM and acceptance; what is accepted is intact |
| `TransformProofs` | about `SecureTransform`: sessions; layout, samples, room, types, MACs, routing, acceptance |
| `NumberProofs` | induction and recursion over numbers, for the others |
| `GpuProofs` | about `GpuGhash`: the tree of partial products |
| `GhashProofs` | about `Gf128` and `GhashEngine`: the field, the code's products, the engine |

`SecureTransform` EXTENDS `SecureLayout` and `GcmTerms`; `MCGhash` composes the two engines of
section 7, which meet only in what they must compute.

### 2.1 `ZeroCopyCrypto` and the code

A step is one access to shared state, or several between which no other thread's access can make a
difference; the positions (`pc`) of a thread name the places between them.

| `tx[w].pc` | place in `fuse_inline_enc_memcpy` | action that leaves it |
|---|---|---|
| `idle` | before `write` | `TxSerialize`: length field, in clear |
| `test` | line 128 | `TxIgnite`: join an open operation; or take a counter; or fall back |
| `init` | line 147 | `TxFuseInit` |
| `crypt`, `join` | lines 157-181 with and without `auto_ignited` | `TxEncryptBlock` |
| `tag`, `iv` | lines 187, 190 | `TxFinalize`, `TxWriteIv` |
| `copy` | line 151 | `TxCopyBlock` |
| `publish` | return to Fast DDS | `TxPublish` |

`rx[r].pc` is read the same way against `fuse_inline_dec_memcpy`. A heist goes `return`, `key`,
`iv`, `ready`: the two halves of the key are separate stores, so a torn key is a state.
`heist.calls` counts the inserted calls of one registration (`StashCalls`): a registration with
several returns and a pass that runs three times stash several times.

Abstractions. A payload is a sequence of 16-byte blocks `<<writer, sample, index>>`; partial
blocks belong to the streaming module. A ciphertext block names its key, IV, counter and plaintext,
a tag names what was absorbed: terms are equal when bytes are, and guessing is left out. Session
key derivation is injective: a handle's material stands for its session key. Fast DDS is external:
it announces samples (`notified`) and delivers each announcement, possibly after the chunk has
moved on. `sent`, `armed`, `lastSealed`, `ignitions` and `rx.seen` are history; no guard reads
the last four, and the code knows `sent` as the length of the sample it is working on.

### 2.2 Properties

- `DeliveredCurrent`: what the listener gets is zeros, or a whole sample of this writer that was
  the last sealed one at some instant of the read.
- `ImplementsChannel`: the same as a refinement: the system implements `SecureChannel`.
- `SealedAtRest`: once `write` returns, an armed sample opens under a protected handle's material.
- `NoncesUnique`: a key and an IV open the engine for one sample only.
- `NoPlaintextOnceArmed`: plaintext is never written by a sample begun after arming.
- `CoherentIgnition`: an open operation uses key and sender id of one protected handle.
- `LastSampleArrives`: an armed idle reader with an announcement pending from a resting writer
  delivers that writer's last sample, whatever failed before.

## 3. Runs

| run | shows | bounds |
|---|---|---|
| `zero_copy` | all properties hold for one writer and one reader in two processes, with an unprotected handle beside the protected one and two stash calls | samples of 0, 1 and 2 blocks, two per writer: enough for a sample to be overwritten by a shorter, longer or equal one while it is read |
| `two_publishers` | a reader of two writers in two processes, whose stash calls overwrite each other | one block, one sample each |
| `two_writers` | **violated**: two writers in one process spoil each other's samples | one block, one sample each |
| `both_ways` | **violated**: a process that also reads encrypts under the remote writer's key and IVs | same |
| `two_remotes` | **violated**: with two remote writers registered, one's samples are zeros for ever | same |
| `stream_mix` | every mixture of AAD pieces, stores and copies for one message, on both sides | blocks of 4 bytes, buffers of 2 blocks, 12 bytes; stores of 2 and 8 bytes, copies of 4 and 5 |
| `stream_repeat` | two messages after one another | blocks of 2 bytes, buffers of 2 blocks, 5 bytes |
| `stream_tail` | **violated**: a copy behind a store goes to the tail routine whole | one message |
| `stream_receiver` | **violated**: a receiver that streamed one message rejects the next | two messages |
| `secure_transform` | all properties of the transform, engine left to the fast path while it is open | two processes; `w` thunked with one AES-256 key, `v` conventional with two keys of different kinds, their readers, both participants; 2 messages a session, 4 messages in all, 2 of them payloads; samples of 2 pieces and 2 versions; bodies of one submessage and of two with padding between |
| `control_traffic` | **violated**: authenticated-only messages of other threads are encrypted by the open engine | the same, `OneThread` off, 2 messages |
| `ghash` | both ways to compute GHASH | 128-bit field; keys kept and changed between messages, 13 blocks and 5 bytes (every step fits in several places), a tail only, no tail, all single bits; GPU trees of 2 and 3 levels for 8 and 11, and 3, 13, 32, 33, 36 blocks |

Four messages in `secure_transform` are what it takes for a session to fill, rotate and fill up
again with the payload and the submessage path taking turns; all keys the peers do not exchange
while the run goes on are `Introduced` before it, and `Turns` leaves submessages to the senders
whose sessions something else shares: `w` and `r`, whose keys are still on the way, and the
participant `A`. 32 blocks fill the trees of `ghash` exactly; the others are too few, too many,
and not a multiple of a thread block.

The violated runs are the findings of `PROJECT.json`: each quotes the comment or document it refutes.

Fairness. Only `WF_vars(RxStep(r))` for each reader: the operating system runs a listener thread
that has something to do. Nothing is assumed of writers and heists; `LastSampleArrives` allows for
a writer that goes on. Deadlock is checked:
`Finished` is the only way to stop, and holds when all bounded supplies are used up. The streaming
runs, `secure_transform` and `ghash` assume no fairness and state no liveness: their modules are
driven by callers, which stop when
the bounded messages are through, and a copy out of bounds ends a behaviour because what the
program does next is undefined; `CHECK_DEADLOCK FALSE` stands for both in the streaming runs.

## 4. Proofs

The `ASSUME`s of the modules state types of the constants, that writers, readers and participants
are different things, and in `SecureTransform` that a message has a submessage
(`BodiesAssumption`) and that no name of a participant is the number of a key material
(`DistinctIds`: key ids are pairs in the model, random numbers in the code, and zero or unique
there). Everything else a theorem needs is in its statement.

### 4.1 Data sharing

For any processes, writers, readers, handles, materials, stash calls, lengths and samples:

| theorem | assumption | statement |
|---|---|---|
| `ZeroCopyProofs!TypeCorrect` | - | `Spec => []TypeOK` |
| `NoPlaintext` | - | `Spec => []NoPlaintextOnceArmed` |
| `NonceUniqueness` | `DistinctSenders` | `Spec => []NoncesUnique` |
| `CoherentEngines` | `OneMaterial` | `Spec => []CoherentIgnition` |
| `Delivery` | `Solo` | `Spec => []DeliveredCurrent` |
| `Channel` | `Solo` | `Spec => ImplementsChannel` |
| `Sealing` | `Solo`, `OneMaterial` | `Spec => []SealedAtRest` |

`DistinctSenders`: processes that write do not hold the same sender id. `both_ways` is what
happens otherwise. `Solo`: each process has one data thread. `two_writers` is what happens
otherwise. `OneMaterial`: the handles that stash into a process bring the same key material, any
number of times; with different materials the unlocked stores of two stash calls can mix.

`TypeCorrect` needs `Positions`: a thread in the middle of a sample is before its end, and a
writer that works has begun a sample; without it a step could index past the chunk.

`NonceUniqueness` rests on `INonces`: every IV in `ignitions` and every IV a thread holds has a
sender id stashed in its process and a counter below the process's, and no two of them have the
same counter. Taking the counter is one atomic step, so the invariant survives any number of
threads racing for it, even where `two_writers` shows the samples themselves spoiled.

`Delivery` rests on `IDelivery`. (1) `Owned`: with one thread per process nobody joins an open
operation. (2) `Encrypted`, `Decrypted`: the engine has absorbed exactly the blocks its thread has
moved. (3) `Tags`: a tag in a chunk is that of one sample of this writer, so if it verifies, all
absorbed blocks are that sample's. (4) `Settled`: a counter found behind a tag belongs to a sample
that was sealed before. (5) `Heads`: the first block in a chunk is not older than the last sealed
sample. From (4) and (5) the sample of the first block loaded was the last sealed one just then,
which is the instant `DeliveredCurrent` asks for: the reader loads the counter first and the first
block after it, and this order is what the argument needs. Each conjunct is its own lemma
(`NextOwned`, ..., `NextDelivered`), with a frame lemma per kind of step (`TxLeaves`, `RxLeaves`,
`HeistLeaves`).

`CoherentEngines` rests on `ICoherent`, which follows a handle's material from the stash to the
engine: what a stash call has stored so far, what the context holds once `is_ready` is set, what a
thread has taken on its way to `fuse_init`, and what the engine runs with. `OneMaterial` is what
lets a later stash call write over a ready context without tearing it.

`Channel` maps the initial states and every step. A writer's `TxSerialize` begins a sample, the
step that stores the explicit IV seals it, a reader's take starts a read and its verdict, or its
zeros, end it; every other step, those of heists among them, leaves the mapped variables alone.
Sealing needs `Unsealed`: a sample under way is newer than the last sealed one. That what a read
returns is `Returnable` is `IDelivery`.

`Sealing` rests on `IAtRest`: as far as the writer has come, its chunk holds the blocks, the tag
and the IV of one sample under one material (`SealedUnder`); with one data thread nobody else
joins the operation or takes the engine away.

### 4.2 The transform

For any participants, writers, readers, matches, key materials, limits, pieces, sizes and bodies:

| theorem | assumption | statement |
|---|---|---|
| `SessionBlocksBounded` | - | `Spec => []SessionBlocks` |
| `SentIsWritten` | - | `Spec => []SentAsWritten` |
| `TransformProofs!TypeCorrect` | - | `Spec => []TypeOK` |
| `SubmessagesRouted` | - | `Spec => []Routed` |
| `NobodyRefused` | every sender has finitely many peers | `Spec => []NothingRefused` |
| `MacsAreCurrent` | `OneThread` | `Spec => []MacsCurrent` |
| `AcceptedAreGenuine` | `OneThread` | `Spec => []AcceptedIsGenuine` |
| `EncodedAreOpened` | `OneThread`, `FastPathKind` | `Spec => []Opens` |

`OneThread`: while a fast path is open, no other thread of the process encodes. Without it a
receiver's session id may be stored as ciphertext, and `control_traffic` shows what becomes of a
message. `FastPathKind`: whoever writes thunks has an AES-256-GCM key last. The fast path runs
AES-256-GCM whatever the kind of its material, and the header names that kind.

`NextCases` cuts a step into what it does to the variables: it takes a session
(`Turned`), adds a message, moves a job, or leaves them alone; each lemma then treats these few
kinds and not every action. The invariants build on one another:

- `ISessions`, `IJobs`: a counter is at most its session's limit, and a session with room left has
  the key of its id; a job holds a session its writer has taken. `ICounts`: the messages of the
  present session, and one that the fast path is still making (`Pending`), are no more than the
  counter says. Without `Pending`, a payload on its way through the fast path would be counted by
  nobody.
- `ISamples`: a job of `write()` reads the version of the thunk, since the application is in that
  call: what has been read so far is that version.
- `IEngines`, `IOpen`: an open engine belongs to exactly one job and has absorbed the pieces that
  job has read; with `OneThread`, encoders find the engine off.
- `ISpecific`: a receiver's session key is that of the session id beside it, so the comparison of
  ids (`Refreshed`) decides whether the key is current.
- `IMessages`: every message has one of two forms, conventional or fused, with every cell, the
  common MAC and each receiver's MAC named. `AcceptedAreGenuine` then asks what a decoder does with
  either: a common MAC that is equal under the decoder's key is of the same key, IV and cells.
- `IReadable`: what a decoder relies on besides. The length of a message is that of its
  submessages, every receiver addressed finds its MAC (`Answered`), and only the fast path's form
  goes with its kind. `EncodedAreOpened` then follows the decoder: the ids of a sender's materials
  and of its receivers' keys differ, so `find_key` hits exactly one material (`KeyFound`); the tag
  is found (`BodyFound`); the receiver's MAC is in the list (`TagAccepted`); the body opens
  (`BodyOpens`).

The length of an authenticated-only body and the decoder's walk over it are recursive functions of
the submessages. `PlainTextWalked` proves that they agree for every sequence of submessages: the
functions are built one submessage at a time (`UpToExists`, `WalkExists`), two solutions are
equal, and the induction is over a set of numbers (`SetInduction`, from the library's theorem that
a well-founded relation has minimal elements), which needs no operator as a parameter. `SetInduction`
and `Recursion`, in `NumberProofs`, serve sections 4.3 to 4.5 as well.

`NobodyRefused` needs `RoomForMessages` and `RoomForPayloads`, arithmetic about
`calculate_extra_size_*` with its 200 bytes for ten receivers or fewer. `PostfixFoundExactly` and
`PayloadFoundExactly` show that `Expressible`, the condition in `Opens`, is not weaker than need be.

### 4.3 Streaming

For every block, buffer and width of store, any copies, AAD pieces and number of messages, without
further assumptions: `StreamProofs!TypeCorrect` (`TypeOK`), `OrderedCopiesFit` (`OrderedTailFits`),
`KeystreamUsedOnce` (`KeystreamOnce`), `OrderedIsGcm` (`StreamIsGcm`), `OrderedIsAccepted`
(`Delivered`) and `BookProofs!AcceptedAreIntact` (`AcceptedIsIntact`). The sizes of `stream_mix` and `stream_repeat` are
scaled down; these theorems hold for the code's 16 and 128 bytes.

- `Positions`: with `k` bytes stored so far, the buffer to be hashed holds `k % End` of them and
  the position in the keystream is the same, or `End` when a new buffer is due. Stored bytes that
  fill whole buffers therefore leave nothing behind, and a copy starts at a block: `OrderedTailFits`.
- `Keys`: every byte written is under a counter the engine has passed (`Behind`) and no byte of the
  buffer not yet used (`Reserve`) has been written; counters are taken for a whole buffer before
  any of it is used, so that a copy in the middle of a buffer cannot meet it. What remains of a
  buffer when a message ends is dropped by the next `fuse_init`; messages differ in their IV.
- `OnCourse`: after `n` bytes of an ordered message, the bytes hashed so far and those waiting in
  the buffer are, together, the first `n` bytes of GCM's ciphertext; what is hashed is whole
  blocks from the start (`Heard`); and the counter is GCM's, or a buffer ahead of it when bytes
  wait, whose keystream is then GCM's too (`Waiting`). Cutting a text into blocks and appending the
  next pieces is cutting the longer text, when the first fills its blocks (`Starts`): this is
  where the order of calls matters, and the lemmas about stores and copies (`CourseStore`, `CourseCopy`) use it.
- Sender and receiver are on course each by itself, whatever their calls: at the end both have
  hashed the same cut of the same bytes, so the tags agree. `ISent` keeps what was sent as what
  GCM would have made; `IReading` has the receiver on course as long as every earlier message left
  its buffers empty (`Clean`), which is the hypothesis of `Delivered`: `stream_receiver` is what
  happens otherwise.

`AcceptedAreIntact` is about calls in any order on both sides, so nothing says that sender and
receiver had any position in common; only that they hashed the same blocks. It is not obvious that
this is enough: a tag does not tell a store from a copy, stores are hashed later than copies made
after them, and a byte's counter depends on which of the two it was and on what was open then.

- A *book* (`IsBook`) keeps, of each byte of a message, its block counter `k`, its place `o` in the
  block, the place `at` of the block in the hash; and, after each byte, which byte opened the
  store buffer that is open, and the counter `now`. `Law` is what every order of calls obeys: a
  block is under one counter (`Entry`); the counter is the least one past all that is taken
  (`Counter`); a buffer stays open until its last byte is used (`Buffer`). A byte copied past an
  open buffer is hashed before it (`Over`).
- `BooksAgree`: two lawful books with the same places and blocks have the same counters. The
  induction goes byte by byte. Whether a byte was copied past a buffer can be read off the places
  (`OverBoth`), and past which (`OverWhich`); where one book has a buffer open and the other none
  (`Mixed`), the next counter is the same, unless a byte was copied past that buffer: then the
  other book had it open too and has closed it by its last byte, which is that byte in both.
- Every step of either side keeps a book. `Keeps` says how the wrapper's counter, keystream,
  positions and hash follow from it (`Desk`), and that the hash holds the bytes of the message
  where the book has them and nothing else but its AAD (`Placed`, `Listed`); `KeepsStore` and
  `KeepsInsert` take a byte or a copy into it. Hence `IBooking` for the sender and `IBooked` for the wire.
- The receiver has a book of the bytes it has opened (`IReader`), or bytes of an earlier message
  wait in its buffer, which `fuse_init` does not empty: then a byte of another IV is among what it
  hashes (`Foreign`) for good, and no tag of this message covers that (`TagIsOwn`).
- When tags are equal, both books are of the same blocks. The bytes of a message are all different,
  so each has one place (`SamePlaces`), the counters agree, and each byte was opened with the
  keystream it was written under (`OpensRightly`).

### 4.4 The GPU's tree

For trees of any depth (`PassOneLevels`, `PassTwoLevels`) and any sizes of text:
`GpuProofs!BlocksMaskedOnce` (`MaskedOnce`) and `GpuTreeIsGhash` (`TreeIsGhash`). The code's two
trees have 8 and 11 levels; the theorems need only that there is a level. `IGpu` says:

- `Phases`: between the barriers `p` and `p + 1` every thread has passed `p` or `p + 1` of them
  (`Lockstep`), whatever their order, and the cells are those of one of two moments. On a level, the
  left child `t` of a pair is overwritten only by the thread that has read it (`LeftCells`), the
  right child is left alone (`RightCells`), and what a thread has in its registers is the product
  of the cell as it was at the barrier (`Held`). This is where two threads could meet: the cell
  one of them writes back is the one it fetched, and no other thread fetches it on that level.
- The value of a cell after `n` leaves is their `Tree`: leaf `j` by the power `n - 1 - j` of a unit.
  `TreeJoin` joins two neighbours into one of twice the size when no term occurs in both
  (`LeavesApart`: a block of text, or a garbage cell, is the leaf of one place only), so that
  exclusive or is union.
- `Shares`: the first kernel leaves in cell `b` the hash of thread block `b`, with the powers 1 to
  `Threads`. `FullTree` sums these up, level by level, to the sum of GHASH when the text fills the
  tree, and `OtherText` shows that with any other size a block is missing or a cell nobody wrote
  takes part: that half of `TreeIsGhash` is the converse.
- `Masking`: what has been masked is the text of the thread blocks that have run, and of the threads
  of the present one that have stored their block (`Waiting` are the others), each under its number.

Powers of two are a function over numbers (`Pow2`), whose values `Pow2Next` and `Pow2Sum` give: `^`
has no rules in the provers. `PowersKept` is the table `h_pow` that the host computes by squaring.

### 4.5 The CPU engine

For any keys, messages, lengths, orders of steps and cuts on the receiver's side:
`GhashProofs!EngineHashes` (`HashIsGhash`), `EngineOpens` (`OpensInAnySteps`) and `EngineMultiplies`
(`ProductsAgree`). `ScheduleAssumption` says that blocks are sets of bits, that lengths fit the
blocks of a message (`aad_len <= 16 * Len(aad)`), and that AES returns blocks.

The products, in the field of 2^128 elements:

- `Mul`, the polynomial product reduced, is linear on either side. Functions linear on both sides
  that agree on single bits agree everywhere (`SameOnPairs`, an induction over the bits of the
  arguments), and on single bits it is a power of x: `Power_x(i + j)` (`PowersOfX`, `MulOfBits`). So
  it is commutative, associative, and has a unit (`MulCommutes`, `MulAssociates`, `MulOne`);
  `Times` is the same product with the bits of GCM (`TimesLaws`).
- `LoopMultiplies`: `gf_mul_64`, the GPU's bit loop, is `Times` for any two blocks. After `i` rounds
  its second register is the `i`-th power of x by the second factor (`LoopRounds`).
- `ArmMultiplies`: `gf_mul_arm` is `Times` for any two blocks. Its three carry-less products of
  words make the polynomial product by Karatsuba's identity (`KaratsubaMultiplies`, bilinear
  again), and its reduction, shifts and exclusive ors of words that pass bits on to each other, is
  the reduction of the polynomial (`FoldWords`, `FoldTwice`, `ReducedIs`).
- `WideHashes`: the wide step sums up to eight products with descending powers of H and reduces
  once. `Accumulate` says the sum of unreduced products reduces to the sum of the products; the
  powers are what `HashKeysIs` finds in the table, and spelling out the serial hash by the laws
  of the field gives the same sum.

The engine, in `EngineInv`:

- `Ghash` is defined over a sequence of blocks; `GhashAppend` is its step, and `HashAt(m, a, p)` the
  hash after `a` blocks of AAD and `p` of ciphertext. `HashStretch` is the hash over several blocks
  on end, so that a step of 16, 64 or 128 bytes (`AbsorbSeveral`), a masked tail and the length
  block each take the engine from one `HashAt` to another, or to the end (`Furthers`, `Finalizes`).
- `Sender` and `Receiver`: each engine, if on, holds the powers of the key of the message it is on
  (`EngineOk` also for a cached key that is kept), the hash is at its place, what is written is
  CTR of the text so far (`Enciphered`), and the receiver's text is the sender's (`OpenBlocks`,
  `OpenTail`). Its steps need not be the sender's: both are described by the place alone.
- A masked tail is why `CipherOf` and `TextOf` are padded sequences: bytes past the end are zero
  for the hash on both sides, whatever the keystream has there.

### 4.6 Model-checked only

- `LastSampleArrives`: liveness under fairness, as ENABLED, is out of the provers' reach.

## 5. `StreamCipher`

The fusion pass rewrites each integer store of a serializer into `fuse_inline_enc_8/16/32/64` and
each `memcpy` into `fuse_inline_enc_memcpy`. The two routes share the engine's counter and hash
and nothing else: stores take keystream from a buffer filled eight blocks ahead and leave
ciphertext in a buffer that is hashed when it is full or at the end; copies go block by block.
The module asks when such a mixture is one AES-GCM message, and whether a receiver may cut the
same bytes differently.

- State. `tx` and `rx` are the globals of the wrapper in the two processes, field by field
  (`tx_ks_pos`, `tx_gmac`, `ctr`, `hash`, ...); both processes have both directions' positions, as
  in the code. `wire` and `got` are the finished messages and what became of them. `txCalls` and
  `rxCalls` are history.
- Operations. One operator per function, with the function's name, from globals to globals, and
  one action per call. `process_fused` stands for the 128-, 64- and 16-byte loops and the tail:
  they produce the same bytes, in the same order, under the same counters; how they interleave
  AES and GHASH instructions is left out.
- Sources. The sender is `ROS2_LTO/FusedCryptoWrapper.cpp` and its engine; the receiver's
  functions exist only in `Data_sharing_LTO/FusedCryptoWrapper.cpp`, whose streaming half is
  otherwise the same. Memcpy with no open operation, which ignites there, is `ZeroCopyCrypto`.
- Callers. No caller in the repository restricts the order, so none is assumed. `ordered` records
  whether a message's calls kept the order that makes it GCM: AAD first and cut at blocks; a copy
  only when stored bytes fill whole buffers and the payload whole blocks; no store right after a
  copy that ended inside a block. This is the wrapper's unwritten contract, found by checking.

Properties: `StreamIsGcm`, `OrderedTailFits` and `Delivered` say what the contract buys.
`KeystreamOnce` (no keystream byte encrypts two plaintext bytes) and `AcceptedIsIntact` (a tag
that verifies never covers a wrongly decrypted text) hold in every order, on either side.

Bounds. The sizes are scaled down, not the structure: stores narrower than a block, straddling
blocks and straddling buffers; copies of less than, exactly and more than a block; a buffer filled,
flushed and started again; an end inside a block. Two messages are enough because all that
survives a message is two positions and two buffers, and the first message can leave each of them
in every position. A message starts when the last one has been received, which loses nothing: the
processes share only the wire. The 32-bit block counter does not wrap (a message would need 64 GB).

## 6. `SecureLayout` and `SecureTransform`

A sender is a DataWriter, a DataReader (which sends ACKNACKs) or a participant. Its encoders are
one action each, since the code holds the sender's mutex throughout; `network` keeps every message
ever encoded, so that a receiver may open any of them at any later time, again, or never. Decoders
change nothing and are operators; the properties apply them to all messages in every state.

| action or operator | code |
|---|---|
| `encode_datawriter_submessage`, `encode_datareader_submessage`, `encode_rtps_message` (`Protect`) | the encoders, any list of receivers, rotation, receivers' keys and MACs |
| `encode_serialized_payload` | its slow path |
| `Write`, `Resend`, `fuse_init`, `serialize_memcpy`, `fuse_finalize_enc` | its fast path, by the application's thread and by the one that resends |
| `Update` | the application gives its sample other content, and may reallocate it |
| `RegisterRemote`, `TokenArrives` | key exchange (external) |
| `decode_*`, `deserialize_*`, `find_key`, `lookup`, `preprocess_secure_submsg` | the decoders and the choice of handles |

Properties: `SessionBlocks` and `MacsCurrent` about rotation; `Opens` (what was encoded opens at
whoever it was meant for) and `AcceptedIsGenuine` (only that is accepted, as its sender's) about
both sides together; `Routed` about handle lookup; `SentAsWritten` about the thunk's pointer;
`NothingRefused` about the room computed in advance.

What the model makes explicit:

- The fast path does not look at the material's transformation kind: it always encrypts with
  AES-256-GCM. A thunked writer's last material has to be `aes256_gcm`, as the benchmark's is.
- An authenticated-only payload whose length is not a multiple of four, and an encrypted
  submessage of 65529 bytes or more, are not found by the decoder and turned down. `Opens` asks
  only for what is `Expressible`.
- A `memcpy` in the fast path asks once, at its beginning, whether an operation is open. A
  retransmission reads the vector as it is by then, or freed memory (`Junk`): no property promises
  more.
- Two hooks reach the engine from the transform's own serializers: the copy of an
  authenticated-only body and the store of a receiver's session id (`Hooked`, `Copied`).
- Handles are walked in the order of a hash map, so lookup returns a set; with several local
  readers of one writer any of them may be the answer, and `Routed` must hold for each.
- `session_id` counts up; it does not wrap (2^32 rotations). An IV's random half is never
  drawn twice.
- The encoders refuse a message when the buffer is too short. These branches never fire in the
  run, which is what `NothingRefused` says; the layout is exact to the byte.

## 7. `Gf128`, `GhashEngine` and `GpuGhash`

Polynomials are sets of exponents, a block the set of its bits; `Times` is the definition of the
product, `gf_mul_arm` and `gf_mul_64` are the code's. AES is a parameter: any function from key and
counter to a block.

`GhashEngine` is the ARM engine, which the wrappers of both other parts carry as a file of their
own: `process_*` for a sender and `decrypt_*` for a receiver who cuts the text into other steps,
with the key cache, the powers of H, masked tails and the length block. Its properties: the running
hash is GHASH of what has been processed (`HashIsGhash`); what one side writes the other opens
(`OpensInAnySteps`); the code's products are the product (`ProductsAgree`: all are linear, so
single bits settle them, once single-bit keys are among the keys; section 4.5 proves it for all).

`GpuGhash` has one step per access of a thread to shared memory, with the barriers of the code.
Cells are formal sums of a block times a power of H, so that a result holds for every text and H.
`TreeIsGhash`: with `Threads * Partials` blocks (8 MB in the code) the result is the sum GHASH
demands, for every order of accesses; `MaskedOnce`: each block of the text is enciphered once, under
its own counter. Thread blocks run one after another: they write disjoint cells and meet only at the
end of the kernel. With other sizes the kernels leave blocks out or sum up memory nobody wrote; the
final MAC is bare GHASH, without length block and tag mask. Both `.cu` files have these kernels;
the mapped lines are `parallel_gcm.cu`, and `aes_gcm_tree.cu` for products and powers.

The 1- and 4-way headers leave a bit reversal out of their product. `NarrowDiffers`, an assumption
TLC evaluates in `ghash`, records that it is not GCM's product and that four blocks at once hash to
something else than one after another. Nothing in the repository uses these engines with others.

## 8. Plan

1. `FusionPass`: the rewriting of one function's instructions by a pass registered at three
   extension points; how often a store is wrapped, which functions are hit.
2. `SampleSizes`: `getCdrSerializedSize`, `jump` and the 24 bytes of tail against the chunk.

## 9. Not modelled

- AES and its key schedules: a parameter or an ideal primitive. In `host_expand_key`
  (`parallel_gcm.cu:213`) the schedule depends on the language standard's order of evaluation: a
  hazard a known-answer test settles.
- The passes as compilers: planned as a model of one function's instructions; matching of names
  in a real module is not.
- The branch of `preprocess_secure_submsg` for the zero key id of secure discovery; the texts of
  security exceptions.
- Benchmarks, printing, timing, CUDA scheduling and copies between host and device: straight-line
  or pure I/O.
- Fast DDS and Fast CDR, key exchange and registration included: external; modelled where the code
  calls them.
- Weak memory. Steps are sequentially consistent; `is_ready` is a release/acquire pair, and the
  bytes it guards are the ones modelled as racing stores.
