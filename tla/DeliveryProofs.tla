--------------------------- MODULE DeliveryProofs ---------------------------
(***************************************************************************)
(* A reader's application gets samples that were sealed, whole and current *)
(* when read, or zeros: proved for any number of processes, handles,       *)
(* stash calls, samples and blocks, when each process has one data thread. *)
(* With two threads in a process it is false.                              *)
(*                                                                         *)
(* The argument.  The reader's engine has absorbed exactly the blocks it   *)
(* decrypted (Decrypted), so a tag that verifies is the tag of one sample  *)
(* of this writer, and the blocks are that sample's (Tags).  The sample    *)
(* was sealed before its first block was loaded, because its counter had   *)
(* been read from behind its tag (Settled); and nothing sealed later had   *)
(* overtaken it yet, because its first block still stood there (Heads).    *)
(***************************************************************************)
EXTENDS ZeroCopyProofs

\* Each process has one thread that moves data.
Solo == \A s, t \in Threads : Home[s] = Home[t] => s = t

\* Then the engine belongs to that thread: no operation is ever joined.
Owned ==
  /\ \A w \in Writers : /\ tx[w].pc # "join"
                        /\ g_fuse_active[Home[w]] => tx[w].pc \in {"crypt", "tag"}
  /\ \A r \in Readers : /\ rx[r].pc # "join"
                        /\ g_fuse_active[Home[r]] => rx[r].pc \in {"crypt", "verify"}

\* Positions of the threads and of the histories.
Started ==
  /\ \A w \in Writers :
       /\ tx[w].pc \in {"test", "init"} => tx[w].off = 0
       /\ tx[w].pc \in {"tag", "iv"} => tx[w].off = sent[w][Frame(w)] /\ tx[w].off > 0
       /\ lastSealed[w] <= Frame(w)
  /\ \A r \in Readers :
       /\ rx[r].pc \in {"test", "init"} => rx[r].off = 0 /\ rx[r].dest = << >>
       /\ rx[r].pc = "verify" => rx[r].off = rx[r].len /\ rx[r].off > 0
  /\ \A a \in ignitions : a.f <= Frame(a.w)

\* A writer's engine holds its own sample, as far as the thread has come.
EncryptedBy(w) ==
  LET e == g_crypto_engine[Home[w]] IN
    /\ tx[w].pc \in {"crypt", "tag"} =>
         /\ e.iv = tx[w].temp_iv
         /\ e.ctr = tx[w].off + 1
         /\ e.len = tx[w].off
         /\ Len(e.hash) = tx[w].off
         /\ \A i \in 1..tx[w].off : e.hash[i] = Ct(e.key, e.iv, i, Pt(w, Frame(w), i))
         /\ \E a \in ignitions : a.w = w /\ a.f = Frame(w) /\ a.key = e.key /\ a.iv = e.iv
    /\ tx[w].pc = "iv" =>
         \E a \in ignitions : a.w = w /\ a.f = Frame(w) /\ a.iv = tx[w].temp_iv
Encrypted == \A w \in Writers : EncryptedBy(w)

\* The counters of writer w whose sample, if there is one, is sealed.
SettledIvs(w) ==
  {c \in IvCells :
     /\ c.n < g_tx_iv_counter[Home[w]]
     /\ tx[w].pc = "init" => c.n # tx[w].temp_iv[2].n
     /\ \A a \in ignitions : a.w = w /\ a.iv[2] = c => a.f <= lastSealed[w]}

\* A counter that stands in a chunk, or that a reader took from one, is settled.
ReaderSettled(r) ==
  \A w \in Writers :
    rx[r].pc \in {"init", "crypt", "verify"} /\ rx[r].w = w /\ rx[r].temp_iv[2].kind = "iv"
      => rx[r].temp_iv[2] \in SettledIvs(w)
Settled ==
  /\ \A w \in Writers, s \in Slots : chunk[w][s].kind = "iv" => chunk[w][s] \in SettledIvs(w)
  /\ \A r \in Readers : ReaderSettled(r)

\* c is the first block of writer w's sample f.
FirstBlock(c, w, a) == c = Ct(a.key, a.iv, 1, Pt(w, a.f, 1))

\* The first block in a chunk is not older than the last sealed sample, and it is
\* the current one when the tail is written.
HeadOf(w) ==
  /\ chunk[w][1].kind = "ct" =>
       \E a \in ignitions : a.w = w /\ lastSealed[w] <= a.f /\ FirstBlock(chunk[w][1], w, a)
  /\ tx[w].pc \in {"tag", "iv"} \/ (tx[w].pc = "crypt" /\ tx[w].off > 0) =>
       chunk[w][1].kind = "ct" /\ chunk[w][1].pt = Pt(w, Frame(w), 1)
Heads == \A w \in Writers : HeadOf(w)

\* c is the tag of writer w's sample f.
TagOf(c, w, f) ==
  c.len = sent[w][f] /\ \A i \in 1..c.len : c.body[i] = Ct(c.key, c.iv, i, Pt(w, f, i))

\* A tag in a chunk is that of one of the writer's samples.
TagsIn(w) ==
  \A s \in Slots :
    chunk[w][s].kind = "mac" => \E f \in 1..Frame(w) : TagOf(chunk[w][s], w, f)
Tags == \A w \in Writers : TagsIn(w)

\* A reader's engine has absorbed what was decrypted; if the first of it is the
\* first block of a sample under the reader's key and IV, that sample was the
\* last sealed one at some instant of the read.
DecryptedBy(r) ==
  LET e == g_crypto_engine[Home[r]] IN
    rx[r].pc \in {"crypt", "verify"} =>
      /\ e.iv = rx[r].temp_iv
      /\ e.ctr = rx[r].off + 1
      /\ e.len = rx[r].off
      /\ Len(e.hash) = rx[r].off
      /\ Len(rx[r].dest) = rx[r].off
      /\ \A i \in 1..rx[r].off : rx[r].dest[i] = Decrypt(e.key, e.iv, i, e.hash[i])
      /\ rx[r].off > 0 => \A f \in 1..MaxFrames :
           e.hash[1] = Ct(e.key, e.iv, 1, Pt(rx[r].w, f, 1)) => f \in rx[r].seen
Decrypted == \A r \in Readers : DecryptedBy(r)

\* What a read under way may return.
WitnessedBy(r) ==
  rx[r].pc # "idle" =>
    lastSealed[rx[r].w] \in rx[r].seen /\ rx[r].seen \subseteq 0..Frame(rx[r].w)
Witnessed == \A r \in Readers : WitnessedBy(r)

\* What the application gets, reader by reader: together, DeliveredCurrent.
DeliveredTo(r) ==
  rx[r].pc = "return" =>
    \/ rx[r].dest = Zeros(rx[r].len)
    \/ \E f \in rx[r].seen : f > 0 /\ rx[r].dest = Payload(rx[r].w, f)

IDelivery == /\ Owned /\ Started /\ Encrypted /\ Settled /\ Heads /\ Tags
             /\ Decrypted /\ Witnessed /\ DeliveredCurrent

-----------------------------------------------------------------------------
(* What a step leaves alone.                                               *)

LEMMA SoloHomes ==
  ASSUME Solo
  PROVE  /\ \A v, w \in Writers : v # w => Home[v] # Home[w]
         /\ \A q, r \in Readers : q # r => Home[q] # Home[r]
         /\ \A w \in Writers, r \in Readers : Home[w] # Home[r]
         /\ \A t \in Threads : Home[t] \in Procs
BY ThreadsAssumption DEF Solo, Threads

\* A key heist moves nothing that the proof below looks at.
LEMMA HeistLeaves ==
  ASSUME NEW h \in Handles, Heist(h)
  PROVE  UNCHANGED <<g_fuse_active, g_crypto_engine, g_tx_iv_counter, tx, rx, chunk, size, history>>
BY DEF Heist, StealKey, StashKeyEnd, StashIv, StashReady, shm, history

\* A writer's step changes only its own thread, and in shared memory only its
\* own chunk.
LEMMA TxLeaves ==
  ASSUME ITypes, NEW w \in Writers, TxStep(w) \/ \E n \in Lens : TxSerialize(w, n)
  PROVE  /\ DOMAIN tx' = Writers /\ \A v \in Writers \ {w} : tx'[v] = tx[v]
         /\ \A v \in Writers \ {w} : chunk'[v] = chunk[v]
         /\ \A v \in Writers \ {w} : sent'[v] = sent[v] /\ Frame(v)' = Frame(v)
         /\ \A v \in Writers \ {w} : lastSealed'[v] = lastSealed[v]
         /\ \A p \in Procs \ {Home[w]} : /\ g_fuse_active'[p] = g_fuse_active[p]
                                          /\ g_crypto_engine'[p] = g_crypto_engine[p]
                                          /\ g_tx_iv_counter'[p] = g_tx_iv_counter[p]
<1> USE DEF ITypes, TypeOK, GlobalsType, EngineType, TxType, ShmType, HistoryType, Frame,
            globals, shm, history
<1>1. CASE \E n \in Lens : TxSerialize(w, n)
  BY <1>1 DEF TxSerialize
<1>2. CASE TxIgnite(w)
  BY <1>2 DEF TxIgnite, TakeCounter
<1>3. CASE TxFuseInit(w)
  BY <1>3 DEF TxFuseInit, FuseInit
<1>4. CASE TxEncryptBlock(w)
  BY <1>4 DEF TxEncryptBlock
<1>5. CASE TxFinalize(w) \/ TxWriteIv(w)
  BY <1>5 DEF TxFinalize, TxWriteIv, FuseDeactivate
<1>6. CASE TxCopyBlock(w) \/ TxPublish(w)
  BY <1>6 DEF TxCopyBlock, TxPublish
<1> QED BY <1>1, <1>2, <1>3, <1>4, <1>5, <1>6 DEF TxStep

\* A reader's step changes only its own thread, and no shared memory.
LEMMA RxLeaves ==
  ASSUME ITypes, NEW r \in Readers, RxStep(r)
  PROVE  /\ UNCHANGED <<g_zero_copy_ctx, is_ready, g_tx_iv_counter, tx, chunk, size, history>>
         /\ DOMAIN rx' = Readers /\ \A q \in Readers \ {r} : rx'[q] = rx[q]
         /\ \A p \in Procs \ {Home[r]} : /\ g_fuse_active'[p] = g_fuse_active[p]
                                          /\ g_crypto_engine'[p] = g_crypto_engine[p]
<1> USE DEF ITypes, TypeOK, GlobalsType, EngineType, RxType, globals, shm, history
<1>1. CASE \E w \in Writers : RxTake(r, w)
  BY <1>1 DEF RxTake
<1>2. CASE RxIgnite(r) \/ RxFuseInit(r)
  BY <1>2 DEF RxIgnite, RxFuseInit, FuseInit
<1>3. CASE RxDecryptBlock(r) \/ RxVerify(r) \/ RxReturn(r)
  BY <1>3 DEF RxDecryptBlock, RxVerify, RxReturn, FuseDeactivate
<1> QED BY <1>1, <1>2, <1>3 DEF RxStep

\* Only TxWriteIv touches readers, and only what they have seen.
LEMMA TxLeavesReaders ==
  ASSUME ITypes, NEW w \in Writers, TxStep(w) \/ \E n \in Lens : TxSerialize(w, n)
  PROVE  /\ DOMAIN rx' = Readers
         /\ \A r \in Readers :
              /\ rx'[r].pc = rx[r].pc /\ rx'[r].w = rx[r].w /\ rx'[r].len = rx[r].len
              /\ rx'[r].off = rx[r].off /\ rx'[r].temp_iv = rx[r].temp_iv
              /\ rx'[r].dest = rx[r].dest /\ rx[r].seen \subseteq rx'[r].seen
         /\ rx' = rx \/ TxWriteIv(w)
<1> USE DEF ITypes, TypeOK, RxType, globals, shm, history
<1>1. CASE TxWriteIv(w)
  <2>1. \A r \in Readers : rx'[r] = (IF rx[r].pc # "idle" /\ rx[r].w = w
                                    THEN [rx[r] EXCEPT !.seen = @ \cup {Frame(w)}]
                                    ELSE rx[r])
    BY <1>1 DEF TxWriteIv
  <2> QED BY <1>1, <2>1 DEF TxWriteIv
<1>2. CASE rx' = rx
  BY <1>2
<1> QED BY <1>1, <1>2 DEF TxStep, TxSerialize, TxIgnite, TxFuseInit, TxEncryptBlock,
           TxFinalize, TxCopyBlock, TxPublish

\* Histories only grow.
LEMMA HistoryGrows ==
  ASSUME ITypes, Started, [Next]_vars
  PROVE  /\ \A w \in Writers : /\ Frame(w) \in Nat /\ Frame(w)' \in Nat
                                /\ Frame(w) <= Frame(w)'
                                /\ \A f \in 1..Frame(w) : sent'[w][f] = sent[w][f]
         /\ \A w \in Writers : lastSealed[w] <= lastSealed'[w]
         /\ ignitions \subseteq ignitions'
<1>0. \A w \in Writers : Frame(w) \in Nat /\ lastSealed[w] \in Nat
  BY SampleType, BoundsAssumption DEF ITypes, TypeOK, HistoryType
<1>1. ASSUME NEW w \in Writers, NEW n \in Lens, TxSerialize(w, n)
      PROVE  /\ Frame(w)' = Frame(w) + 1
             /\ \A f \in 1..Frame(w) : sent'[w][f] = sent[w][f]
             /\ \A v \in Writers \ {w} : sent'[v] = sent[v]
             /\ UNCHANGED <<ignitions, lastSealed>>
  <2>1. /\ Len(Append(sent[w], n)) = Len(sent[w]) + 1
        /\ \A f \in 1..Len(sent[w]) : Append(sent[w], n)[f] = sent[w][f]
    BY BoundsAssumption, AppendProperties DEF ITypes, TypeOK, HistoryType
  <2> QED BY <1>1, <2>1 DEF TxSerialize, Frame, ITypes, TypeOK, HistoryType
<1>2. ASSUME NEW w \in Writers, TxStep(w)
      PROVE  /\ sent' = sent /\ ignitions \subseteq ignitions'
             /\ \A v \in Writers : lastSealed[v] <= lastSealed'[v]
  <2>1. CASE TxWriteIv(w)
    BY <1>0, <2>1 DEF TxWriteIv, Started, ITypes, TypeOK, HistoryType
  <2>2. CASE ~TxWriteIv(w)
    BY <1>0, <1>2, <2>2 DEF TxStep, TxIgnite, TxFuseInit, TxEncryptBlock, TxFinalize,
                       TxCopyBlock, TxPublish, history
  <2> QED BY <2>1, <2>2
<1>3. ASSUME \/ \E h \in Handles : Heist(h)
             \/ \E r \in Readers : RxStep(r)
             \/ Finished \/ UNCHANGED vars
      PROVE  UNCHANGED <<sent, lastSealed, ignitions>>
  BY <1>3, HeistLeaves, RxLeaves DEF Finished, vars, history
<1>4. CASE \E w \in Writers, n \in Lens : TxSerialize(w, n)
  <2> PICK w \in Writers, n \in Lens : TxSerialize(w, n)
    BY <1>4
  <2>1. \A v \in Writers \ {w} : Frame(v)' = Frame(v)
    BY <1>1 DEF Frame
  <2> QED BY <1>0, <1>1, <2>1
<1>5. CASE \E w \in Writers : TxStep(w)
  BY <1>0, <1>2, <1>5 DEF Frame
<1>6. CASE UNCHANGED <<sent, lastSealed, ignitions>>
  BY <1>0, <1>6 DEF Frame
<1> QED BY <1>3, <1>4, <1>5, <1>6 DEF Next

-----------------------------------------------------------------------------
(* One lemma for each part of the invariant.                               *)

LEMMA InitDelivery == Init => IDelivery
<1> SUFFICES ASSUME Init PROVE IDelivery
  OBVIOUS
<1> USE DEF Init, InitTx, InitRx, Blank
<1>1. 1 \in Slots
  BY BoundsAssumption DEF Slots
<1>2. Owned /\ Settled /\ Tags /\ Witnessed /\ DeliveredCurrent
  BY HomeType DEF Owned, Settled, ReaderSettled, Tags, TagsIn, Witnessed, WitnessedBy, DeliveredCurrent, Threads
<1>3. Started /\ Encrypted /\ Decrypted /\ Heads
  BY <1>1 DEF Started, Encrypted, EncryptedBy, Decrypted, DecryptedBy, Heads, HeadOf, Frame
<1> QED BY <1>2, <1>3 DEF IDelivery

LEMMA NextOwned == Solo /\ ITypes /\ Owned /\ [Next]_vars => Owned'
<1> SUFFICES ASSUME Solo, ITypes, Owned, [Next]_vars PROVE Owned'
  OBVIOUS
<1>1. ASSUME NEW h \in Handles, Heist(h) PROVE Owned'
  BY <1>1, HeistLeaves DEF Owned
<1>2. ASSUME NEW w \in Writers, TxStep(w) \/ \E n \in Lens : TxSerialize(w, n) PROVE Owned'
  <2>1. \A v \in Writers \ {w} :
          tx'[v] = tx[v] /\ g_fuse_active'[Home[v]] = g_fuse_active[Home[v]]
    BY <1>2, TxLeaves, SoloHomes DEF Threads
  <2>2. \A r \in Readers :
          rx'[r].pc = rx[r].pc /\ g_fuse_active'[Home[r]] = g_fuse_active[Home[r]]
    BY <1>2, TxLeaves, TxLeavesReaders, SoloHomes DEF Threads
  <2>3. tx'[w].pc # "join" /\ (g_fuse_active'[Home[w]] => tx'[w].pc \in {"crypt", "tag"})
    <3> USE SoloHomes DEF ITypes, TypeOK, TxType, GlobalsType, Threads, Owned, globals
    <3>1. CASE \E n \in Lens : TxSerialize(w, n)
      <4> PICK n \in Lens : TxSerialize(w, n)
        BY <3>1
      <4>1. tx[w].pc = "idle" /\ g_fuse_active' = g_fuse_active
        BY DEF TxSerialize
      <4>2. tx'[w].pc \in {"test", "publish"}
        BY DEF TxSerialize, InitTx
      <4> QED BY <4>1, <4>2
    <3>2. CASE TxIgnite(w)
      BY <3>2 DEF TxIgnite
    <3>3. CASE TxFuseInit(w) \/ TxEncryptBlock(w)
      BY <3>3 DEF TxFuseInit, TxEncryptBlock
    <3>4. CASE TxFinalize(w) \/ TxWriteIv(w)
      BY <3>4 DEF TxFinalize, FuseDeactivate, TxWriteIv
    <3>5. CASE TxCopyBlock(w) \/ TxPublish(w)
      BY <3>5 DEF TxCopyBlock, TxPublish, InitTx
    <3> QED BY <1>2, <3>1, <3>2, <3>3, <3>4, <3>5 DEF TxStep
  <2> QED BY <2>1, <2>2, <2>3 DEF Owned
<1>3. ASSUME NEW r \in Readers, RxStep(r) PROVE Owned'
  <2>1. /\ tx' = tx
        /\ \A v \in Writers : g_fuse_active'[Home[v]] = g_fuse_active[Home[v]]
    BY <1>3, RxLeaves, SoloHomes DEF Threads
  <2>2. \A q \in Readers \ {r} :
          rx'[q] = rx[q] /\ g_fuse_active'[Home[q]] = g_fuse_active[Home[q]]
    BY <1>3, RxLeaves, SoloHomes DEF Threads
  <2>3. rx'[r].pc # "join" /\ (g_fuse_active'[Home[r]] => rx'[r].pc \in {"crypt", "verify"})
    <3> USE SoloHomes DEF ITypes, TypeOK, RxType, GlobalsType, Threads, Owned, globals
    <3>1. CASE \E w \in Writers : RxTake(r, w)
      BY <3>1 DEF RxTake, InitRx
    <3>2. CASE RxIgnite(r)
      BY <3>2 DEF RxIgnite
    <3>3. CASE RxFuseInit(r) \/ RxDecryptBlock(r)
      BY <3>3 DEF RxFuseInit, RxDecryptBlock
    <3>4. CASE RxVerify(r) \/ RxReturn(r)
      BY <3>4 DEF RxVerify, FuseDeactivate, RxReturn, InitRx
    <3> QED BY <1>3, <3>1, <3>2, <3>3, <3>4 DEF RxStep
  <2> QED BY <2>1, <2>2, <2>3 DEF Owned
<1>4. CASE Finished \/ UNCHANGED vars
  BY <1>4 DEF Finished, vars, globals, Owned
<1> QED BY <1>1, <1>2, <1>3, <1>4 DEF Next

LEMMA NextStarted == ITypes /\ Owned /\ Started /\ [Next]_vars => Started'
<1> SUFFICES ASSUME ITypes, Owned, Started, [Next]_vars PROVE Started'
  OBVIOUS
<1>0. /\ \A w \in Writers : /\ Frame(w) \in Nat /\ Frame(w)' \in Nat /\ Frame(w) <= Frame(w)'
                            /\ \A f \in 1..Frame(w) : sent'[w][f] = sent[w][f]
                            /\ lastSealed[w] \in Nat
      /\ \A a \in ignitions : a.w \in Writers /\ a.f \in Nat
  BY HistoryGrows DEF ITypes, TypeOK, HistoryType, Ignitions
<1>1. ASSUME NEW h \in Handles, Heist(h) PROVE Started'
  BY <1>1, HeistLeaves DEF Started, history, Frame
<1>2. ASSUME NEW w \in Writers, TxStep(w) \/ \E n \in Lens : TxSerialize(w, n) PROVE Started'
  <2>1. \A v \in Writers \ {w} : /\ tx'[v] = tx[v] /\ sent'[v] = sent[v]
                                 /\ Frame(v)' = Frame(v) /\ lastSealed'[v] = lastSealed[v]
    BY <1>2, TxLeaves
  <2>2. \A r \in Readers : /\ rx'[r].pc = rx[r].pc /\ rx'[r].off = rx[r].off
                           /\ rx'[r].dest = rx[r].dest /\ rx'[r].len = rx[r].len
    BY <1>2, TxLeavesReaders
  <2>3. /\ tx'[w].pc \in {"test", "init"} => tx'[w].off = 0
        /\ tx'[w].pc \in {"tag", "iv"} => tx'[w].off = sent'[w][Frame(w)'] /\ tx'[w].off > 0
        /\ lastSealed'[w] <= Frame(w)'
    <3> USE DEF ITypes, TypeOK, TxType, Started, history
    <3>1. CASE \E n \in Lens : TxSerialize(w, n)
      BY <1>0, <3>1 DEF TxSerialize, InitTx
    <3>2. CASE TxIgnite(w) \/ TxFuseInit(w)
      BY <3>2 DEF TxIgnite, TxFuseInit, Frame
    <3>3. CASE TxEncryptBlock(w)
      <4>1. tx[w].off \in Nat /\ tx[w].off < sent[w][Frame(w)] /\ sent[w][Frame(w)] \in Nat
        <5>1. Frame(w) > 0 /\ tx[w].off < sent[w][Frame(w)] /\ tx[w].off \in 0..MaxLen
          BY <3>3 DEF TxEncryptBlock, Positions
        <5>2. sent[w][Frame(w)] \in 0..MaxLen
          BY <1>0, <5>1, SampleType
        <5> QED BY <5>1, <5>2, BoundsAssumption
      <4> QED BY <3>3, <4>1 DEF TxEncryptBlock, Frame, Owned
    <3>4. CASE TxFinalize(w)
      BY <3>4 DEF TxFinalize, Frame
    <3>5. CASE TxWriteIv(w)
      BY <1>0, <3>5 DEF TxWriteIv, Frame, HistoryType
    <3>6. CASE TxCopyBlock(w) \/ TxPublish(w)
      BY <3>6 DEF TxCopyBlock, TxPublish, InitTx, Frame
    <3> QED BY <1>2, <3>1, <3>2, <3>3, <3>4, <3>5, <3>6 DEF TxStep
  <2>4. \A a \in ignitions' : a.f <= Frame(a.w)'
    <3>1. CASE TxFuseInit(w)
      <4>1. Frame(w)' = Frame(w)
        BY <3>1 DEF TxFuseInit, Frame
      <4> QED BY <1>0, <2>1, <3>1, <4>1 DEF TxFuseInit, Started
    <3>2. CASE ignitions' = ignitions
      BY <1>0, <3>2 DEF Started
    <3> QED BY <1>2, <3>1, <3>2 DEF TxStep, TxSerialize, TxIgnite, TxEncryptBlock, TxFinalize,
               TxWriteIv, TxCopyBlock, TxPublish, history
  <2> QED BY <2>1, <2>2, <2>3, <2>4 DEF Started
<1>3. ASSUME NEW r \in Readers, RxStep(r) PROVE Started'
  <2>1. UNCHANGED <<tx, sent, lastSealed, ignitions>> /\ \A q \in Readers \ {r} : rx'[q] = rx[q]
    BY <1>3, RxLeaves DEF history
  <2>2. /\ rx'[r].pc \in {"test", "init"} => rx'[r].off = 0 /\ rx'[r].dest = << >>
        /\ rx'[r].pc = "verify" => rx'[r].off = rx'[r].len /\ rx'[r].off > 0
    <3> USE DEF ITypes, TypeOK, RxType, Started
    <3>1. CASE \E w \in Writers : RxTake(r, w)
      BY <3>1 DEF RxTake, InitRx
    <3>2. CASE RxIgnite(r) \/ RxFuseInit(r)
      BY <3>2 DEF RxIgnite, RxFuseInit
    <3>3. CASE RxDecryptBlock(r)
      <4>1. rx[r].off \in Nat /\ rx[r].off < rx[r].len /\ rx[r].len \in Nat
        BY <3>3, BoundsAssumption DEF RxDecryptBlock, Positions
      <4> QED BY <3>3, <4>1 DEF RxDecryptBlock, Owned
    <3>4. CASE RxVerify(r) \/ RxReturn(r)
      BY <3>4 DEF RxVerify, RxReturn, InitRx
    <3> QED BY <1>3, <3>1, <3>2, <3>3, <3>4 DEF RxStep
  <2> QED BY <2>1, <2>2 DEF Started, Frame
<1>4. CASE Finished \/ UNCHANGED vars
  BY <1>4 DEF Finished, vars, history, Started, Frame
<1> QED BY <1>1, <1>2, <1>3, <1>4 DEF Next

LEMMA NextEncrypted ==
  Solo /\ ITypes /\ Owned /\ Started /\ Encrypted /\ [Next]_vars => Encrypted'
<1> SUFFICES ASSUME Solo, ITypes, Owned, Started, Encrypted, [Next]_vars PROVE Encrypted'
  OBVIOUS
<1>0. /\ ignitions \subseteq ignitions'
      /\ \A w \in Writers : Home[w] \in Procs
  BY HistoryGrows, SoloHomes DEF Threads
<1>1. ASSUME NEW v \in Writers, tx'[v] = tx[v], Frame(v)' = Frame(v),
             g_crypto_engine'[Home[v]] = g_crypto_engine[Home[v]]
      PROVE  EncryptedBy(v)'
  BY <1>0, <1>1 DEF Encrypted, EncryptedBy
<1>2. ASSUME NEW w \in Writers, TxStep(w) \/ \E n \in Lens : TxSerialize(w, n)
      PROVE  EncryptedBy(w)'
  <2> USE DEF ITypes, TypeOK, TxType, history
  <2> DEFINE e == g_crypto_engine[Home[w]]
  <2>1. CASE \E n \in Lens : TxSerialize(w, n)
    <3>1. tx'[w].pc \in {"test", "publish"}
      BY <2>1 DEF TxSerialize, InitTx
    <3> QED BY <3>1 DEF EncryptedBy
  <2>2. CASE TxIgnite(w) \/ TxCopyBlock(w) \/ TxPublish(w)
    <3>1. tx'[w].pc \in {"init", "copy", "publish", "idle", "join"}
      BY <2>2 DEF TxIgnite, TxCopyBlock, TxPublish, InitTx
    <3> QED BY <3>1 DEF EncryptedBy
  <2>3. CASE TxFuseInit(w)
    <3> DEFINE key == g_zero_copy_ctx[Home[w]].key
               i == [w |-> w, f |-> Frame(w), key |-> key, iv |-> tx[w].temp_iv]
    <3>1. /\ tx'[w].pc = "crypt" /\ tx'[w].off = 0 /\ tx'[w].temp_iv = tx[w].temp_iv
          /\ Frame(w)' = Frame(w) /\ i \in ignitions'
      BY <2>3 DEF TxFuseInit, Started, Frame
    <3>2. LET d == g_crypto_engine'[Home[w]] IN
          d.key = key /\ d.iv = tx[w].temp_iv /\ d.ctr = 1 /\ d.hash = << >> /\ d.len = 0
      BY <1>0, <2>3 DEF TxFuseInit, FuseInit, EngineInit, EngineType
    <3>3. i.w = w /\ i.f = Frame(w) /\ i.key = key /\ i.iv = tx[w].temp_iv
      OBVIOUS
    <3> QED BY <3>1, <3>2, <3>3 DEF EncryptedBy
  <2>4. CASE TxEncryptBlock(w)
    <3> DEFINE ct == Ct(e.key, e.iv, e.ctr, Pt(w, Frame(w), tx[w].off + 1))
    <3>1. /\ tx[w].pc = "crypt" /\ tx'[w].pc \in {"crypt", "tag"}
          /\ tx'[w].off = tx[w].off + 1 /\ tx'[w].temp_iv = tx[w].temp_iv
          /\ tx[w].off \in Nat /\ sent' = sent /\ ignitions' = ignitions
      BY <2>4, BoundsAssumption DEF TxEncryptBlock, Owned
    <3>2. /\ IsSeq(e.hash)
          /\ LET d == g_crypto_engine'[Home[w]] IN
             /\ d.key = e.key /\ d.iv = e.iv /\ d.ctr = e.ctr + 1 /\ d.len = e.len + 1
             /\ d.hash = Append(e.hash, ct)
      BY <1>0, <2>4 DEF TxEncryptBlock, Absorb, EngineType
    <3>3. /\ e.iv = tx[w].temp_iv /\ e.ctr = tx[w].off + 1 /\ e.len = tx[w].off
          /\ Len(e.hash) = tx[w].off
          /\ \A i \in 1..tx[w].off : e.hash[i] = Ct(e.key, e.iv, i, Pt(w, Frame(w), i))
          /\ \E a \in ignitions : a.w = w /\ a.f = Frame(w) /\ a.key = e.key /\ a.iv = e.iv
      BY <3>1 DEF Encrypted, EncryptedBy
    <3> HIDE DEF e, ct
    <3>4. /\ Len(Append(e.hash, ct)) = tx[w].off + 1
          /\ \A i \in 1..tx[w].off : Append(e.hash, ct)[i] = e.hash[i]
          /\ Append(e.hash, ct)[tx[w].off + 1] = ct
      BY <3>2, <3>3, AppendToSeq
    <3>5. ct = Ct(e.key, e.iv, tx[w].off + 1, Pt(w, Frame(w), tx[w].off + 1))
      BY <3>3 DEF ct
    <3>6. \A i \in 1..(tx[w].off + 1) :
            Append(e.hash, ct)[i] = Ct(e.key, e.iv, i, Pt(w, Frame(w), i))
      BY <3>1, <3>3, <3>4, <3>5
    <3> QED BY <3>1, <3>2, <3>3, <3>4, <3>6 DEF EncryptedBy, Frame
  <2>5. CASE TxFinalize(w)
    <3>1. /\ tx[w].pc = "tag" /\ tx'[w].pc = "iv" /\ tx'[w].temp_iv = tx[w].temp_iv
          /\ sent' = sent /\ ignitions' = ignitions
      BY <2>5 DEF TxFinalize
    <3> QED BY <3>1 DEF Encrypted, EncryptedBy, Frame
  <2>6. CASE TxWriteIv(w)
    <3>1. tx'[w].pc = "publish"
      BY <2>6 DEF TxWriteIv
    <3> QED BY <3>1 DEF EncryptedBy
  <2> QED BY <1>2, <2>1, <2>2, <2>3, <2>4, <2>5, <2>6 DEF TxStep
<1>3. CASE \E w \in Writers : (\E n \in Lens : TxSerialize(w, n)) \/ TxStep(w)
  <2> PICK w \in Writers : TxStep(w) \/ \E n \in Lens : TxSerialize(w, n)
    BY <1>3
  <2>1. \A v \in Writers \ {w} : /\ tx'[v] = tx[v] /\ Frame(v)' = Frame(v)
                                 /\ g_crypto_engine'[Home[v]] = g_crypto_engine[Home[v]]
    BY TxLeaves, SoloHomes DEF Threads
  <2> QED BY <1>1, <1>2, <2>1 DEF Encrypted
<1>4. ASSUME \/ \E h \in Handles : Heist(h)
             \/ \E r \in Readers : RxStep(r)
             \/ Finished \/ UNCHANGED vars
      PROVE  Encrypted'
  <2>1. \A v \in Writers : /\ tx'[v] = tx[v] /\ Frame(v)' = Frame(v)
                           /\ g_crypto_engine'[Home[v]] = g_crypto_engine[Home[v]]
    BY <1>4, HeistLeaves, RxLeaves, SoloHomes
       DEF Finished, vars, globals, history, Frame, Threads
  <2> QED BY <1>1, <2>1 DEF Encrypted
<1> QED BY <1>3, <1>4 DEF Next

\* What was settled stays settled.
LEMMA SettledGrows ==
  ASSUME Solo, ITypes, INonces, Started, [Next]_vars
  PROVE  \A w \in Writers : SettledIvs(w) \subseteq SettledIvs(w)'
<1>a. \A w \in Writers : lastSealed[w] <= lastSealed'[w]
  BY HistoryGrows
<1> SUFFICES ASSUME NEW w \in Writers, NEW c \in IvCells,
                    c.n < g_tx_iv_counter[Home[w]],
                    tx[w].pc = "init" => c.n # tx[w].temp_iv[2].n,
                    \A a \in ignitions : a.w = w /\ a.iv[2] = c => a.f <= lastSealed[w]
             PROVE  /\ c.n < g_tx_iv_counter'[Home[w]]
                    /\ tx'[w].pc = "init" => c.n # tx'[w].temp_iv[2].n
                    /\ \A a \in ignitions' : a.w = w /\ a.iv[2] = c => a.f <= lastSealed'[w]
  BY DEF SettledIvs
<1>0. /\ c.n \in Nat /\ Home[w] \in Procs /\ g_tx_iv_counter[Home[w]] \in Nat
      /\ lastSealed[w] \in Nat /\ lastSealed[w] <= lastSealed'[w] /\ lastSealed'[w] \in Nat
      /\ \A a \in ignitions : a.f \in Nat
  <2>1. lastSealed' \in [Writers -> 0..MaxFrames]
    BY NextTypes DEF ITypes, TypeOK, HistoryType
  <2>2. lastSealed'[w] \in Nat /\ lastSealed[w] \in Nat
    BY <2>1, BoundsAssumption DEF ITypes, TypeOK, HistoryType
  <2>3. \A a \in ignitions : a.f \in Nat
    BY DEF ITypes, TypeOK, HistoryType, Ignitions
  <2>5. Home[w] \in Procs /\ g_tx_iv_counter[Home[w]] \in Nat /\ c.n \in Nat
    BY SoloHomes DEF Threads, ITypes, TypeOK, GlobalsType, IvCells
  <2> QED BY <1>a, <2>2, <2>3, <2>5
<1>1. ASSUME g_tx_iv_counter'[Home[w]] = g_tx_iv_counter[Home[w]], tx'[w].pc = "init" => tx'[w] = tx[w],
             \A a \in ignitions' : a.w = w => a \in ignitions
      PROVE  /\ c.n < g_tx_iv_counter'[Home[w]]
             /\ tx'[w].pc = "init" => c.n # tx'[w].temp_iv[2].n
             /\ \A a \in ignitions' : a.w = w /\ a.iv[2] = c => a.f <= lastSealed'[w]
  BY <1>0, <1>1
<1>2. CASE TxIgnite(w)
  <2>1. UNCHANGED <<ignitions, lastSealed>> /\ tx[w].pc = "test"
    BY <1>2 DEF TxIgnite, history
  <2>2. CASE g_fuse_active[Home[w]] \/ ~is_ready[Home[w]]
    BY <1>1, <1>2, <2>1, <2>2 DEF TxIgnite, ITypes, TypeOK, TxType
  <2>3. CASE ~ (g_fuse_active[Home[w]] \/ ~is_ready[Home[w]])
    <3>1. /\ g_tx_iv_counter'[Home[w]] = g_tx_iv_counter[Home[w]] + 1
          /\ tx'[w].temp_iv[2] = IvCell(g_tx_iv_counter[Home[w]])
      BY <1>0, <1>2, <2>3 DEF TxIgnite, TakeCounter, ITypes, TypeOK, TxType, GlobalsType
    <3>2. tx'[w].temp_iv[2].n = g_tx_iv_counter[Home[w]]
      BY <3>1 DEF IvCell
    <3> QED BY <1>0, <2>1, <3>1, <3>2
  <2> QED BY <2>2, <2>3
<1>3. CASE TxFuseInit(w)
  <2> DEFINE i == [w |-> w, f |-> Frame(w), key |-> g_zero_copy_ctx[Home[w]].key,
                   iv |-> tx[w].temp_iv]
  <2>1. /\ UNCHANGED <<g_tx_iv_counter, lastSealed>>
        /\ tx[w].pc = "init" /\ tx'[w].pc = "crypt"
        /\ ignitions' = ignitions \cup {i}
    BY <1>3 DEF TxFuseInit, ITypes, TypeOK, TxType
  <2>2. i.iv = tx[w].temp_iv
    OBVIOUS
  <2>3. i.iv[2] # c
    BY <2>1, <2>2
  <2> QED BY <1>0, <2>1, <2>3
<1>4. CASE \E v \in Writers \ {w} : (\E n \in Lens : TxSerialize(v, n)) \/ TxStep(v)
  <2> PICK v \in Writers \ {w} : (\E n \in Lens : TxSerialize(v, n)) \/ TxStep(v)
    BY <1>4
  <2>1. g_tx_iv_counter'[Home[w]] = g_tx_iv_counter[Home[w]] /\ tx'[w] = tx[w]
    BY <1>0, TxLeaves, SoloHomes
  <2>2. \A a \in ignitions' : a \in ignitions \/ a.w = v
    BY DEF TxSerialize, TxStep, TxIgnite, TxFuseInit, TxEncryptBlock, TxFinalize,
           TxWriteIv, TxCopyBlock, TxPublish, history
  <2> QED BY <1>1, <2>1, <2>2
<1>5. CASE \/ \E n \in Lens : TxSerialize(w, n)
          \/ TxEncryptBlock(w) \/ TxFinalize(w) \/ TxWriteIv(w) \/ TxCopyBlock(w) \/ TxPublish(w)
  <2>1. /\ UNCHANGED <<g_tx_iv_counter, ignitions>>
        /\ tx'[w].pc = "init" => tx'[w] = tx[w]
    BY <1>5 DEF TxSerialize, TxEncryptBlock, TxFinalize, TxWriteIv, TxCopyBlock, TxPublish,
                globals, history, InitTx, ITypes, TypeOK, TxType
  <2> QED BY <1>1, <2>1
<1>6. ASSUME \/ \E h \in Handles : Heist(h)
             \/ \E r \in Readers : RxStep(r)
             \/ Finished \/ UNCHANGED vars
      PROVE  UNCHANGED <<g_tx_iv_counter, ignitions, tx>>
  BY <1>6, HeistLeaves, RxLeaves DEF Finished, vars, globals, history
<1> QED BY <1>1, <1>2, <1>3, <1>4, <1>5, <1>6 DEF Next, TxStep

LEMMA NextSettled ==
  Solo /\ ITypes /\ INonces /\ Owned /\ Started /\ Encrypted /\ Settled /\ [Next]_vars => Settled'
<1> SUFFICES ASSUME Solo, ITypes, INonces, Owned, Started, Encrypted, Settled, [Next]_vars
             PROVE  Settled'
  OBVIOUS
<1>0. \A w \in Writers : SettledIvs(w) \subseteq SettledIvs(w)'
  BY SettledGrows
<1>1. ASSUME chunk' = chunk, rx' = rx PROVE Settled'
  BY <1>0, <1>1 DEF Settled, ReaderSettled
<1>2. ASSUME NEW w \in Writers, TxStep(w) \/ \E n \in Lens : TxSerialize(w, n) PROVE Settled'
  <2>1. \A v \in Writers \ {w} : chunk'[v] = chunk[v]
    BY <1>2, TxLeaves
  <2>2. \A r \in Readers : /\ rx'[r].pc = rx[r].pc /\ rx'[r].w = rx[r].w
                           /\ rx'[r].temp_iv = rx[r].temp_iv
    BY <1>2, TxLeavesReaders
  <2>3. \A s \in Slots : chunk'[w][s].kind = "iv" => chunk'[w][s] \in SettledIvs(w)'
    <3>1. CASE \A s \in Slots : chunk'[w][s].kind = "iv" => chunk'[w][s] = chunk[w][s]
      BY <1>0, <3>1 DEF Settled
    <3>2. CASE TxWriteIv(w)
      <4>1. PICK a \in ignitions : a.w = w /\ a.f = Frame(w) /\ a.iv = tx[w].temp_iv
        BY <3>2 DEF TxWriteIv, Encrypted, EncryptedBy
      <4>2. /\ UNCHANGED <<g_tx_iv_counter, ignitions>> /\ tx'[w].pc = "publish"
            /\ lastSealed'[w] = Frame(w)
        BY <3>2 DEF TxWriteIv, globals, ITypes, TypeOK, TxType, HistoryType
      <4>3. tx[w].temp_iv[2] \in IvCells /\ tx[w].temp_iv[2].n < g_tx_iv_counter[Home[w]]
        BY <4>1 DEF ITypes, TypeOK, HistoryType, Ignitions, INonces, CountersTaken
      <4>4. \A b \in ignitions : b.w = w => b.f <= Frame(w)
        BY DEF Started
      <4>5. tx[w].temp_iv[2] \in SettledIvs(w)'
        BY <4>2, <4>3, <4>4 DEF SettledIvs
      <4>6. \A s \in Slots : chunk'[w][s] = chunk[w][s] \/ chunk'[w][s] = tx[w].temp_iv[2]
        BY <3>2 DEF TxWriteIv, ITypes, TypeOK, ShmType
      <4> QED BY <1>0, <4>5, <4>6 DEF Settled
    <3>3. CASE TxEncryptBlock(w) \/ TxFinalize(w) \/ TxCopyBlock(w)
      <4>1. \A s \in Slots : chunk'[w][s] = chunk[w][s] \/ chunk'[w][s].kind \in {"ct", "mac", "raw"}
        BY <3>3 DEF TxEncryptBlock, TxFinalize, TxCopyBlock, Ct, EngineTag, Mac, Raw,
                    ITypes, TypeOK, ShmType
      <4> QED BY <3>1, <4>1
    <3>4. CASE \/ \E n \in Lens : TxSerialize(w, n)
              \/ TxIgnite(w) \/ TxFuseInit(w) \/ TxPublish(w)
      <4>1. chunk' = chunk
        BY <3>4 DEF TxSerialize, TxIgnite, TxFuseInit, TxPublish, shm
      <4> QED BY <3>1, <4>1
    <3> QED BY <1>2, <3>2, <3>3, <3>4 DEF TxStep
  <2>4. \A v \in Writers, s \in Slots : chunk'[v][s].kind = "iv" => chunk'[v][s] \in SettledIvs(v)'
    <3> TAKE v \in Writers, s \in Slots
    <3>1. CASE v = w
      BY <2>3, <3>1
    <3>2. CASE v # w
      BY <1>0, <2>1, <3>2 DEF Settled
    <3> QED BY <3>1, <3>2
  <2>5. \A r \in Readers : ReaderSettled(r)'
    BY <1>0, <2>2 DEF Settled, ReaderSettled
  <2> QED BY <2>4, <2>5 DEF Settled
<1>3. ASSUME NEW r \in Readers, RxStep(r) PROVE Settled'
  <2>1. chunk' = chunk /\ \A q \in Readers \ {r} : rx'[q] = rx[q]
    BY <1>3, RxLeaves
  <2>3. ReaderSettled(r)'
    <3> USE DEF ITypes, TypeOK, RxType
    <3>1. CASE \E w \in Writers : RxTake(r, w)
      <4>1. rx'[r].pc \in {"test", "return"}
        BY <3>1 DEF RxTake, InitRx
      <4> QED BY <4>1 DEF ReaderSettled
    <3>2. CASE RxIgnite(r)
      <4>1. rx[r].pc = "test" /\ rx'[r].w = rx[r].w
        BY <3>2 DEF RxIgnite
      <4>2. rx'[r].pc = "init" => rx'[r].temp_iv[2] = chunk[rx[r].w][rx[r].len + 2]
        BY <3>2 DEF RxIgnite
      <4>3. rx'[r].pc \in {"init", "join", "return"}
        BY <3>2 DEF RxIgnite
      <4>4. rx[r].len + 2 \in Slots
        BY BoundsAssumption DEF Slots
      <4> QED BY <1>0, <4>1, <4>2, <4>3, <4>4 DEF Settled, ReaderSettled
    <3>3. CASE RxFuseInit(r) \/ RxDecryptBlock(r)
      <4>1. /\ rx[r].pc \in {"init", "crypt"} /\ rx'[r].w = rx[r].w
            /\ rx'[r].temp_iv = rx[r].temp_iv
        BY <3>3 DEF RxFuseInit, RxDecryptBlock, Owned
      <4> QED BY <1>0, <4>1 DEF Settled, ReaderSettled
    <3>4. CASE RxVerify(r) \/ RxReturn(r)
      <4>1. rx'[r].pc \in {"return", "idle"}
        BY <3>4 DEF RxVerify, RxReturn, InitRx
      <4> QED BY <4>1 DEF ReaderSettled
    <3> QED BY <1>3, <3>1, <3>2, <3>3, <3>4 DEF RxStep
  <2>4. \A q \in Readers \ {r} : ReaderSettled(q)'
    BY <1>0, <2>1 DEF Settled, ReaderSettled
  <2>5. \A w \in Writers, s \in Slots : chunk'[w][s].kind = "iv" => chunk'[w][s] \in SettledIvs(w)'
    BY <1>0, <2>1 DEF Settled
  <2> QED BY <2>3, <2>4, <2>5 DEF Settled
<1>4. ASSUME \/ \E h \in Handles : Heist(h)
             \/ Finished \/ UNCHANGED vars
      PROVE  Settled'
  BY <1>1, <1>4, HeistLeaves DEF Finished, vars, shm
<1> QED BY <1>2, <1>3, <1>4 DEF Next

LEMMA NextHeads ==
  ITypes /\ Owned /\ Started /\ Encrypted /\ Heads /\ [Next]_vars => Heads'
<1> SUFFICES ASSUME ITypes, Owned, Started, Encrypted, Heads, [Next]_vars PROVE Heads'
  OBVIOUS
<1>0. ignitions \subseteq ignitions'
  BY HistoryGrows
<1>1. ASSUME NEW v \in Writers, UNCHANGED <<tx[v], chunk[v], lastSealed[v], Frame(v)>>
      PROVE  HeadOf(v)'
  BY <1>0, <1>1 DEF Heads, HeadOf
<1>2. ASSUME NEW w \in Writers, TxStep(w) \/ \E n \in Lens : TxSerialize(w, n)
      PROVE  HeadOf(w)'
  <2> USE DEF ITypes, TypeOK, TxType, ShmType
  <2>1. CASE \/ \E n \in Lens : TxSerialize(w, n)
            \/ TxIgnite(w) \/ TxFuseInit(w) \/ TxPublish(w)
    <3>1. /\ chunk' = chunk /\ lastSealed' = lastSealed
          /\ tx'[w].pc \in {"test", "init", "join", "copy", "publish", "idle"}
               \/ (tx'[w].pc = "crypt" /\ tx'[w].off = 0)
      BY <2>1 DEF TxSerialize, TxIgnite, TxFuseInit, TxPublish, shm, history, InitTx, Started
    <3> QED BY <1>0, <3>1 DEF Heads, HeadOf
  <2>2. CASE TxEncryptBlock(w)
    <3> DEFINE e == g_crypto_engine[Home[w]]
               ct == Ct(e.key, e.iv, e.ctr, Pt(w, Frame(w), tx[w].off + 1))
    <3>1. /\ tx[w].pc = "crypt" /\ lastSealed' = lastSealed /\ Frame(w)' = Frame(w)
          /\ tx[w].off \in Nat /\ tx[w].off + 1 \in Slots /\ 1 \in Slots
          /\ chunk'[w] = [chunk[w] EXCEPT ![tx[w].off + 1] = ct]
      BY <2>2, BoundsAssumption DEF TxEncryptBlock, Owned, history, Frame, Slots
    <3>2. CASE tx[w].off = 0
      <4>1. /\ chunk'[w][1] = Ct(e.key, e.iv, 1, Pt(w, Frame(w), 1))
            /\ lastSealed[w] <= Frame(w)
            /\ \E a \in ignitions : a.w = w /\ a.f = Frame(w) /\ a.key = e.key /\ a.iv = e.iv
        BY <3>1, <3>2 DEF Encrypted, EncryptedBy, Started
      <4>2. chunk'[w][1].kind = "ct" /\ chunk'[w][1].pt = Pt(w, Frame(w), 1)
        BY <4>1 DEF Ct
      <4> QED BY <1>0, <3>1, <4>1, <4>2 DEF HeadOf, FirstBlock
    <3>3. CASE tx[w].off > 0
      <4>1. chunk'[w][1] = chunk[w][1]
        BY <3>1, <3>3
      <4> QED BY <1>0, <3>1, <3>3, <4>1 DEF Heads, HeadOf
    <3> QED BY <3>1, <3>2, <3>3
  <2>3. CASE TxFinalize(w) \/ TxWriteIv(w)
    <3>1. /\ tx[w].pc \in {"tag", "iv"} /\ tx'[w].pc \in {"iv", "publish"}
          /\ Frame(w)' = Frame(w)
          /\ lastSealed'[w] = lastSealed[w] \/ (lastSealed'[w] = Frame(w) /\ tx'[w].pc = "publish")
      <4>1. CASE TxFinalize(w)
        BY <4>1 DEF TxFinalize, history, Frame
      <4>2. CASE TxWriteIv(w)
        BY <4>2 DEF TxWriteIv, Frame, HistoryType
      <4> QED BY <2>3, <4>1, <4>2
    <3>2. chunk'[w][1] = chunk[w][1]
      <4>1. sent[w][Frame(w)] > 0 /\ sent[w][Frame(w)] \in Nat
        BY <3>1, BoundsAssumption DEF Started
      <4>2. 1 \in DOMAIN chunk[w]
        BY BoundsAssumption DEF Slots
      <4>3. CASE TxFinalize(w)
        BY <4>1, <4>2, <4>3 DEF TxFinalize
      <4>4. CASE TxWriteIv(w)
        BY <4>1, <4>2, <4>4 DEF TxWriteIv
      <4> QED BY <2>3, <4>3, <4>4
    <3>3. /\ chunk[w][1].pt = Pt(w, Frame(w), 1)
          /\ chunk[w][1].kind = "ct"
          /\ \E a \in ignitions :
               a.w = w /\ lastSealed[w] <= a.f /\ FirstBlock(chunk[w][1], w, a)
      BY <3>1 DEF Heads, HeadOf
    <3>4. PICK a \in ignitions : a.w = w /\ lastSealed[w] <= a.f /\ FirstBlock(chunk[w][1], w, a)
      BY <3>3
    <3>5. chunk[w][1].pt = Pt(w, a.f, 1)
      BY <3>4 DEF FirstBlock, Ct
    <3>6. a.f = Frame(w) /\ a.f \in Nat
      BY <3>3, <3>5 DEF Pt, HistoryType, Ignitions
    <3> QED BY <1>0, <3>1, <3>2, <3>3, <3>4, <3>6 DEF HeadOf
  <2>4. CASE TxCopyBlock(w)
    <3>1. /\ lastSealed' = lastSealed /\ tx'[w].pc \in {"copy", "publish"}
          /\ chunk'[w][1] = chunk[w][1] \/ chunk'[w][1].kind = "raw"
      BY <2>4 DEF TxCopyBlock, history, Raw
    <3> QED BY <1>0, <3>1 DEF Heads, HeadOf
  <2> QED BY <1>2, <2>1, <2>2, <2>3, <2>4 DEF TxStep
<1>3. CASE \E w \in Writers : (\E n \in Lens : TxSerialize(w, n)) \/ TxStep(w)
  <2> PICK w \in Writers : TxStep(w) \/ \E n \in Lens : TxSerialize(w, n)
    BY <1>3
  <2>1. \A v \in Writers \ {w} : UNCHANGED <<tx[v], chunk[v], lastSealed[v], Frame(v)>>
    BY TxLeaves
  <2> QED BY <1>1, <1>2, <2>1 DEF Heads
<1>4. ASSUME \/ \E h \in Handles : Heist(h)
             \/ \E r \in Readers : RxStep(r)
             \/ Finished \/ UNCHANGED vars
      PROVE  Heads'
  <2>1. UNCHANGED <<tx, chunk, sent, lastSealed>>
    BY <1>4, HeistLeaves, RxLeaves DEF Finished, vars, shm, history
  <2> QED BY <1>1, <2>1 DEF Heads, Frame
<1> QED BY <1>3, <1>4 DEF Next

LEMMA NextTags ==
  ITypes /\ Owned /\ Started /\ Encrypted /\ Tags /\ [Next]_vars => Tags'
<1> SUFFICES ASSUME ITypes, Owned, Started, Encrypted, Tags, [Next]_vars PROVE Tags'
  OBVIOUS
<1>1. ASSUME NEW c, NEW w \in Writers, NEW f \in 1..Frame(w), TagOf(c, w, f)
      PROVE  /\ f \in 1..Frame(w)'
             /\ c.len = sent'[w][f]
             /\ \A i \in 1..c.len : c.body[i] = Ct(c.key, c.iv, i, Pt(w, f, i))
  BY <1>1, HistoryGrows DEF TagOf
<1>2. ASSUME NEW w \in Writers,
             \A s \in Slots : chunk'[w][s].kind = "mac" => chunk'[w][s] = chunk[w][s]
      PROVE  TagsIn(w)'
  <2> SUFFICES ASSUME NEW s \in Slots, chunk'[w][s].kind = "mac"
               PROVE  \E f \in 1..Frame(w)' : TagOf(chunk[w][s], w, f)'
    BY DEF TagsIn
  <2>1. PICK f \in 1..Frame(w) : TagOf(chunk[w][s], w, f)
    BY <1>2 DEF Tags, TagsIn
  <2> DEFINE c == chunk[w][s]
  <2>2. /\ f \in 1..Frame(w)'
        /\ c.len = sent'[w][f]
        /\ \A i \in 1..c.len : c.body[i] = Ct(c.key, c.iv, i, Pt(w, f, i))
    <3> HIDE DEF c
    <3> QED BY <1>1, <2>1 DEF c
  <2>3. chunk'[w][s] = c
    BY <1>2
  <2> QED BY <2>2, <2>3 DEF TagOf
<1>3. ASSUME NEW w \in Writers, TxFinalize(w)
      PROVE  TagsIn(w)'
  <2> DEFINE e == g_crypto_engine[Home[w]]
             n == sent[w][Frame(w)] + 1
  <2>1. /\ tx[w].pc = "tag" /\ Frame(w)' = Frame(w) /\ sent' = sent
        /\ \A s \in Slots : chunk'[w][s] = IF s = n THEN EngineTag(e) ELSE chunk[w][s]
    BY <1>3 DEF TxFinalize, history, Frame, ITypes, TypeOK, ShmType
  <2>2. /\ e.len = tx[w].off /\ tx[w].off = sent[w][Frame(w)]
        /\ \A i \in 1..tx[w].off : e.hash[i] = Ct(e.key, e.iv, i, Pt(w, Frame(w), i))
        /\ \E a \in ignitions : a.w = w /\ a.f = Frame(w)
    BY <2>1 DEF Encrypted, EncryptedBy, Started
  <2>3. Frame(w) \in 1..Frame(w)
    BY <2>2, HistoryGrows DEF ITypes, TypeOK, HistoryType, Ignitions
  <2>4. TagOf(EngineTag(e), w, Frame(w))
    BY <2>2 DEF TagOf, EngineTag, Mac
  <2>5. \A s \in Slots : chunk'[w][s].kind = "mac" =>
          \E f \in 1..Frame(w) : TagOf(chunk'[w][s], w, f)
    BY <2>1, <2>3, <2>4 DEF Tags, TagsIn
  <2> QED BY <2>1, <2>5 DEF TagsIn, TagOf
<1>4. ASSUME NEW w \in Writers, TxEncryptBlock(w) \/ TxWriteIv(w) \/ TxCopyBlock(w)
      PROVE  TagsIn(w)'
  <2> USE DEF ITypes, TypeOK, ShmType, TxType
  <2>1. CASE TxEncryptBlock(w) \/ TxCopyBlock(w)
    BY <1>2, <2>1 DEF TxEncryptBlock, TxCopyBlock, Ct, Raw
  <2>2. CASE TxWriteIv(w)
    <3>1. tx[w].temp_iv[2].kind = "iv"
      BY <2>2 DEF TxWriteIv, IvCells
    <3> QED BY <1>2, <2>2, <3>1 DEF TxWriteIv
  <2> QED BY <1>4, <2>1, <2>2
<1>5. CASE \E w \in Writers : (\E n \in Lens : TxSerialize(w, n)) \/ TxStep(w)
  <2> PICK w \in Writers : (\E n \in Lens : TxSerialize(w, n)) \/ TxStep(w)
    BY <1>5
  <2>1. \A v \in Writers \ {w} : chunk'[v] = chunk[v]
    BY TxLeaves
  <2>2. CASE chunk' = chunk
    BY <1>2, <2>2 DEF Tags
  <2>3. CASE TxEncryptBlock(w) \/ TxFinalize(w) \/ TxWriteIv(w) \/ TxCopyBlock(w)
    BY <1>2, <1>3, <1>4, <2>1, <2>3 DEF Tags
  <2> QED BY <2>2, <2>3 DEF TxSerialize, TxStep, TxIgnite, TxFuseInit, TxPublish, shm
<1>6. ASSUME \/ \E h \in Handles : Heist(h)
             \/ \E r \in Readers : RxStep(r)
             \/ Finished \/ UNCHANGED vars
      PROVE  Tags'
  <2>1. chunk' = chunk
    BY <1>6, HeistLeaves, RxLeaves DEF Finished, vars, shm
  <2> QED BY <1>2, <2>1 DEF Tags
<1> QED BY <1>5, <1>6 DEF Next

LEMMA NextWitnessed == ITypes /\ Started /\ Witnessed /\ [Next]_vars => Witnessed'
<1> SUFFICES ASSUME ITypes, Started, Witnessed, [Next]_vars PROVE Witnessed'
  OBVIOUS
<1>0. \A w \in Writers : /\ Frame(w) \in Nat /\ Frame(w)' \in Nat /\ Frame(w) <= Frame(w)'
                         /\ lastSealed[w] \in Nat /\ lastSealed[w] <= Frame(w)
  BY HistoryGrows, BoundsAssumption DEF ITypes, TypeOK, HistoryType, Started
<1> USE DEF ITypes, TypeOK, RxType
<1>1. ASSUME UNCHANGED <<rx, lastSealed>> PROVE Witnessed'
  BY <1>0, <1>1 DEF Witnessed, WitnessedBy
<1>2. ASSUME NEW w \in Writers, TxStep(w) \/ \E n \in Lens : TxSerialize(w, n)
      PROVE  Witnessed'
  <2>1. CASE TxWriteIv(w)
    <3>1. /\ lastSealed' = [lastSealed EXCEPT ![w] = Frame(w)] /\ Frame(w)' = Frame(w)
          /\ \A r \in Readers :
               rx'[r] = (IF rx[r].pc # "idle" /\ rx[r].w = w
                         THEN [rx[r] EXCEPT !.seen = @ \cup {Frame(w)}]
                         ELSE rx[r])
      BY <2>1 DEF TxWriteIv, Frame
    <3>2. ASSUME NEW r \in Readers PROVE WitnessedBy(r)'
      <4>0. rx[r].pc # "idle" =>
              /\ lastSealed[rx[r].w] \in rx[r].seen /\ rx[r].seen \subseteq 0..Frame(rx[r].w)
              /\ rx[r].w \in Writers
        BY DEF Witnessed, WitnessedBy
      <4>1. CASE rx[r].pc # "idle" /\ rx[r].w = w
        <5>1. /\ rx'[r].w = w /\ rx'[r].seen = rx[r].seen \cup {Frame(w)}
              /\ lastSealed'[w] = Frame(w)
          BY <3>1, <4>1 DEF HistoryType
        <5> QED BY <1>0, <3>1, <4>0, <4>1, <5>1 DEF WitnessedBy
      <4>2. CASE rx[r].pc # "idle" /\ rx[r].w # w
        <5>1. /\ rx'[r] = rx[r]
              /\ lastSealed'[rx[r].w] = lastSealed[rx[r].w] /\ sent' = sent
          BY <2>1, <3>1, <4>0, <4>2 DEF HistoryType, TxWriteIv
        <5> QED BY <4>0, <4>2, <5>1 DEF WitnessedBy, Frame
      <4>3. CASE rx[r].pc = "idle"
        BY <3>1, <4>3 DEF WitnessedBy
      <4> QED BY <4>1, <4>2, <4>3
    <3> QED BY <3>2 DEF Witnessed
  <2>2. CASE ~TxWriteIv(w)
    <3>1. rx' = rx /\ lastSealed' = lastSealed
      BY <1>2, <2>2, TxLeavesReaders DEF TxStep, TxSerialize, TxIgnite, TxFuseInit,
         TxEncryptBlock, TxFinalize, TxCopyBlock, TxPublish, history
    <3> QED BY <1>1, <3>1
  <2> QED BY <2>1, <2>2
<1>3. ASSUME NEW r \in Readers, RxStep(r) PROVE Witnessed'
  <2>1. UNCHANGED <<sent, lastSealed>> /\ \A q \in Readers \ {r} : rx'[q] = rx[q]
    BY <1>3, RxLeaves DEF history
  <2>2. WitnessedBy(r)'
    <3> USE <2>1 DEF WitnessedBy, Frame
    <3>1. CASE \E w \in Writers : RxTake(r, w)
      <4> PICK w \in Writers : RxTake(r, w)
        BY <3>1
      <4>1. rx'[r].w = w /\ rx'[r].seen = {lastSealed[w]}
        BY DEF RxTake, InitRx
      <4> QED BY <1>0, <4>1 DEF Frame
    <3>2. CASE RxIgnite(r) \/ RxFuseInit(r)
      <4>1. rx[r].pc # "idle" /\ rx'[r].w = rx[r].w /\ rx'[r].seen = rx[r].seen
        BY <3>2 DEF RxIgnite, RxFuseInit
      <4> QED BY <4>1 DEF Witnessed
    <3>3. CASE RxDecryptBlock(r) \/ RxVerify(r)
      <4>1. rx[r].pc # "idle" /\ rx'[r].w = rx[r].w /\ rx'[r].seen = rx[r].seen
        BY <3>3 DEF RxDecryptBlock, RxVerify
      <4> QED BY <4>1 DEF Witnessed
    <3>4. CASE RxReturn(r)
      BY <3>4 DEF RxReturn, InitRx
    <3> QED BY <1>3, <3>1, <3>2, <3>3, <3>4 DEF RxStep
  <2> QED BY <2>1, <2>2 DEF Witnessed, WitnessedBy, Frame
<1>4. ASSUME \/ \E h \in Handles : Heist(h)
             \/ Finished \/ UNCHANGED vars
      PROVE  Witnessed'
  BY <1>1, <1>4, HeistLeaves DEF Finished, vars, history
<1> QED BY <1>2, <1>3, <1>4 DEF Next

\* The first block under a reader's IV is that of the last sealed sample.
LEMMA FirstBlockCurrent ==
  ASSUME ITypes, Started, Settled, Heads, Witnessed,
         NEW r \in Readers, rx[r].pc = "crypt", NEW key, NEW f \in 1..MaxFrames,
         chunk[rx[r].w][1] = Ct(key, rx[r].temp_iv, 1, Pt(rx[r].w, f, 1))
  PROVE  f \in rx[r].seen
<1> DEFINE w == rx[r].w
<1>1. w \in Writers /\ chunk[w][1].kind = "ct"
  BY DEF ITypes, TypeOK, RxType, Ct
<1>2. PICK a \in ignitions : a.w = w /\ lastSealed[w] <= a.f /\ FirstBlock(chunk[w][1], w, a)
  BY <1>1 DEF Heads, HeadOf
<1>3. a.iv = rx[r].temp_iv /\ a.f = f
  <2>1. Ct(key, rx[r].temp_iv, 1, Pt(w, f, 1)) = Ct(a.key, a.iv, 1, Pt(w, a.f, 1))
    BY <1>2 DEF FirstBlock
  <2>2. rx[r].temp_iv = a.iv /\ Pt(w, f, 1) = Pt(w, a.f, 1)
    BY <2>1 DEF Ct
  <2> QED BY <2>2 DEF Pt
<1>4. a.iv[2].kind = "iv"
  BY DEF ITypes, TypeOK, HistoryType, Ignitions, IvCells
<1>5. a.f <= lastSealed[w]
  BY <1>1, <1>2, <1>3, <1>4 DEF Settled, ReaderSettled, SettledIvs
<1>6. f = lastSealed[w]
  <2>1. lastSealed[w] \in Nat
    BY <1>1, BoundsAssumption DEF ITypes, TypeOK, HistoryType
  <2> HIDE DEF w
  <2> QED BY <1>2, <1>3, <1>5, <2>1
<1> QED BY <1>6 DEF Witnessed, WitnessedBy

\* What deciphering a block does to its reader.
LEMMA DecryptStep ==
  ASSUME Owned, RxType, NEW r \in Readers, RxDecryptBlock(r)
  PROVE  LET e == g_crypto_engine[Home[r]]
             c == chunk[rx[r].w][rx[r].off + 1]
         IN  /\ rx[r].pc = "crypt" /\ rx'[r].pc \in {"crypt", "verify"}
             /\ rx'[r].w = rx[r].w /\ rx'[r].off = rx[r].off + 1
             /\ rx'[r].temp_iv = rx[r].temp_iv /\ rx'[r].seen = rx[r].seen
             /\ rx'[r].dest = Append(rx[r].dest, Decrypt(e.key, e.iv, e.ctr, c))
<1> DEFINE e == g_crypto_engine[Home[r]]
           c == chunk[rx[r].w][rx[r].off + 1]
           pc == IF rx[r].off + 1 < rx[r].len THEN rx[r].pc
                 ELSE IF rx[r].pc = "crypt" THEN "verify" ELSE "return"
<1>1. rx[r].pc = "crypt"
  BY DEF RxDecryptBlock, Owned
<1>2. rx' = [rx EXCEPT ![r].off = rx[r].off + 1,
                       ![r].dest = Append(rx[r].dest, Decrypt(e.key, e.iv, e.ctr, c)),
                       ![r].pc = pc]
  BY DEF RxDecryptBlock
<1>3. pc \in {"crypt", "verify"}
  BY <1>1
<1> HIDE DEF e, c, pc
<1>4. /\ rx'[r].pc = pc /\ rx'[r].w = rx[r].w /\ rx'[r].off = rx[r].off + 1
      /\ rx'[r].temp_iv = rx[r].temp_iv /\ rx'[r].seen = rx[r].seen
      /\ rx'[r].dest = Append(rx[r].dest, Decrypt(e.key, e.iv, e.ctr, c))
  BY <1>2 DEF RxType
<1> QED BY <1>1, <1>3, <1>4 DEF e, c

LEMMA NextDecrypted ==
  Solo /\ ITypes /\ Owned /\ Started /\ Settled /\ Heads /\ Witnessed /\ Decrypted /\ [Next]_vars
    => Decrypted'
<1> SUFFICES ASSUME Solo, ITypes, Owned, Started, Settled, Heads, Witnessed, Decrypted, [Next]_vars
             PROVE  Decrypted'
  OBVIOUS
<1>0. \A r \in Readers : Home[r] \in Procs
  BY SoloHomes DEF Threads
<1>1. ASSUME NEW r \in Readers,
             rx'[r].pc = rx[r].pc, rx'[r].w = rx[r].w, rx'[r].off = rx[r].off,
             rx'[r].temp_iv = rx[r].temp_iv, rx'[r].dest = rx[r].dest,
             rx[r].seen \subseteq rx'[r].seen,
             g_crypto_engine'[Home[r]] = g_crypto_engine[Home[r]]
      PROVE  DecryptedBy(r)'
  BY <1>1 DEF Decrypted, DecryptedBy
<1>2. ASSUME NEW r \in Readers, RxStep(r) PROVE DecryptedBy(r)'
  <2> USE DEF ITypes, TypeOK, RxType
  <2> DEFINE e == g_crypto_engine[Home[r]]
  <2>1. CASE \/ \E w \in Writers : RxTake(r, w)
            \/ RxIgnite(r) \/ RxVerify(r) \/ RxReturn(r)
    <3>1. rx'[r].pc \in {"idle", "test", "init", "join", "return"}
      <4>1. CASE \E w \in Writers : RxTake(r, w)
        BY <4>1 DEF RxTake, InitRx
      <4>2. CASE RxIgnite(r)
        BY <4>2 DEF RxIgnite
      <4>3. CASE RxVerify(r) \/ RxReturn(r)
        BY <4>3 DEF RxVerify, RxReturn, InitRx
      <4> QED BY <2>1, <4>1, <4>2, <4>3
    <3> QED BY <3>1 DEF DecryptedBy
  <2>2. CASE RxFuseInit(r)
    <3>1. /\ rx'[r].pc = "crypt" /\ rx'[r].off = 0 /\ rx'[r].temp_iv = rx[r].temp_iv
          /\ rx'[r].dest = << >>
      BY <2>2 DEF RxFuseInit, Started
    <3>2. LET d == g_crypto_engine'[Home[r]] IN
          d.iv = rx[r].temp_iv /\ d.ctr = 1 /\ d.hash = << >> /\ d.len = 0
      BY <1>0, <2>2 DEF RxFuseInit, FuseInit, EngineInit, EngineType
    <3> QED BY <3>1, <3>2 DEF DecryptedBy
  <2>3. CASE RxDecryptBlock(r)
    <3> DEFINE c == chunk[rx[r].w][rx[r].off + 1]
               b == Decrypt(e.key, e.iv, e.ctr, c)
    <3>1. /\ rx[r].pc = "crypt" /\ rx'[r].pc \in {"crypt", "verify"}
          /\ rx'[r].w = rx[r].w /\ rx'[r].off = rx[r].off + 1
          /\ rx'[r].temp_iv = rx[r].temp_iv /\ rx'[r].seen = rx[r].seen
          /\ rx'[r].dest = Append(rx[r].dest, b)
          /\ rx[r].off \in Nat /\ IsSeq(rx[r].dest)
      <4>1. rx[r].off \in Nat /\ IsSeq(rx[r].dest)
        BY BoundsAssumption
      <4> QED BY <2>3, <4>1, DecryptStep
    <3>2. /\ IsSeq(e.hash)
          /\ LET d == g_crypto_engine'[Home[r]] IN
             /\ d.key = e.key /\ d.iv = e.iv /\ d.ctr = e.ctr + 1 /\ d.len = e.len + 1
             /\ d.hash = Append(e.hash, c)
      BY <1>0, <2>3 DEF RxDecryptBlock, Absorb, EngineType
    <3>3. /\ e.iv = rx[r].temp_iv /\ e.ctr = rx[r].off + 1 /\ e.len = rx[r].off
          /\ Len(e.hash) = rx[r].off /\ Len(rx[r].dest) = rx[r].off
          /\ \A i \in 1..rx[r].off : rx[r].dest[i] = Decrypt(e.key, e.iv, i, e.hash[i])
          /\ rx[r].off > 0 => \A f \in 1..MaxFrames :
               e.hash[1] = Ct(e.key, e.iv, 1, Pt(rx[r].w, f, 1)) => f \in rx[r].seen
      BY <3>1 DEF Decrypted, DecryptedBy
    <3>4. rx[r].off = 0 => \A f \in 1..MaxFrames :
            c = Ct(e.key, e.iv, 1, Pt(rx[r].w, f, 1)) => f \in rx[r].seen
      <4>1. ASSUME rx[r].off = 0, NEW f \in 1..MaxFrames,
                   c = Ct(e.key, e.iv, 1, Pt(rx[r].w, f, 1))
            PROVE  f \in rx[r].seen
        <5>1. chunk[rx[r].w][1] = Ct(e.key, rx[r].temp_iv, 1, Pt(rx[r].w, f, 1))
          BY <3>3, <4>1
        <5>2. rx[r].pc = "crypt"
          BY <3>1
        <5> HIDE DEF e, c, b
        <5> QED BY <5>1, <5>2, FirstBlockCurrent
      <4> QED BY <4>1
    <3> HIDE DEF e, c, b
    <3>5. /\ Len(Append(e.hash, c)) = rx[r].off + 1
          /\ \A i \in 1..rx[r].off : Append(e.hash, c)[i] = e.hash[i]
          /\ Append(e.hash, c)[rx[r].off + 1] = c
      BY <3>2, <3>3, AppendToSeq
    <3>6. /\ Len(Append(rx[r].dest, b)) = rx[r].off + 1
          /\ \A i \in 1..rx[r].off : Append(rx[r].dest, b)[i] = rx[r].dest[i]
          /\ Append(rx[r].dest, b)[rx[r].off + 1] = b
      BY <3>1, <3>3, AppendToSeq
    <3>7. b = Decrypt(e.key, e.iv, rx[r].off + 1, c)
      BY <3>3 DEF b
    <3>8. \A i \in 1..(rx[r].off + 1) :
            Append(rx[r].dest, b)[i] = Decrypt(e.key, e.iv, i, Append(e.hash, c)[i])
      BY <3>1, <3>3, <3>5, <3>6, <3>7
    <3>9. \A f \in 1..MaxFrames :
            Append(e.hash, c)[1] = Ct(e.key, e.iv, 1, Pt(rx[r].w, f, 1)) => f \in rx[r].seen
      <4>1. CASE rx[r].off = 0
        BY <3>4, <3>5, <4>1
      <4>2. CASE rx[r].off > 0
        BY <3>1, <3>3, <3>5, <4>2
      <4> QED BY <3>1, <4>1, <4>2
    <3> QED BY <3>1, <3>2, <3>3, <3>5, <3>6, <3>8, <3>9 DEF DecryptedBy, e
  <2> QED BY <1>2, <2>1, <2>2, <2>3 DEF RxStep
<1>3. ASSUME NEW r \in Readers, RxStep(r) PROVE Decrypted'
  <2>1. \A q \in Readers \ {r} :
          rx'[q] = rx[q] /\ g_crypto_engine'[Home[q]] = g_crypto_engine[Home[q]]
    BY <1>3, RxLeaves, SoloHomes DEF Threads
  <2>2. \A q \in Readers \ {r} : DecryptedBy(q)'
    BY <1>1, <2>1
  <2> QED BY <1>2, <1>3, <2>2 DEF Decrypted
<1>4. ASSUME NEW w \in Writers, TxStep(w) \/ \E n \in Lens : TxSerialize(w, n)
      PROVE  Decrypted'
  <2>1. \A r \in Readers : g_crypto_engine'[Home[r]] = g_crypto_engine[Home[r]]
    BY <1>4, TxLeaves, SoloHomes DEF Threads
  <2>2. \A r \in Readers :
          /\ rx'[r].pc = rx[r].pc /\ rx'[r].w = rx[r].w /\ rx'[r].off = rx[r].off
          /\ rx'[r].temp_iv = rx[r].temp_iv /\ rx'[r].dest = rx[r].dest
          /\ rx[r].seen \subseteq rx'[r].seen
    BY <1>4, TxLeavesReaders
  <2> QED BY <1>1, <2>1, <2>2 DEF Decrypted
<1>5. ASSUME \/ \E h \in Handles : Heist(h)
             \/ Finished \/ UNCHANGED vars
      PROVE  Decrypted'
  <2>1. rx' = rx /\ g_crypto_engine' = g_crypto_engine
    BY <1>5, HeistLeaves DEF Finished, vars, globals
  <2> QED BY <1>1, <2>1 DEF Decrypted
<1> QED BY <1>3, <1>4, <1>5 DEF Next

\* A tag that verifies is the tag of one sample, read whole and current.
LEMMA VerifiedCurrent ==
  ASSUME ITypes, Started, Tags, Decrypted, Witnessed,
         NEW r \in Readers, rx[r].pc = "verify",
         chunk[rx[r].w][rx[r].len + 1] = EngineTag(g_crypto_engine[Home[r]])
  PROVE  \E f \in rx[r].seen : f > 0 /\ rx[r].dest = Payload(rx[r].w, f)
<1> DEFINE e == g_crypto_engine[Home[r]]
           w == rx[r].w
           c == chunk[w][rx[r].len + 1]
<1>1. /\ rx[r].off = rx[r].len /\ rx[r].off > 0 /\ rx[r].off \in Nat
      /\ w \in Writers /\ rx[r].len + 1 \in Slots /\ IsSeq(rx[r].dest)
  BY BoundsAssumption DEF Started, ITypes, TypeOK, RxType, Slots
<1>2. /\ c.kind = "mac" /\ c.key = e.key /\ c.iv = e.iv /\ c.len = e.len /\ c.body = e.hash
  BY DEF EngineTag, Mac
<1>3. PICK f \in 1..Frame(w) : TagOf(c, w, f)
  BY <1>1, <1>2 DEF Tags, TagsIn
<1>4. /\ e.len = rx[r].off
      /\ Len(rx[r].dest) = rx[r].off
      /\ \A i \in 1..rx[r].off : rx[r].dest[i] = Decrypt(e.key, e.iv, i, e.hash[i])
      /\ \A g \in 1..MaxFrames :
           e.hash[1] = Ct(e.key, e.iv, 1, Pt(w, g, 1)) => g \in rx[r].seen
  BY <1>1 DEF Decrypted, DecryptedBy
<1>5. f \in 1..MaxFrames /\ f > 0
  <2>1. Frame(w) \in Nat /\ Frame(w) <= MaxFrames
    BY <1>1, SampleType DEF ITypes, TypeOK, HistoryType
  <2> HIDE DEF w
  <2> QED BY <2>1, BoundsAssumption
<1> HIDE DEF e, w, c
<1>6. /\ sent[w][f] = rx[r].off
      /\ \A i \in 1..rx[r].off : e.hash[i] = Ct(e.key, e.iv, i, Pt(w, f, i))
  BY <1>2, <1>3, <1>4 DEF TagOf
<1>7. f \in rx[r].seen
  BY <1>1, <1>4, <1>5, <1>6
<1>8. \A i \in 1..rx[r].off : rx[r].dest[i] = Pt(w, f, i)
  <2>1. ASSUME NEW i \in 1..rx[r].off
        PROVE  Decrypt(e.key, e.iv, i, Ct(e.key, e.iv, i, Pt(w, f, i))) = Pt(w, f, i)
    <3> HIDE DEF Pt
    <3> QED BY DEF Decrypt, Ct
  <2> QED BY <1>4, <1>6, <2>1
<1>9. rx[r].dest = [i \in 1..rx[r].off |-> rx[r].dest[i]]
  <2>1. rx[r].dest \in Seq({rx[r].dest[i] : i \in DOMAIN rx[r].dest})
    BY <1>1 DEF IsSeq
  <2> QED BY <1>4, <2>1, SeqDef, LenProperties
<1>10. rx[r].dest = Payload(w, f)
  BY <1>6, <1>8, <1>9 DEF Payload
<1> QED BY <1>5, <1>7, <1>10 DEF w

LEMMA NextDelivered ==
  ITypes /\ Owned /\ Started /\ Tags /\ Decrypted /\ Witnessed /\ DeliveredCurrent /\ [Next]_vars
    => DeliveredCurrent'
<1> SUFFICES ASSUME ITypes, Owned, Started, Tags, Decrypted, Witnessed, DeliveredCurrent, [Next]_vars
             PROVE  \A r \in Readers : DeliveredTo(r)'
  BY DEF DeliveredCurrent, DeliveredTo
<1>0. \A w \in Writers : /\ Frame(w) \in Nat
                         /\ \A f \in 1..Frame(w) : sent'[w][f] = sent[w][f]
  BY HistoryGrows
<1>1. ASSUME NEW r \in Readers, rx[r].pc # "idle",
             NEW f \in rx[r].seen, f > 0
      PROVE  Payload(rx[r].w, f) = [i \in 1..sent'[rx[r].w][f] |-> Pt(rx[r].w, f, i)]
  <2>1. rx[r].w \in Writers
    BY <1>1 DEF ITypes, TypeOK, RxType
  <2>2. f \in 0..Frame(rx[r].w)
    BY <1>1 DEF Witnessed, WitnessedBy
  <2>3. sent'[rx[r].w][f] = sent[rx[r].w][f]
    BY <1>0, <1>1, <2>1, <2>2
  <2> QED BY <2>3 DEF Payload
<1>2. ASSUME NEW r \in Readers,
             rx'[r].pc = rx[r].pc, rx'[r].w = rx[r].w, rx'[r].len = rx[r].len,
             rx'[r].dest = rx[r].dest, rx[r].seen \subseteq rx'[r].seen
      PROVE  DeliveredTo(r)'
  <2> SUFFICES ASSUME rx'[r].pc = "return", rx'[r].dest # Zeros(rx'[r].len)
               PROVE  \E f \in rx'[r].seen :
                        f > 0 /\ rx'[r].dest = [i \in 1..sent'[rx[r].w][f] |-> Pt(rx[r].w, f, i)]
    BY <1>2 DEF DeliveredTo, Payload, Zeros
  <2>1. PICK f \in rx[r].seen : f > 0 /\ rx[r].dest = Payload(rx[r].w, f)
    BY <1>2 DEF DeliveredCurrent
  <2> QED BY <1>1, <1>2, <2>1
<1>3. ASSUME NEW r \in Readers, RxStep(r) PROVE DeliveredTo(r)'
  <2> USE DEF ITypes, TypeOK, RxType
  <2>1. CASE \E w \in Writers : RxTake(r, w)
    <3> PICK w \in Writers : RxTake(r, w)
      BY <2>1
    <3>1. /\ rx'[r].pc = (IF size[w] > 0 THEN "test" ELSE "return")
          /\ rx'[r].len = size[w] /\ rx'[r].dest = << >>
      BY DEF RxTake, InitRx
    <3>2. rx'[r].pc = "return" => rx'[r].len = 0
      BY <3>1, BoundsAssumption DEF ShmType
    <3>3. Zeros(0) = << >>
      BY DEF Zeros
    <3> QED BY <3>1, <3>2, <3>3 DEF DeliveredTo, Zeros
  <2>2. CASE RxIgnite(r)
    <3>1. rx'[r].pc = "return" => rx'[r].dest = Zeros(rx'[r].len)
      BY <2>2 DEF RxIgnite, Zeros
    <3> QED BY <3>1 DEF DeliveredTo, Zeros
  <2>3. CASE RxFuseInit(r) \/ RxDecryptBlock(r)
    <3>1. rx'[r].pc # "return"
      BY <2>3 DEF RxFuseInit, RxDecryptBlock, Owned
    <3> QED BY <3>1 DEF DeliveredTo
  <2>4. CASE RxVerify(r)
    <3>1. /\ rx[r].pc = "verify" /\ rx'[r].w = rx[r].w /\ rx'[r].len = rx[r].len
          /\ rx'[r].seen = rx[r].seen /\ sent' = sent
          /\ rx'[r].dest = IF chunk[rx[r].w][rx[r].len + 1] = EngineTag(g_crypto_engine[Home[r]])
                           THEN rx[r].dest ELSE Zeros(rx[r].len)
      BY <2>4 DEF RxVerify, history
    <3>2. CASE chunk[rx[r].w][rx[r].len + 1] = EngineTag(g_crypto_engine[Home[r]])
      BY <3>1, <3>2, VerifiedCurrent DEF DeliveredTo, Payload
    <3>3. CASE chunk[rx[r].w][rx[r].len + 1] # EngineTag(g_crypto_engine[Home[r]])
      BY <3>1, <3>3 DEF DeliveredTo, Zeros
    <3> QED BY <3>2, <3>3
  <2>5. CASE RxReturn(r)
    BY <2>5 DEF RxReturn, InitRx, DeliveredTo
  <2> QED BY <1>3, <2>1, <2>2, <2>3, <2>4, <2>5 DEF RxStep
<1>4. CASE \E r \in Readers : RxStep(r)
  <2> PICK r \in Readers : RxStep(r)
    BY <1>4
  <2>1. \A q \in Readers \ {r} : rx'[q] = rx[q]
    BY RxLeaves
  <2>2. \A q \in Readers \ {r} : DeliveredTo(q)'
    BY <1>2, <2>1
  <2> QED BY <1>3, <2>2
<1>5. CASE \E w \in Writers : TxStep(w) \/ \E n \in Lens : TxSerialize(w, n)
  BY <1>2, <1>5, TxLeavesReaders
<1>6. CASE \/ \E h \in Handles : Heist(h)
          \/ Finished \/ UNCHANGED vars
  <2>1. rx' = rx
    BY <1>6, HeistLeaves DEF Finished, vars
  <2> QED BY <1>2, <2>1
<1> QED BY <1>4, <1>5, <1>6 DEF Next

-----------------------------------------------------------------------------

LEMMA NextDelivery == Solo /\ ITypes /\ INonces /\ IDelivery /\ [Next]_vars => IDelivery'
BY NextOwned, NextStarted, NextEncrypted, NextSettled, NextHeads, NextTags, NextDecrypted,
   NextWitnessed, NextDelivered DEF IDelivery

\* One data thread per process: every sample an application gets was sealed by the
\* writer it is read from, whole, and was the last sealed one at some instant of
\* the read, or it is zeros; whatever is stashed, and however the writer overtakes
\* the reader in the chunk they share.
THEOREM Delivery == Solo => (Spec => []DeliveredCurrent)
<1> SUFFICES ASSUME Solo PROVE Spec => []DeliveredCurrent
  OBVIOUS
<1>1. Init => IDelivery
  BY InitDelivery
<1>2. ITypes /\ INonces /\ IDelivery /\ [Next]_vars => IDelivery'
  BY NextDelivery
<1>3. IDelivery => DeliveredCurrent
  BY DEF IDelivery
<1> QED BY <1>1, <1>2, <1>3, TypesInvariant, NoncesInvariant, PTL DEF Spec

-----------------------------------------------------------------------------
(***************************************************************************)
(* The data-sharing system implements SecureChannel, for any number of     *)
(* processes, handles, stash calls, samples and blocks, when each process  *)
(* has one data thread: step by step, under the mapping of Abs.  When a    *)
(* process is also only given one protected handle's material, a sample    *)
(* begun armed rests in its chunk sealed under that handle's material.     *)
(***************************************************************************)

\* The abstract variables, as the refinement mapping computes them.
Content == [w \in Writers |-> [f \in 1..Frame(w) |-> Payload(w, f)]]
ReadingFrom == [r \in Readers |-> IF Reading(r) THEN rx[r].w ELSE Nil]
Window == [r \in Readers |-> IF Reading(r) THEN rx[r].seen ELSE {}]
AllSamples ==
  {[i \in 1..n |-> Pt(w, f, i)] : n \in 0..MaxLen, w \in Writers, f \in 1..MaxFrames}
Got == [r \in Readers |-> IF rx[r].pc = "return" THEN rx[r].dest ELSE << >>]

\* A sample under way has not been sealed.
Unsealed ==
  \A w \in Writers : tx[w].pc \notin {"idle", "publish"} => lastSealed[w] < Frame(w)

LEMMA NextUnsealed == ITypes /\ Started /\ Unsealed /\ [Next]_vars => Unsealed'
<1> SUFFICES ASSUME ITypes, Started, Unsealed, [Next]_vars PROVE Unsealed'
  OBVIOUS
<1>0. \A w \in Writers : /\ Frame(w) \in Nat /\ lastSealed[w] \in Nat
                         /\ lastSealed[w] <= Frame(w)
  BY SampleType, BoundsAssumption DEF Started, ITypes, TypeOK, HistoryType
<1>1. ASSUME NEW w \in Writers, TxStep(w) \/ \E n \in Lens : TxSerialize(w, n)
      PROVE  Unsealed'
  <2>1. \A v \in Writers \ {w} : /\ tx'[v] = tx[v] /\ lastSealed'[v] = lastSealed[v]
                                 /\ Frame(v)' = Frame(v)
    BY <1>1, TxLeaves
  <2>2. CASE \E n \in Lens : TxSerialize(w, n)
    <3> PICK n \in Lens : TxSerialize(w, n)
      BY <2>2
    <3>1. Frame(w)' = Frame(w) + 1
      <4>1. Len(Append(sent[w], n)) = Len(sent[w]) + 1
        BY BoundsAssumption, AppendProperties DEF ITypes, TypeOK, HistoryType
      <4> QED BY <4>1 DEF TxSerialize, Frame, ITypes, TypeOK, HistoryType
    <3>2. lastSealed' = lastSealed
      BY DEF TxSerialize
    <3> QED BY <1>0, <2>1, <3>1, <3>2 DEF Unsealed
  <2>3. CASE TxWriteIv(w)
    <3>1. tx'[w].pc = "publish"
      BY <2>3 DEF TxWriteIv, ITypes, TypeOK, TxType
    <3> QED BY <2>1, <3>1 DEF Unsealed
  <2>4. CASE TxPublish(w)
    <3>1. tx'[w].pc = "idle"
      BY <2>4 DEF TxPublish, InitTx, ITypes, TypeOK, TxType
    <3> QED BY <2>1, <3>1 DEF Unsealed
  <2>5. CASE TxIgnite(w) \/ TxFuseInit(w) \/ TxEncryptBlock(w) \/ TxFinalize(w) \/ TxCopyBlock(w)
    <3>1. /\ tx[w].pc \notin {"idle", "publish"} /\ UNCHANGED <<sent, lastSealed>>
      BY <2>5 DEF TxIgnite, TxFuseInit, TxEncryptBlock, TxFinalize, TxCopyBlock, history
    <3> QED BY <2>1, <3>1 DEF Unsealed, Frame
  <2> QED BY <1>1, <2>2, <2>3, <2>4, <2>5 DEF TxStep
<1>2. CASE \/ \E h \in Handles : Heist(h)
           \/ \E r \in Readers : RxStep(r)
           \/ Finished \/ UNCHANGED vars
  <2>1. UNCHANGED <<tx, sent, lastSealed>>
    BY <1>2, HeistLeaves, RxLeaves DEF Finished, vars, history
  <2> QED BY <2>1 DEF Unsealed, Frame
<1> QED BY <1>1, <1>2 DEF Next

-----------------------------------------------------------------------------
(* The mapped variables.                                                   *)

LEMMA ContentKept == ASSUME sent' = sent PROVE Content' = Content
BY DEF Content, Frame, Payload

LEMMA ContentSizes ==
  ASSUME ITypes, NEW w \in Writers
  PROVE  /\ Len(Content[w]) = Frame(w) /\ Frame(w) \in Nat
         /\ \A f \in 1..Frame(w) : Content[w][f] = Payload(w, f)
<1>1. Frame(w) \in Nat
  BY SampleType DEF ITypes, TypeOK
<1> QED BY <1>1 DEF Content

\* Two readers' worth of mapped variables are equal when the threads are.
LEMMA ReadersKept ==
  ASSUME rx' = rx
  PROVE  ReadingFrom' = ReadingFrom /\ Window' = Window /\ Got' = Got
BY DEF ReadingFrom, Window, Got, Reading

\* The register's actions, in terms of the mapped variables.
LEMMA MappedBegin ==
  \A w \in Writers : Abs!Begin(w) <=>
    /\ \E d \in AllSamples : Content' = [Content EXCEPT ![w] = Append(Content[w], d)]
    /\ UNCHANGED <<lastSealed, ReadingFrom, Window, Got>>
BY DEF Abs!Begin, AllSamples, Content, ReadingFrom, Window, Got

LEMMA MappedSeal ==
  ASSUME NEW w \in Writers, lastSealed[w] < Len(Content[w]),
         lastSealed' = [lastSealed EXCEPT ![w] = Len(Content[w])],
         Window' = [r \in Readers |-> IF ReadingFrom[r] = w THEN Window[r] \cup {Len(Content[w])}
                                      ELSE Window[r]],
         UNCHANGED <<Content, ReadingFrom, Got>>
  PROVE  Abs!Seal(w)
BY DEF Abs!Seal, Content, ReadingFrom, Window, Got

LEMMA MappedStart ==
  ASSUME NEW r \in Readers, NEW w \in Writers, ReadingFrom[r] = Nil,
         ReadingFrom' = [ReadingFrom EXCEPT ![r] = w],
         Window' = [Window EXCEPT ![r] = {lastSealed[w]}],
         UNCHANGED <<Content, lastSealed, Got>>
  PROVE  Abs!StartRead(r, w)
BY DEF Abs!StartRead, Content, ReadingFrom, Window, Got

LEMMA MappedEnd ==
  ASSUME NEW r \in Readers, ReadingFrom[r] # Nil,
         NEW d \in {[i \in 1..n |-> Zero] : n \in 0..MaxLen}
                     \cup {Content[ReadingFrom[r]][f] : f \in Window[r] \ {0}},
         Got' = [Got EXCEPT ![r] = d],
         ReadingFrom' = [ReadingFrom EXCEPT ![r] = Nil],
         Window' = [Window EXCEPT ![r] = {}],
         UNCHANGED <<Content, lastSealed>>
  PROVE  Abs!EndRead(r)
BY DEF Abs!EndRead, Abs!Returnable, Content, ReadingFrom, Window, Got

LEMMA MappedForget ==
  ASSUME NEW r \in Readers, Got' = [Got EXCEPT ![r] = << >>],
         UNCHANGED <<Content, lastSealed, ReadingFrom, Window>>
  PROVE  Abs!Forget(r)
BY DEF Abs!Forget, Content, ReadingFrom, Window, Got

LEMMA MappedStutter ==
  ASSUME UNCHANGED <<Content, lastSealed, ReadingFrom, Window, Got>>
  PROVE  UNCHANGED Abs!cvars
BY DEF Abs!cvars, Content, ReadingFrom, Window, Got

-----------------------------------------------------------------------------
(* Every step is a step of the register, or leaves it alone.               *)

LEMMA WriteBegins ==
  ASSUME ITypes, NEW w \in Writers, NEW n \in Lens, TxSerialize(w, n)
  PROVE  Abs!Begin(w)
<1>1. /\ Frame(w) \in Nat /\ Frame(w) < MaxFrames /\ MaxFrames \in Nat /\ n \in 0..MaxLen
      /\ sent[w] \in Seq(0..MaxLen) /\ DOMAIN sent = Writers
      /\ sent' = [sent EXCEPT ![w] = Append(sent[w], n)]
  BY SampleType, BoundsAssumption DEF TxSerialize, ITypes, TypeOK, HistoryType
<1> PICK k : k = Frame(w) + 1
  OBVIOUS
<1> PICK d : d = [i \in 1..n |-> Pt(w, k, i)]
  OBVIOUS
<1>2. /\ Frame(w)' = k /\ sent'[w][k] = n
      /\ \A f \in 1..Frame(w) : sent'[w][f] = sent[w][f]
  BY <1>1, AppendProperties DEF Frame
<1>3. \A v \in Writers \ {w} : Frame(v)' = Frame(v) /\ sent'[v] = sent[v]
  BY <1>1 DEF Frame
<1>4. d \in AllSamples
  <2>1. k \in 1..MaxFrames
    BY <1>1
  <2> QED BY <1>1, <2>1 DEF AllSamples
<1>5. Append(Content[w], d) = Content'[w]
  <2> DEFINE S == {Payload(w, f) : f \in 1..Frame(w)} \cup {d}
  <2>1. Content[w] \in Seq(S) /\ Len(Content[w]) = Frame(w) /\ d \in S
    <3>1. Content[w] = [f \in 1..Frame(w) |-> Payload(w, f)]
      BY DEF Content
    <3>2. \A f \in 1..Frame(w) : Payload(w, f) \in S
      OBVIOUS
    <3> HIDE DEF S
    <3>3. Content[w] \in [1..Frame(w) -> S]
      BY <3>1, <3>2
    <3> QED BY <1>1, <3>3, SegmentIsSeq DEF S
  <2> HIDE DEF S
  <2>2. /\ DOMAIN Append(Content[w], d) = 1..k
        /\ \A f \in 1..Frame(w) : Append(Content[w], d)[f] = Content[w][f]
        /\ Append(Content[w], d)[k] = d
        /\ Append(Content[w], d) \in Seq(S)
    BY <1>1, <2>1, AppendProperties
  <2>3. Content'[w] = [f \in 1..k |-> Payload(w, f)']
    BY <1>2 DEF Content
  <2>4. \A f \in 1..Frame(w) : Payload(w, f)' = Payload(w, f) /\ Content[w][f] = Payload(w, f)
    BY <1>2 DEF Payload, Content
  <2>5. Payload(w, k)' = d
    BY <1>2 DEF Payload
  <2>6. Append(Content[w], d) = [f \in 1..k |-> Append(Content[w], d)[f]]
    <3> PICK a : a = Append(Content[w], d)
      OBVIOUS
    <3>1. a \in Seq(S) /\ Len(a) = k
      BY <1>1, <2>1, AppendProperties
    <3>2. a = [f \in 1..k |-> a[f]]
      BY <2>2, <3>1, SeqDef, LenProperties
    <3> QED BY <3>2
  <2>7. \A f \in 1..k : Append(Content[w], d)[f] = Payload(w, f)'
    BY <1>1, <2>2, <2>4, <2>5
  <2> QED BY <2>3, <2>6, <2>7
<1>6. \A v \in Writers \ {w} : Content'[v] = Content[v]
  BY <1>3 DEF Content, Payload
<1>7. Content' = [Content EXCEPT ![w] = Append(Content[w], d)]
  <2>1. DOMAIN Content' = Writers /\ DOMAIN Content = Writers
    BY DEF Content
  <2>2. Content' = [v \in Writers |-> Content'[v]]
    BY DEF Content
  <2> QED BY <1>5, <1>6, <2>1, <2>2
<1>8. UNCHANGED <<lastSealed, ReadingFrom, Window, Got>>
  BY ReadersKept DEF TxSerialize
<1> QED BY <1>4, <1>7, <1>8, MappedBegin

LEMMA TailSeals ==
  ASSUME ITypes, Unsealed, NEW w \in Writers, TxWriteIv(w)
  PROVE  Abs!Seal(w)
<1>1. Len(Content[w]) = Frame(w)
  BY ContentSizes
<1>2. /\ lastSealed[w] < Frame(w) /\ lastSealed' = [lastSealed EXCEPT ![w] = Frame(w)]
      /\ sent' = sent
      /\ rx' = [r \in Readers |-> IF rx[r].pc # "idle" /\ rx[r].w = w
                                  THEN [rx[r] EXCEPT !.seen = rx[r].seen \cup {Frame(w)}]
                                  ELSE rx[r]]
  BY DEF TxWriteIv, Unsealed
<1>3. ASSUME NEW r \in Readers
      PROVE  /\ rx'[r].pc = rx[r].pc /\ rx'[r].w = rx[r].w /\ rx'[r].dest = rx[r].dest
             /\ rx'[r].seen = IF rx[r].pc # "idle" /\ rx[r].w = w
                              THEN rx[r].seen \cup {Frame(w)} ELSE rx[r].seen
  BY <1>2 DEF ITypes, TypeOK, RxType
<1>4. ReadingFrom' = ReadingFrom /\ Got' = Got
  BY <1>3 DEF ReadingFrom, Got, Reading
<1>5. \A r \in Readers : Window'[r] = IF ReadingFrom[r] = w THEN Window[r] \cup {Frame(w)}
                                      ELSE Window[r]
  BY <1>3, ThreadsAssumption DEF ReadingFrom, Window, Reading
<1>6. Window' = [r \in Readers |-> IF ReadingFrom[r] = w THEN Window[r] \cup {Len(Content[w])}
                                   ELSE Window[r]]
  <2>1. Window' = [r \in Readers |-> Window'[r]]
    BY DEF Window
  <2> QED BY <1>1, <1>5, <2>1
<1>7. Content' = Content
  BY <1>2, ContentKept
<1> QED BY <1>1, <1>2, <1>4, <1>6, <1>7, MappedSeal

\* A step of one reader's thread, on the mapped variables.
LEMMA OneReader ==
  ASSUME ITypes, NEW r \in Readers, RxStep(r)
  PROVE  /\ Content' = Content /\ lastSealed' = lastSealed
         /\ ReadingFrom' = [ReadingFrom EXCEPT ![r] = IF Reading(r)' THEN rx'[r].w ELSE Nil]
         /\ Window' = [Window EXCEPT ![r] = IF Reading(r)' THEN rx'[r].seen ELSE {}]
         /\ Got' = [Got EXCEPT ![r] = IF rx'[r].pc = "return" THEN rx'[r].dest ELSE << >>]
         /\ ReadingFrom[r] = (IF Reading(r) THEN rx[r].w ELSE Nil)
         /\ Window[r] = (IF Reading(r) THEN rx[r].seen ELSE {})
         /\ Got[r] = (IF rx[r].pc = "return" THEN rx[r].dest ELSE << >>)
<1>1. UNCHANGED <<sent, lastSealed>> /\ \A q \in Readers \ {r} : rx'[q] = rx[q]
  BY RxLeaves DEF history
<1>2. \A q \in Readers \ {r} : /\ Reading(q)' = Reading(q)
                               /\ ReadingFrom'[q] = ReadingFrom[q] /\ Window'[q] = Window[q]
                               /\ Got'[q] = Got[q]
  BY <1>1 DEF ReadingFrom, Window, Got, Reading
<1>3. /\ ReadingFrom'[r] = IF Reading(r)' THEN rx'[r].w ELSE Nil
      /\ Window'[r] = IF Reading(r)' THEN rx'[r].seen ELSE {}
      /\ Got'[r] = IF rx'[r].pc = "return" THEN rx'[r].dest ELSE << >>
  BY DEF ReadingFrom, Window, Got, Reading
<1>4. /\ ReadingFrom' = [q \in Readers |-> ReadingFrom'[q]] /\ DOMAIN ReadingFrom = Readers
      /\ Window' = [q \in Readers |-> Window'[q]] /\ DOMAIN Window = Readers
      /\ Got' = [q \in Readers |-> Got'[q]] /\ DOMAIN Got = Readers
  BY DEF ReadingFrom, Window, Got
<1>5. ReadingFrom' = [ReadingFrom EXCEPT ![r] = IF Reading(r)' THEN rx'[r].w ELSE Nil]
  BY <1>2, <1>3, <1>4
<1>6. Window' = [Window EXCEPT ![r] = IF Reading(r)' THEN rx'[r].seen ELSE {}]
  BY <1>2, <1>3, <1>4
<1>7. Got' = [Got EXCEPT ![r] = IF rx'[r].pc = "return" THEN rx'[r].dest ELSE << >>]
  BY <1>2, <1>3, <1>4
<1> QED BY <1>1, <1>5, <1>6, <1>7, ContentKept DEF ReadingFrom, Window, Got

\* Putting back what is there changes nothing.
LEMMA SameAgain ==
  ASSUME NEW r \in Readers
  PROVE  /\ [ReadingFrom EXCEPT ![r] = ReadingFrom[r]] = ReadingFrom
         /\ [Window EXCEPT ![r] = Window[r]] = Window
         /\ [Got EXCEPT ![r] = Got[r]] = Got
BY DEF ReadingFrom, Window, Got

LEMMA TakeStartsRead ==
  ASSUME ITypes, NEW r \in Readers, NEW w \in Writers, RxTake(r, w)
  PROVE  Abs!StartRead(r, w) \/ UNCHANGED Abs!cvars
<1>1. /\ rx[r].pc = "idle" /\ rx'[r].w = w /\ rx'[r].seen = {lastSealed[w]}
      /\ rx'[r].dest = << >> /\ rx'[r].pc \in {"test", "return"}
  BY DEF RxTake, InitRx, ITypes, TypeOK, RxType
<1>2. RxStep(r)
  BY DEF RxStep
<1>3. ReadingFrom[r] = Nil /\ Window[r] = {} /\ Got[r] = << >>
  BY <1>1 DEF ReadingFrom, Window, Got, Reading
<1>4. /\ Content' = Content /\ lastSealed' = lastSealed
      /\ Got' = Got
  BY <1>1, <1>2, <1>3, OneReader, SameAgain
<1>5. CASE rx'[r].pc = "test"
  <2>1. Reading(r)'
    BY <1>5 DEF Reading
  <2>2. ReadingFrom' = [ReadingFrom EXCEPT ![r] = w] /\ Window' = [Window EXCEPT ![r] = {lastSealed[w]}]
    BY <1>1, <1>2, <2>1, OneReader
  <2> QED BY <1>3, <1>4, <2>2, MappedStart
<1>6. CASE rx'[r].pc = "return"
  <2>1. ~Reading(r)'
    BY <1>6 DEF Reading
  <2>2. /\ ReadingFrom' = [ReadingFrom EXCEPT ![r] = Nil]
        /\ Window' = [Window EXCEPT ![r] = {}]
    BY <1>2, <2>1, OneReader
  <2>3. /\ [ReadingFrom EXCEPT ![r] = ReadingFrom[r]] = ReadingFrom
        /\ [Window EXCEPT ![r] = Window[r]] = Window
    BY SameAgain
  <2>4. ReadingFrom' = ReadingFrom /\ Window' = Window
    BY <1>3, <2>2, <2>3
  <2> QED BY <1>4, <2>4, MappedStutter
<1> QED BY <1>1, <1>5, <1>6

\* A verdict ends the read with a sample it may return.
LEMMA VerdictEndsRead ==
  ASSUME ITypes, Witnessed, NEW r \in Readers, RxStep(r), Reading(r),
         rx'[r].pc = "return", rx'[r].len = rx[r].len,
         \/ rx'[r].dest = Zeros(rx[r].len)
         \/ \E f \in rx[r].seen : f > 0 /\ rx'[r].dest = Payload(rx[r].w, f)
  PROVE  Abs!EndRead(r)
<1>1. rx[r].w \in Writers /\ rx[r].w # Nil /\ rx[r].len \in 0..MaxLen
  BY ThreadsAssumption DEF Reading, ITypes, TypeOK, RxType
<1>2. ReadingFrom[r] = rx[r].w /\ Window[r] = rx[r].seen
  BY DEF ReadingFrom, Window
<1>3. ~Reading(r)'
  BY DEF Reading
<1>4. /\ Content' = Content /\ lastSealed' = lastSealed
      /\ ReadingFrom' = [ReadingFrom EXCEPT ![r] = Nil]
      /\ Window' = [Window EXCEPT ![r] = {}]
      /\ Got' = [Got EXCEPT ![r] = rx'[r].dest]
  BY <1>3, OneReader
<1>5. rx'[r].dest \in {[i \in 1..n |-> Zero] : n \in 0..MaxLen}
                        \cup {Content[ReadingFrom[r]][f] : f \in Window[r] \ {0}}
  <2>1. CASE rx'[r].dest = Zeros(rx[r].len)
    BY <1>1, <2>1 DEF Zeros
  <2>2. ASSUME NEW f \in rx[r].seen, f > 0, rx'[r].dest = Payload(rx[r].w, f)
        PROVE  rx'[r].dest = Content[ReadingFrom[r]][f] /\ f \in Window[r] \ {0}
    <3>1. f \in 1..Frame(rx[r].w)
      <4>1. f \in 0..Frame(rx[r].w) /\ Frame(rx[r].w) \in Nat
        BY <1>1, ContentSizes DEF Witnessed, WitnessedBy, Reading
      <4> QED BY <2>2, <4>1
    <3> QED BY <1>1, <1>2, <2>2, <3>1, ContentSizes
  <2> QED BY <2>1, <2>2
<1> QED BY <1>1, <1>2, <1>4, <1>5, MappedEnd

LEMMA ReaderSteps ==
  ASSUME ITypes, IDelivery, NEW r \in Readers, RxStep(r)
  PROVE  \/ \E w \in Writers : Abs!StartRead(r, w)
         \/ Abs!EndRead(r) \/ Abs!Forget(r) \/ UNCHANGED Abs!cvars
<1> USE DEF ITypes, TypeOK, RxType
<1>o. Owned /\ Started /\ Tags /\ Decrypted /\ Witnessed
  BY DEF IDelivery
\* As long as the read goes on, nothing moves.
<1>s. ASSUME Reading(r), Reading(r)', rx'[r].w = rx[r].w, rx'[r].seen = rx[r].seen
      PROVE  UNCHANGED Abs!cvars
  <2>1. rx[r].pc # "return" /\ rx'[r].pc # "return"
    BY <1>s DEF Reading
  <2> QED BY <1>s, <2>1, OneReader, SameAgain, MappedStutter
<1>1. CASE \E w \in Writers : RxTake(r, w)
  BY <1>1, TakeStartsRead
<1>2. CASE RxIgnite(r)
  <2>1. rx[r].pc = "test" /\ ~g_fuse_active[Home[r]]
    BY <1>2, <1>o DEF RxIgnite, Owned
  <2>2. Reading(r)
    BY <2>1 DEF Reading
  <2>3. CASE is_ready[Home[r]]
    <3>1. rx'[r].pc = "init" /\ rx'[r].w = rx[r].w /\ rx'[r].seen = rx[r].seen
      BY <1>2, <2>1, <2>3 DEF RxIgnite
    <3> QED BY <1>s, <2>2, <3>1 DEF Reading
  <2>4. CASE ~is_ready[Home[r]]
    <3>1. /\ rx'[r].pc = "return" /\ rx'[r].len = rx[r].len
          /\ rx'[r].dest = Zeros(rx[r].len)
      BY <1>2, <2>1, <2>4 DEF RxIgnite
    <3> QED BY <1>o, <2>2, <3>1, VerdictEndsRead
  <2> QED BY <2>3, <2>4
<1>3. CASE RxFuseInit(r) \/ RxDecryptBlock(r)
  <2>1. /\ rx[r].pc \in {"init", "crypt"} /\ rx'[r].pc \in {"crypt", "verify"}
        /\ rx'[r].w = rx[r].w /\ rx'[r].seen = rx[r].seen
    BY <1>3, <1>o DEF RxFuseInit, RxDecryptBlock, Owned
  <2> QED BY <1>s, <2>1 DEF Reading
<1>4. CASE RxVerify(r)
  <2>1. /\ rx[r].pc = "verify" /\ rx'[r].pc = "return" /\ rx'[r].len = rx[r].len
        /\ rx'[r].dest = IF chunk[rx[r].w][rx[r].len + 1] = EngineTag(g_crypto_engine[Home[r]])
                         THEN rx[r].dest ELSE Zeros(rx[r].len)
    BY <1>4 DEF RxVerify
  <2>2. \/ rx'[r].dest = Zeros(rx[r].len)
        \/ \E f \in rx[r].seen : f > 0 /\ rx'[r].dest = Payload(rx[r].w, f)
    BY <1>o, <2>1, VerifiedCurrent
  <2> QED BY <1>o, <2>1, <2>2, VerdictEndsRead DEF Reading
<1>5. CASE RxReturn(r)
  <2>1. rx[r].pc = "return" /\ rx'[r].pc = "idle"
    BY <1>5 DEF RxReturn, InitRx
  <2>2. ~Reading(r) /\ ~Reading(r)'
    BY <2>1 DEF Reading
  <2>3. Content' = Content /\ lastSealed' = lastSealed /\ Got' = [Got EXCEPT ![r] = << >>]
    BY <2>1, OneReader
  <2>4. ReadingFrom' = ReadingFrom /\ Window' = Window
    <3>1. /\ ReadingFrom' = [ReadingFrom EXCEPT ![r] = Nil] /\ ReadingFrom[r] = Nil
          /\ Window' = [Window EXCEPT ![r] = {}] /\ Window[r] = {}
      BY <2>2, OneReader
    <3>2. /\ [ReadingFrom EXCEPT ![r] = ReadingFrom[r]] = ReadingFrom
          /\ [Window EXCEPT ![r] = Window[r]] = Window
      BY SameAgain
    <3> QED BY <3>1, <3>2
  <2> QED BY <2>3, <2>4, MappedForget
<1> QED BY <1>1, <1>2, <1>3, <1>4, <1>5 DEF RxStep

LEMMA NextChannel ==
  ASSUME ITypes, IDelivery, Unsealed, [Next]_vars
  PROVE  [Abs!Next]_(Abs!cvars)
<1>1. CASE \E w \in Writers, n \in Lens : TxSerialize(w, n)
  BY <1>1, WriteBegins DEF Abs!Next
<1>2. CASE \E w \in Writers : TxWriteIv(w)
  BY <1>2, TailSeals DEF Abs!Next
<1>3. CASE \E r \in Readers : RxStep(r)
  BY <1>3, ReaderSteps DEF Abs!Next
<1>4. CASE UNCHANGED <<sent, lastSealed, rx>>
  BY <1>4, ContentKept, ReadersKept, MappedStutter
<1>5. ASSUME NEW w \in Writers,
             \/ TxIgnite(w) \/ TxFuseInit(w) \/ TxEncryptBlock(w) \/ TxFinalize(w)
             \/ TxCopyBlock(w) \/ TxPublish(w)
      PROVE  UNCHANGED <<sent, lastSealed, rx>>
  BY <1>5 DEF TxIgnite, TxFuseInit, TxEncryptBlock, TxFinalize, TxCopyBlock, TxPublish, history
<1>6. ASSUME \/ \E h \in Handles : Heist(h)
             \/ Finished \/ UNCHANGED vars
      PROVE  UNCHANGED <<sent, lastSealed, rx>>
  BY <1>6, HeistLeaves DEF Finished, vars, history
<1> QED BY <1>1, <1>2, <1>3, <1>4, <1>5, <1>6 DEF Next, TxStep

LEMMA InitChannel == Init => Abs!Init /\ Unsealed
<1> SUFFICES ASSUME Init PROVE Abs!Init /\ Unsealed
  OBVIOUS
<1>1. \A w \in Writers : Frame(w) = 0 /\ tx[w].pc = "idle"
  BY DEF Init, Frame, InitTx
<1>2. \A r \in Readers : rx[r].pc = "idle"
  BY DEF Init, InitRx
<1>3. \A w \in Writers : [f \in 1..Frame(w) |-> Payload(w, f)] = << >>
  BY <1>1
<1> QED BY <1>1, <1>2, <1>3 DEF Init, Abs!Init, Reading, Unsealed

\* With one data thread per process the chunks are the registers SecureChannel
\* describes: a read returns zeros or a sample that was the last sealed one at
\* some instant between the take and the verdict on its tag.
THEOREM Channel == Solo => (Spec => ImplementsChannel)
<1> SUFFICES ASSUME Solo PROVE Spec => ImplementsChannel
  OBVIOUS
<1>1. Init => IDelivery /\ Abs!Init /\ Unsealed
  BY InitDelivery, InitChannel
<1>2. ITypes /\ INonces /\ IDelivery /\ [Next]_vars => IDelivery'
  BY NextDelivery
<1>3. ITypes /\ IDelivery /\ Unsealed /\ [Next]_vars => Unsealed'
  BY NextUnsealed DEF IDelivery
<1>4. ITypes /\ IDelivery /\ Unsealed /\ [Next]_vars => [Abs!Next]_(Abs!cvars)
  BY NextChannel
<1> QED BY <1>1, <1>2, <1>3, <1>4, TypesInvariant, NoncesInvariant, PTL
        DEF Spec, ImplementsChannel, Abs!Spec
-----------------------------------------------------------------------------
(* What a writer leaves in shared memory.                                  *)

\* The block of writer w's current sample that stands in cell i.
CtOf(w, key, iv, i) == Ct(key, iv, i, Pt(w, Frame(w), i))

\* The cells of w's chunk are the current sample and its tag under key and iv.
SealedUnder(w, key, iv) ==
  LET n == sent[w][Frame(w)] IN
    /\ \A i \in 1..n : chunk[w][i] = CtOf(w, key, iv, i)
    /\ chunk[w][n + 1] = Mac(key, iv, n, [i \in 1..n |-> CtOf(w, key, iv, i)])

\* The blocks a thread has done are in its chunk, those of its engine; with the
\* tag written the sample lacks only its explicit IV; begun armed and done, it
\* lacks nothing.
AtRest(w) ==
  LET e == g_crypto_engine[Home[w]]
      n == sent[w][Frame(w)] IN
  /\ tx[w].pc \in {"crypt", "tag"} =>
       /\ g_fuse_active[Home[w]]
       /\ \A i \in 1..tx[w].off : chunk[w][i] = CtOf(w, e.key, e.iv, i)
  /\ tx[w].pc = "iv" => \E h \in Stashers(Home[w]) :
       /\ tx[w].temp_iv[1] = Stolen(h).sender
       /\ SealedUnder(w, <<Stolen(h).key, Stolen(h).key>>, tx[w].temp_iv)
  /\ tx[w].pc \in {"publish", "idle"} /\ Frame(w) \in armed[w] /\ n > 0 =>
       \E h \in Stashers(Home[w]) :
         SealedUnder(w, <<Stolen(h).key, Stolen(h).key>>, <<Stolen(h).sender, chunk[w][n + 2]>>)
IAtRest == \A w \in Writers : AtRest(w)

LEMMA InitAtRest == Init => IAtRest
BY DEF Init, IAtRest, AtRest, InitTx

\* Whoever else takes a step: the writer's sample stays as it is.
LEMMA OthersAtRest ==
  ASSUME IAtRest, NEW w \in Writers,
         tx'[w] = tx[w], sent'[w] = sent[w], armed'[w] = armed[w], chunk'[w] = chunk[w],
         g_fuse_active'[Home[w]] = g_fuse_active[Home[w]],
         g_crypto_engine'[Home[w]] = g_crypto_engine[Home[w]]
  PROVE  AtRest(w)'
<1>1. Frame(w)' = Frame(w)
  BY DEF Frame
<1>2. \A key, iv : SealedUnder(w, key, iv)' = SealedUnder(w, key, iv)
  BY <1>1 DEF SealedUnder, CtOf
<1>3. \A key, iv, i : CtOf(w, key, iv, i)' = CtOf(w, key, iv, i)
  BY <1>1 DEF CtOf
<1>4. AtRest(w)
  BY DEF IAtRest
<1> QED BY <1>1, <1>2, <1>3, <1>4 DEF AtRest

\* One more block: the engine and the chunk take the same one.
LEMMA BlockAtRest ==
  ASSUME Solo, ITypes, IDelivery, IAtRest, NEW w \in Writers, TxEncryptBlock(w)
  PROVE  AtRest(w)'
<1> USE DEF ITypes, TypeOK
<1> DEFINE e == g_crypto_engine[Home[w]]
           d == g_crypto_engine'[Home[w]]
           j == tx[w].off + 1
<1>1. /\ tx[w].pc = "crypt" /\ tx'[w].pc \in {"crypt", "tag"}
      /\ tx'[w].off = j /\ tx[w].off \in Nat
      /\ g_fuse_active' = g_fuse_active /\ Frame(w)' = Frame(w)
  BY BoundsAssumption DEF TxEncryptBlock, TxType, IDelivery, Owned, history, Frame
<1>2. /\ d.key = e.key /\ d.iv = e.iv
  BY HomeType DEF TxEncryptBlock, Absorb, EngineType, Threads
<1>3. e.ctr = j
  BY <1>1 DEF IDelivery, Encrypted, EncryptedBy
<1>4. j \in Slots
  <2>1. Frame(w) \in Nat /\ Frame(w) > 0 /\ tx[w].off < sent[w][Frame(w)]
    BY <1>1, SampleType DEF Positions
  <2>2. sent[w][Frame(w)] \in 0..MaxLen
    BY <2>1, SampleType
  <2> QED BY <1>1, <2>1, <2>2, BoundsAssumption DEF Slots
<1>5. /\ chunk'[w][j] = CtOf(w, e.key, e.iv, j)
      /\ \A i \in Slots : i # j => chunk'[w][i] = chunk[w][i]
  BY <1>3, <1>4 DEF TxEncryptBlock, ShmType, CtOf
<1>6. \A i \in 1..j : i = j \/ i \in 1..tx[w].off
  BY <1>1
<1>7. \A i \in 1..j : i \in Slots
  BY <1>1, <1>4, BoundsAssumption DEF Slots
<1>8. AtRest(w)
  BY DEF IAtRest
<1>9. g_fuse_active[Home[w]] /\ \A i \in 1..tx[w].off : chunk[w][i] = CtOf(w, e.key, e.iv, i)
  BY <1>1, <1>8 DEF AtRest
<1> HIDE DEF e, j
<1>10. \A i \in 1..j : chunk'[w][i] = CtOf(w, e.key, e.iv, i)
  <2> TAKE i \in 1..j
  <2>1. CASE i = j
    BY <1>5, <2>1
  <2>2. CASE i # j
    <3>1. i \in 1..tx[w].off /\ chunk'[w][i] = chunk[w][i]
      BY <1>5, <1>6, <1>7, <2>2
    <3> QED BY <1>9, <3>1
  <2> QED BY <2>1, <2>2
<1>11. PICK key : key = e.key
  OBVIOUS
<1>12. PICK iv : iv = e.iv
  OBVIOUS
<1>13. \A i \in 1..j : chunk'[w][i] = CtOf(w, key, iv, i)'
  BY <1>1, <1>10, <1>11, <1>12 DEF CtOf
<1> QED BY <1>1, <1>2, <1>9, <1>11, <1>12, <1>13 DEF AtRest

\* The tag is the one of the sample's own blocks, under the material the engine
\* was opened with.
LEMMA TagAtRest ==
  ASSUME Solo, ITypes, ICoherent, IDelivery, IAtRest, NEW w \in Writers, TxFinalize(w)
  PROVE  AtRest(w)'
<1> USE DEF ITypes, TypeOK
<1> DEFINE e == g_crypto_engine[Home[w]]
           n == sent[w][Frame(w)]
<1>1. /\ tx[w].pc = "tag" /\ tx'[w].pc = "iv" /\ tx'[w].temp_iv = tx[w].temp_iv
      /\ Frame(w)' = Frame(w) /\ sent' = sent
  BY DEF TxFinalize, TxType, history, Frame
<1>2. AtRest(w)
  BY DEF IAtRest
<1>3. /\ g_fuse_active[Home[w]] /\ Home[w] \in Procs
      /\ tx[w].off = n
      /\ \A i \in 1..n : chunk[w][i] = CtOf(w, e.key, e.iv, i)
  BY <1>1, <1>2, HomeType DEF AtRest, IDelivery, Started, Threads
<1>4. PICK h \in Stashers(Home[w]) :
        e.key = <<Stolen(h).key, Stolen(h).key>> /\ e.iv[1] = Stolen(h).sender
  BY <1>3 DEF ICoherent, Belong
<1>5. /\ e.iv = tx[w].temp_iv /\ e.len = n /\ Len(e.hash) = n /\ IsSeq(e.hash)
      /\ \A i \in 1..n : e.hash[i] = CtOf(w, e.key, e.iv, i)
  BY <1>1, <1>3 DEF IDelivery, Encrypted, EncryptedBy, EngineType, CtOf
<1>6. n \in 0..MaxLen
  BY <1>1, SampleType DEF Positions
<1>7. e.hash = [i \in 1..n |-> CtOf(w, e.key, e.iv, i)]
  <2> HIDE DEF e, n
  <2> DEFINE S == {e.hash[i] : i \in DOMAIN e.hash}
  <2>1. e.hash \in Seq(S)
    BY <1>5 DEF IsSeq
  <2>2. DOMAIN e.hash = 1..n /\ e.hash = [i \in 1..n |-> e.hash[i]]
    <3> HIDE DEF S
    <3> QED BY <1>5, <2>1
  <2> QED BY <1>5, <2>2
<1>8. /\ n + 1 \in Slots /\ \A i \in 1..n : i \in Slots /\ i # n + 1
  BY <1>6, BoundsAssumption DEF Slots
<1>9. /\ chunk'[w][n + 1] = Mac(e.key, e.iv, e.len, e.hash)
      /\ \A i \in Slots : i # n + 1 => chunk'[w][i] = chunk[w][i]
  BY <1>8 DEF TxFinalize, EngineTag, ShmType
<1> HIDE DEF e, n
<1>10. /\ \A i \in 1..n : chunk'[w][i] = CtOf(w, e.key, e.iv, i)
       /\ chunk'[w][n + 1] = Mac(e.key, e.iv, n, [i \in 1..n |-> CtOf(w, e.key, e.iv, i)])
  BY <1>3, <1>5, <1>7, <1>8, <1>9
<1>11. \A i : CtOf(w, e.key, e.iv, i) = Ct(e.key, e.iv, i, Pt(w, Frame(w), i))
  BY DEF CtOf
<1>12. PICK key : key = e.key
  OBVIOUS
<1>13. PICK iv : iv = e.iv
  OBVIOUS
<1>14. SealedUnder(w, key, iv)'
  BY <1>1, <1>10, <1>12, <1>13 DEF SealedUnder, CtOf, n
<1> QED BY <1>1, <1>4, <1>5, <1>12, <1>13, <1>14 DEF AtRest

\* The explicit IV is the counter the engine was opened with.
LEMMA IvAtRest ==
  ASSUME ITypes, IAtRest, NEW w \in Writers, TxWriteIv(w)
  PROVE  AtRest(w)'
<1> USE DEF ITypes, TypeOK
<1> DEFINE n == sent[w][Frame(w)]
<1>1. /\ tx[w].pc = "iv" /\ tx'[w].pc = "publish"
      /\ Frame(w)' = Frame(w) /\ sent' = sent
  BY DEF TxWriteIv, TxType, Frame
<1>2. AtRest(w)
  BY DEF IAtRest
<1>3. PICK h \in Stashers(Home[w]) :
        /\ tx[w].temp_iv[1] = Stolen(h).sender
        /\ SealedUnder(w, <<Stolen(h).key, Stolen(h).key>>, tx[w].temp_iv)
  BY <1>1, <1>2 DEF AtRest
<1>4. n \in 0..MaxLen
  BY <1>1, SampleType DEF Positions
<1>5. n + 2 \in Slots /\ \A i \in 1..(n + 1) : i \in Slots /\ i # n + 2
  BY <1>4, BoundsAssumption DEF Slots
<1>6. /\ chunk'[w][n + 2] = tx[w].temp_iv[2]
      /\ \A i \in 1..(n + 1) : chunk'[w][i] = chunk[w][i]
  BY <1>5 DEF TxWriteIv, ShmType
<1>7. tx[w].temp_iv = <<Stolen(h).sender, tx[w].temp_iv[2]>>
  BY <1>1, <1>3 DEF TxType
<1>8. PICK key : key = <<Stolen(h).key, Stolen(h).key>>
  OBVIOUS
<1>9. PICK iv : iv = tx[w].temp_iv
  OBVIOUS
<1>10. SealedUnder(w, key, iv)'
  <2>1. /\ \A i \in 1..n : chunk[w][i] = CtOf(w, key, iv, i)
        /\ chunk[w][n + 1] = Mac(key, iv, n, [i \in 1..n |-> CtOf(w, key, iv, i)])
    BY <1>3, <1>8, <1>9 DEF SealedUnder
  <2>2. /\ \A i \in 1..n : chunk'[w][i] = CtOf(w, key, iv, i)
        /\ chunk'[w][n + 1] = Mac(key, iv, n, [i \in 1..n |-> CtOf(w, key, iv, i)])
    BY <1>4, <1>6, <2>1
  <2> QED BY <1>1, <2>2 DEF SealedUnder, CtOf
<1>11. <<Stolen(h).sender, chunk'[w][n + 2]>> = iv
  BY <1>6, <1>7, <1>9
<1> QED BY <1>1, <1>8, <1>10, <1>11 DEF AtRest

LEMMA TxAtRest ==
  ASSUME Solo, ITypes, Fallback, ICoherent, IDelivery, IAtRest, NEW w \in Writers,
         TxStep(w) \/ \E n \in Lens : TxSerialize(w, n)
  PROVE  AtRest(w)'
<1> USE DEF ITypes, TypeOK
<1>1. CASE \E n \in Lens : TxSerialize(w, n)
  <2> PICK n \in Lens : TxSerialize(w, n)
    BY <1>1
  <2>1. tx'[w].pc = (IF n > 0 THEN "test" ELSE "publish")
    BY DEF TxSerialize, TxType, InitTx
  <2>2. Frame(w)' = Len(sent[w]) + 1 /\ sent'[w][Frame(w)'] = n
    BY BoundsAssumption, AppendProperties DEF TxSerialize, HistoryType, Frame
  <2> QED BY <2>1, <2>2, BoundsAssumption DEF AtRest
<1>2. CASE TxIgnite(w)
  <2>1. tx'[w].pc \in {"join", "copy", "init"}
    BY <1>2 DEF TxIgnite, TxType
  <2> QED BY <2>1 DEF AtRest
<1>3. CASE TxFuseInit(w)
  <2>1. tx'[w].pc = "crypt" /\ tx'[w].off = 0 /\ g_fuse_active'[Home[w]]
    BY <1>3, HomeType DEF TxFuseInit, FuseInit, TxType, GlobalsType, Threads, IDelivery, Started
  <2> QED BY <2>1 DEF AtRest
<1>4. CASE TxEncryptBlock(w)
  BY <1>4, BlockAtRest
<1>5. CASE TxFinalize(w)
  BY <1>5, TagAtRest
<1>6. CASE TxWriteIv(w)
  BY <1>6, IvAtRest
<1>7. CASE TxCopyBlock(w)
  <2>1. /\ tx[w].pc = "copy" /\ tx'[w].pc \in {"copy", "publish"}
        /\ Frame(w)' = Frame(w) /\ armed' = armed
    BY <1>7 DEF TxCopyBlock, TxType, history, Frame
  <2>2. Frame(w) \notin armed[w]
    BY <2>1 DEF Fallback
  <2> QED BY <2>1, <2>2 DEF AtRest
<1>8. CASE TxPublish(w)
  <2>1. /\ tx[w].pc = "publish" /\ tx'[w].pc = "idle"
        /\ UNCHANGED <<sent, armed, chunk>> /\ Frame(w)' = Frame(w)
    BY <1>8 DEF TxPublish, TxType, InitTx, history, shm, Frame
  <2>2. \A key, iv : SealedUnder(w, key, iv)' = SealedUnder(w, key, iv)
    BY <2>1 DEF SealedUnder, CtOf
  <2>3. AtRest(w)
    BY DEF IAtRest
  <2> QED BY <2>1, <2>2, <2>3 DEF AtRest
<1> QED BY <1>1, <1>2, <1>3, <1>4, <1>5, <1>6, <1>7, <1>8 DEF TxStep

LEMMA NextAtRest ==
  Solo /\ ITypes /\ Fallback /\ ICoherent /\ IDelivery /\ IAtRest /\ [Next]_vars => IAtRest'
<1> SUFFICES ASSUME Solo, ITypes, Fallback, ICoherent, IDelivery, IAtRest, [Next]_vars
             PROVE  IAtRest'
  OBVIOUS
<1>1. CASE \E w \in Writers : (\E n \in Lens : TxSerialize(w, n)) \/ TxStep(w)
  <2> PICK w \in Writers : TxStep(w) \/ \E n \in Lens : TxSerialize(w, n)
    BY <1>1
  <2>1. \A v \in Writers \ {w} : /\ tx'[v] = tx[v] /\ sent'[v] = sent[v] /\ chunk'[v] = chunk[v]
                                 /\ g_fuse_active'[Home[v]] = g_fuse_active[Home[v]]
                                 /\ g_crypto_engine'[Home[v]] = g_crypto_engine[Home[v]]
    BY TxLeaves, SoloHomes DEF Threads
  <2>2. \A v \in Writers \ {w} : armed'[v] = armed[v]
    BY DEF TxStep, TxSerialize, TxIgnite, TxFuseInit, TxEncryptBlock, TxFinalize, TxWriteIv,
           TxCopyBlock, TxPublish, history, ITypes, TypeOK, HistoryType
  <2> QED BY <2>1, <2>2, OthersAtRest, TxAtRest DEF IAtRest
<1>2. CASE \/ \E h \in Handles : Heist(h)
           \/ \E r \in Readers : RxStep(r)
           \/ Finished \/ UNCHANGED vars
  <2>1. \A v \in Writers :
          /\ UNCHANGED <<tx, sent, armed, chunk>>
          /\ g_fuse_active'[Home[v]] = g_fuse_active[Home[v]]
          /\ g_crypto_engine'[Home[v]] = g_crypto_engine[Home[v]]
    BY <1>2, HeistLeaves, RxLeaves, SoloHomes DEF Finished, vars, globals, shm, history, Threads
  <2> QED BY <2>1, OthersAtRest DEF IAtRest
<1> QED BY <1>1, <1>2 DEF Next

\* Whenever write returns, a sample begun after the key had been stashed stands
\* in shared memory whole: every block, its own tag and its own explicit IV,
\* openable with the material of a protected handle (lines 117-199), with one
\* data thread and one key material in the process.
THEOREM Sealing == Solo /\ OneMaterial => (Spec => []SealedAtRest)
<1> SUFFICES ASSUME Solo, OneMaterial PROVE Spec => []SealedAtRest
  OBVIOUS
<1>1. Init => Fallback /\ ICoherent /\ IDelivery /\ IAtRest
  BY InitFallback, InitCoherent, InitDelivery, InitAtRest
<1>2. ITypes /\ INonces /\ IDelivery /\ [Next]_vars => IDelivery'
  BY NextDelivery
<1>3. ITypes /\ Fallback /\ ICoherent /\ IDelivery /\ IAtRest /\ [Next]_vars
        => Fallback' /\ ICoherent' /\ IAtRest'
  BY NextFallback, NextCoherent, NextAtRest
<1>4. IAtRest => SealedAtRest
  <2> SUFFICES ASSUME IAtRest, NEW w \in Writers, tx[w].pc = "idle",
                      Frame(w) \in armed[w], sent[w][Frame(w)] > 0
               PROVE  \E h \in Handles : /\ HandleProc[h] = Home[w]
                                         /\ HandleProtected[h]
                                         /\ Opens(w, sent[w][Frame(w)], Payload(w, Frame(w)), h)
    BY DEF SealedAtRest
  <2> DEFINE n == sent[w][Frame(w)]
  <2>1. PICK h \in Stashers(Home[w]) :
          SealedUnder(w, <<Stolen(h).key, Stolen(h).key>>, <<Stolen(h).sender, chunk[w][n + 2]>>)
    BY DEF IAtRest, AtRest
  <2>2. \A i \in 1..n : Payload(w, Frame(w))[i] = Pt(w, Frame(w), i)
    BY DEF Payload
  <2>3. Opens(w, n, Payload(w, Frame(w)), h)
    BY <2>1, <2>2 DEF Opens, SealedUnder, CtOf
  <2> QED BY <2>1, <2>3 DEF Stashers
<1> QED BY <1>1, <1>2, <1>3, <1>4, TypesInvariant, NoncesInvariant, PTL DEF Spec
=============================================================================
