--------------------------- MODULE ZeroCopyProofs ---------------------------
(***************************************************************************)
(* Proofs about ZeroCopyCrypto, for any processes, threads, handles, keys  *)
(* and bounds: types, and three facts about what a writer's process lets   *)
(* out.  Plaintext comes only from samples begun before the wrapper was    *)
(* armed; no nonce is used twice, provided the sender ids stashed in       *)
(* different writers' processes differ; and an operation is opened under   *)
(* key and sender id of one handle, provided a process is only ever given  *)
(* one protected handle's material.                                        *)
(***************************************************************************)
EXTENDS ZeroCopyCrypto, SequenceTheorems, TLAPS

-----------------------------------------------------------------------------
(* Sequences of whatever.                                                  *)

\* A function on an initial segment is a sequence.
LEMMA SegmentIsSeq ==
  ASSUME NEW n \in Nat, NEW R, NEW f \in [1..n -> R]
  PROVE  f \in Seq(R) /\ Len(f) = n
OBVIOUS

\* What appending does to a sequence about whose elements nothing is known.
LEMMA AppendToSeq ==
  ASSUME NEW s, NEW c, IsSeq(s)
  PROVE  /\ IsSeq(Append(s, c))
         /\ Len(s) \in Nat
         /\ Len(Append(s, c)) = Len(s) + 1
         /\ \A i \in 1..Len(s) : Append(s, c)[i] = s[i]
         /\ Append(s, c)[Len(s) + 1] = c
<1> DEFINE S == {s[i] : i \in DOMAIN s} \cup {c}
           a == Append(s, c)
<1>1. s \in Seq(S)
  BY DEF IsSeq
<1>2. a \in Seq(S) /\ Len(s) \in Nat /\ Len(a) = Len(s) + 1
      /\ (\A i \in 1..Len(s) : a[i] = s[i]) /\ a[Len(s) + 1] = c
  BY <1>1, AppendProperties
<1>3. a \in Seq({a[i] : i \in DOMAIN a})
  <2> HIDE DEF a, S
  <2>1. a \in [1..Len(a) -> S] /\ Len(a) \in Nat
    BY <1>2
  <2>2. a \in [1..Len(a) -> {a[i] : i \in DOMAIN a}]
    BY <2>1
  <2> QED BY <2>1, <2>2, SegmentIsSeq
<1> QED BY <1>2, <1>3 DEF IsSeq

\* The empty sequence and the zeroed sample are sequences.
LEMMA ZerosIsSeq ==
  /\ IsSeq(<< >>)
  /\ \A n \in Nat : IsSeq(Zeros(n)) /\ Len(Zeros(n)) = n
<1>1. IsSeq(<< >>)
  BY DEF IsSeq
<1>2. ASSUME NEW n \in Nat PROVE IsSeq(Zeros(n)) /\ Len(Zeros(n)) = n
  <2>1. DOMAIN Zeros(n) = 1..n /\ \A i \in 1..n : Zeros(n)[i] = Zero
    BY DEF Zeros
  <2>2. Zeros(n) \in [1..n -> {Zeros(n)[i] : i \in DOMAIN Zeros(n)}]
    BY DEF Zeros
  <2>3. Zeros(n) \in Seq({Zeros(n)[i] : i \in DOMAIN Zeros(n)})
    BY <2>2, SegmentIsSeq
  <2> QED BY <2>1, <2>3 DEF IsSeq
<1> QED BY <1>1, <1>2

-----------------------------------------------------------------------------
(* Types.                                                                  *)

\* Where the threads stand: a thread that still has to do a block has one, and
\* only a handle that has key material is ever in the middle of a stash.
Positions ==
  /\ \A h \in Handles : heist[h].pc # "return" => Len(HandleMaterial[h]) > 0
  /\ \A w \in Writers :
       /\ tx[w].pc # "idle" => Frame(w) > 0
       /\ tx[w].pc \in {"test", "init", "crypt", "join", "copy"} => tx[w].off < sent[w][Frame(w)]
  /\ \A r \in Readers : rx[r].pc \in {"test", "init", "crypt", "join"} => rx[r].off < rx[r].len

ITypes == TypeOK /\ Positions

\* What is stolen from a handle with key material is a key and a sender id.
LEMMA StolenType ==
  ASSUME NEW h \in Handles, Len(HandleMaterial[h]) > 0
  PROVE  Stolen(h).key \in Keys /\ Stolen(h).sender \in Senders
<1>1. Stolen(h) \in Material
  BY HandlesAssumption DEF Stolen, Material
<1> QED BY <1>1 DEF Keys, Senders

\* The samples a writer has begun.
LEMMA SampleType ==
  ASSUME HistoryType, NEW w \in Writers
  PROVE  /\ Frame(w) \in Nat
         /\ \A f \in 1..Frame(w) : sent[w][f] \in 0..MaxLen
<1> DEFINE L == 0..MaxLen
<1>1. sent[w] \in Seq(L)
  BY DEF HistoryType
<1> HIDE DEF L
<1>2. Len(sent[w]) \in Nat /\ \A f \in 1..Len(sent[w]) : sent[w][f] \in L
  BY <1>1
<1> QED BY <1>2 DEF Frame, L

LEMMA InitTypes == Init => ITypes
<1> SUFFICES ASSUME Init PROVE ITypes
  OBVIOUS
<1> USE DEF Init
<1>1. GlobalsType
  <2>1. Nil \in Keys /\ Nil \in Senders
    BY DEF Keys, Senders
  <2>2. <<Nil, Nil>> \in [1..2 -> Keys]
    BY <2>1
  <2> QED BY <2>1, <2>2 DEF GlobalsType
<1>2. EngineType
  BY ZerosIsSeq DEF EngineType, IdleEngine, Keys
<1>3. TxType
  BY BoundsAssumption DEF TxType, InitTx
<1>4. RxType
  BY BoundsAssumption, ZerosIsSeq DEF RxType, InitRx
<1>5. ShmType
  BY BoundsAssumption DEF ShmType
<1>6. HistoryType
  BY BoundsAssumption DEF HistoryType, Frame
<1>7. Positions
  BY DEF Positions, InitTx, InitRx
<1> QED BY <1>1, <1>2, <1>3, <1>4, <1>5, <1>6, <1>7 DEF ITypes, TypeOK

LEMMA HeistTypes ==
  ASSUME ITypes, NEW h \in Handles, Heist(h)
  PROVE  ITypes'
<1> USE DEF ITypes, TypeOK
<1>1. /\ EngineType' /\ TxType' /\ RxType' /\ ShmType' /\ HistoryType'
  BY DEF Heist, StealKey, StashKeyEnd, StashIv, StashReady, shm, history,
         EngineType, TxType, RxType, ShmType, HistoryType, Frame
<1>2. Len(HandleMaterial[h]) > 0
  BY DEF Positions, Heist, StealKey, StashKeyEnd, StashIv, StashReady
<1>3. HandleProc[h] \in Procs
  BY HandlesAssumption
<1>4. GlobalsType'
  <2>1. CASE StealKey(h)
    <3>1. heist' \in [Handles -> [pc : {"return", "key", "iv", "ready"}, calls : Nat]]
      BY <2>1 DEF StealKey, GlobalsType
    <3>2. g_zero_copy_ctx' \in [Procs -> [key : [1..2 -> Keys], sender : Senders]]
      BY <2>1, <1>2, <1>3, StolenType DEF StealKey, GlobalsType
    <3> QED BY <2>1, <3>1, <3>2 DEF StealKey, GlobalsType
  <2>2. CASE StashKeyEnd(h)
    BY <2>2, <1>2, <1>3, StolenType DEF StashKeyEnd, GlobalsType
  <2>3. CASE StashIv(h)
    BY <2>3, <1>2, <1>3, StolenType DEF StashIv, GlobalsType
  <2>4. CASE StashReady(h)
    BY <2>4, <1>3 DEF StashReady, GlobalsType
  <2> QED BY <2>1, <2>2, <2>3, <2>4 DEF Heist
<1>5. Positions'
  BY <1>2 DEF Positions, Heist, StealKey, StashKeyEnd, StashIv, StashReady,
              GlobalsType, shm, history, Frame
<1> QED BY <1>1, <1>4, <1>5

\* Home, Handles and the bounds, as the proofs below use them.
LEMMA HomeType == \A t \in Threads : Home[t] \in Procs
BY ThreadsAssumption

LEMMA FuseInitTypes ==
  ASSUME GlobalsType, EngineType, NEW p \in Procs, NEW iv, FuseInit(p, iv)
  PROVE  /\ EngineType'
         /\ g_fuse_active' \in [Procs -> BOOLEAN]
BY ZerosIsSeq DEF FuseInit, EngineInit, GlobalsType, EngineType

LEMMA AbsorbTypes ==
  ASSUME EngineType, NEW p \in Procs, NEW c,
         g_crypto_engine' = [g_crypto_engine EXCEPT ![p] = Absorb(@, c)]
  PROVE  EngineType'
BY AppendToSeq DEF EngineType, Absorb

LEMMA TxSerializeTypes ==
  ASSUME ITypes, NEW w \in Writers, NEW n \in Lens, TxSerialize(w, n)
  PROVE  ITypes'
<1> USE DEF ITypes, TypeOK
<1>1. n \in 0..MaxLen /\ MaxLen \in Nat /\ MaxFrames \in Nat
  BY BoundsAssumption
<1>2. GlobalsType' /\ EngineType' /\ RxType'
  BY DEF TxSerialize, globals, GlobalsType, EngineType, RxType
<1>3. TxType'
  BY <1>1 DEF TxSerialize, TxType, InitTx
<1>4. ShmType'
  BY <1>1 DEF TxSerialize, ShmType
<1>5. /\ sent' \in [Writers -> Seq(0..MaxLen)]
      /\ Frame(w)' = Frame(w) + 1 /\ Frame(w) \in Nat
      /\ sent'[w][Frame(w)'] = n
      /\ \A v \in Writers \ {w} : sent'[v] = sent[v]
  <2> DEFINE L == 0..MaxLen
  <2>1. sent[w] \in Seq(L) /\ sent \in [Writers -> Seq(L)]
    BY DEF HistoryType
  <2>2. n \in L
    BY <1>1
  <2> HIDE DEF L
  <2>3. /\ Append(sent[w], n) \in Seq(L)
        /\ Len(Append(sent[w], n)) = Len(sent[w]) + 1
        /\ Append(sent[w], n)[Len(sent[w]) + 1] = n
        /\ Len(sent[w]) \in Nat
    BY <2>1, <2>2, AppendProperties
  <2>4. sent' = [sent EXCEPT ![w] = Append(sent[w], n)]
    BY DEF TxSerialize
  <2>5. sent' \in [Writers -> Seq(L)]
    BY <2>1, <2>3, <2>4
  <2>6. sent'[w] = Append(sent[w], n) /\ \A v \in Writers \ {w} : sent'[v] = sent[v]
    BY <2>1, <2>4
  <2> QED BY <2>3, <2>5, <2>6 DEF Frame, L
<1>6. HistoryType'
  <2>1. \A v \in Writers : Frame(v)' <= MaxFrames
    BY <1>1, <1>5 DEF TxSerialize, HistoryType, Frame
  <2>2. armed' \in [Writers -> SUBSET (1..MaxFrames)]
    BY <1>1, <1>5 DEF TxSerialize, HistoryType
  <2> QED BY <1>5, <2>1, <2>2 DEF TxSerialize, HistoryType
<1>7. Positions'
  <2>1. heist' = heist /\ rx' = rx
    BY DEF TxSerialize
  <2>2. tx' = [tx EXCEPT ![w] = [InitTx EXCEPT !.pc = IF n > 0 THEN "test" ELSE "publish"]]
    BY DEF TxSerialize
  <2>3. \A v \in Writers \ {w} : tx'[v] = tx[v] /\ Frame(v)' = Frame(v)
    BY <1>5, <2>2 DEF TxType, Frame
  <2>4. tx'[w].off = 0 /\ (tx'[w].pc = "test" => n > 0) /\ tx'[w].pc \in {"test", "publish"}
    BY <2>2 DEF TxType, InitTx
  <2>5. \A v \in Writers :
          /\ tx'[v].pc # "idle" => Frame(v)' > 0
          /\ tx'[v].pc \in {"test", "init", "crypt", "join", "copy"}
                => tx'[v].off < sent'[v][Frame(v)']
    <3> TAKE v \in Writers
    <3>1. CASE v = w
      BY <1>5, <2>4, <3>1
    <3>2. CASE v # w
      BY <1>5, <2>3, <3>2 DEF Positions
    <3> QED BY <3>1, <3>2
  <2> QED BY <2>1, <2>5 DEF Positions
<1> QED BY <1>2, <1>3, <1>4, <1>6, <1>7

LEMMA TxStepTypes ==
  ASSUME ITypes, NEW w \in Writers, TxStep(w)
  PROVE  ITypes'
<1> USE DEF ITypes, TypeOK
<1>0. /\ MaxLen \in Nat /\ MaxFrames \in Nat
      /\ Home[w] \in Procs
      /\ Frame(w) \in Nat /\ Frame(w) <= MaxFrames
      /\ Frame(w) > 0 => sent[w][Frame(w)] \in 0..MaxLen
  BY BoundsAssumption, HomeType, SampleType DEF Threads, HistoryType
<1>1. CASE TxIgnite(w)
  <2>1. EngineType' /\ RxType' /\ ShmType' /\ HistoryType'
    BY <1>1 DEF TxIgnite, shm, history, EngineType, RxType, ShmType, HistoryType, Frame
  <2>2. GlobalsType'
    BY <1>0, <1>1 DEF TxIgnite, GlobalsType, TakeCounter
  <2>3. TxType'
    <3>1. <<g_zero_copy_ctx[Home[w]].sender, IvCell(g_tx_iv_counter[Home[w]])>>
             \in Senders \X IvCells
      BY <1>0 DEF GlobalsType, IvCells, IvCell
    <3>2. tx'[w].pc \in {"join", "copy"} \/ tx'[w].pc = "init"
      BY <1>1 DEF TxIgnite, TxType
    <3>3. tx'[w].pc = "init" => tx'[w].temp_iv \in Senders \X IvCells
      BY <1>1, <3>1 DEF TxIgnite, TxType
    <3> QED BY <1>1, <3>2, <3>3 DEF TxIgnite, TxType
  <2>4. Positions'
    BY <1>1 DEF TxIgnite, TxType, Positions, history, Frame
  <2> QED BY <2>1, <2>2, <2>3, <2>4
<1>2. CASE TxFuseInit(w)
  <2>1. RxType' /\ ShmType'
    BY <1>2 DEF TxFuseInit, shm, RxType, ShmType
  <2>2. EngineType' /\ GlobalsType'
    BY <1>0, <1>2, FuseInitTypes DEF TxFuseInit, GlobalsType
  <2>3. TxType'
    BY <1>2 DEF TxFuseInit, TxType
  <2>4. HistoryType'
    <3>1. Frame(w) \in 1..MaxFrames
      BY <1>0, <1>2 DEF TxFuseInit, Positions
    <3>2. [w |-> w, f |-> Frame(w), key |-> g_zero_copy_ctx[Home[w]].key, iv |-> tx[w].temp_iv]
             \in Ignitions
      BY <1>0, <1>2, <3>1 DEF TxFuseInit, Ignitions, GlobalsType, TxType
    <3> QED BY <1>2, <3>2 DEF TxFuseInit, HistoryType, Frame
  <2>5. Positions'
    BY <1>2 DEF TxFuseInit, TxType, Positions, Frame
  <2> QED BY <2>1, <2>2, <2>3, <2>4, <2>5
<1>3. CASE TxEncryptBlock(w)
  <2>1. RxType' /\ HistoryType' /\ GlobalsType'
    BY <1>3 DEF TxEncryptBlock, history, RxType, HistoryType, GlobalsType, Frame
  <2>2. EngineType'
    BY <1>0, <1>3, AbsorbTypes DEF TxEncryptBlock
  <2>3. /\ tx[w].off \in Nat /\ tx[w].off + 1 <= sent[w][Frame(w)] /\ Frame(w) > 0
    BY <1>0, <1>3 DEF TxEncryptBlock, Positions, TxType
  <2>4. TxType'
    BY <1>0, <1>3, <2>3 DEF TxEncryptBlock, TxType
  <2>5. ShmType'
    BY <1>3 DEF TxEncryptBlock, ShmType
  <2>6. Positions'
    BY <1>0, <1>3, <2>3 DEF TxEncryptBlock, TxType, Positions, history, Frame
  <2> QED BY <2>1, <2>2, <2>4, <2>5, <2>6
<1>4. CASE TxFinalize(w)
  <2>1. RxType' /\ HistoryType' /\ EngineType' /\ ShmType'
    BY <1>4 DEF TxFinalize, history, RxType, HistoryType, EngineType, ShmType, Frame
  <2>2. GlobalsType'
    BY <1>0, <1>4 DEF TxFinalize, FuseDeactivate, GlobalsType
  <2>3. TxType' /\ Positions'
    BY <1>4 DEF TxFinalize, TxType, Positions, history, Frame
  <2> QED BY <2>1, <2>2, <2>3
<1>5. CASE TxWriteIv(w)
  <2>1. GlobalsType' /\ EngineType' /\ ShmType' /\ TxType' /\ Positions'
    BY <1>5 DEF TxWriteIv, globals, GlobalsType, EngineType, ShmType, TxType, RxType, Positions, Frame
  <2>2. HistoryType'
    BY <1>0, <1>5 DEF TxWriteIv, HistoryType, Frame
  <2>3. RxType'
    BY <1>0, <1>5 DEF TxWriteIv, RxType
  <2> QED BY <2>1, <2>2, <2>3
<1>6. CASE TxCopyBlock(w)
  <2>1. RxType' /\ HistoryType' /\ GlobalsType' /\ EngineType'
    BY <1>6 DEF TxCopyBlock, globals, history, RxType, HistoryType, GlobalsType, EngineType, Frame
  <2>2. /\ tx[w].off \in Nat /\ tx[w].off + 1 <= sent[w][Frame(w)] /\ Frame(w) > 0
    BY <1>0, <1>6 DEF TxCopyBlock, Positions, TxType
  <2>3. TxType' /\ ShmType'
    BY <1>0, <1>6, <2>2 DEF TxCopyBlock, TxType, ShmType
  <2>4. Positions'
    BY <1>0, <1>6, <2>2 DEF TxCopyBlock, TxType, Positions, history, Frame
  <2> QED BY <2>1, <2>3, <2>4
<1>7. CASE TxPublish(w)
  <2>1. RxType' /\ HistoryType' /\ GlobalsType' /\ EngineType'
    BY <1>7 DEF TxPublish, globals, history, RxType, HistoryType, GlobalsType, EngineType, Frame
  <2>2. TxType' /\ Positions'
    BY <1>0, <1>7 DEF TxPublish, TxType, Positions, InitTx, history, Frame
  <2>3. ShmType'
    BY <1>7 DEF TxPublish, ShmType, shm
  <2> QED BY <2>1, <2>2, <2>3
<1> QED BY <1>1, <1>2, <1>3, <1>4, <1>5, <1>6, <1>7 DEF TxStep

LEMMA RxTakeTypes ==
  ASSUME ITypes, NEW r \in Readers, NEW w \in Writers, RxTake(r, w)
  PROVE  ITypes'
<1> USE DEF ITypes, TypeOK
<1>1. GlobalsType' /\ EngineType' /\ TxType' /\ HistoryType'
  BY DEF RxTake, globals, history, GlobalsType, EngineType, TxType, HistoryType, Frame
<1>2. ShmType'
  BY DEF RxTake, ShmType, shm
<1>3. size[w] \in 0..MaxLen /\ lastSealed[w] \in 0..MaxFrames /\ MaxLen \in Nat
  BY BoundsAssumption DEF ShmType, HistoryType
<1>4. RxType'
  BY <1>3, ZerosIsSeq DEF RxTake, RxType, InitRx
<1>5. Positions'
  BY <1>3 DEF RxTake, RxType, InitRx, Positions, history, Frame
<1> QED BY <1>1, <1>2, <1>4, <1>5

LEMMA RxStepTypes ==
  ASSUME ITypes, NEW r \in Readers, RxStep(r)
  PROVE  ITypes'
<1> USE DEF ITypes, TypeOK
<1>0. /\ MaxLen \in Nat
      /\ Home[r] \in Procs
      /\ rx[r].len \in 0..MaxLen
  BY BoundsAssumption, HomeType DEF Threads, RxType
<1>1. ASSUME NEW w \in Writers, RxTake(r, w) PROVE ITypes'
  BY <1>1, RxTakeTypes
<1>2. CASE RxIgnite(r)
  <2>1. GlobalsType' /\ EngineType' /\ TxType' /\ ShmType' /\ HistoryType'
    BY <1>2 DEF RxIgnite, globals, history, shm,
                GlobalsType, EngineType, TxType, ShmType, HistoryType, Frame
  <2>2. RxType' /\ Positions'
    BY <1>0, <1>2, ZerosIsSeq DEF RxIgnite, RxType, Positions, history, Frame
  <2> QED BY <2>1, <2>2
<1>3. CASE RxFuseInit(r)
  <2>1. TxType' /\ ShmType' /\ HistoryType'
    BY <1>3 DEF RxFuseInit, history, shm, TxType, ShmType, HistoryType, Frame
  <2>2. EngineType' /\ GlobalsType'
    BY <1>0, <1>3, FuseInitTypes DEF RxFuseInit, GlobalsType
  <2>3. RxType' /\ Positions'
    BY <1>3 DEF RxFuseInit, RxType, Positions, history, Frame
  <2> QED BY <2>1, <2>2, <2>3
<1>4. CASE RxDecryptBlock(r)
  <2>1. GlobalsType' /\ TxType' /\ ShmType' /\ HistoryType'
    BY <1>4 DEF RxDecryptBlock, history, shm, GlobalsType, TxType, ShmType, HistoryType, Frame
  <2>2. EngineType'
    BY <1>0, <1>4, AbsorbTypes DEF RxDecryptBlock
  <2>3. /\ rx[r].off \in Nat /\ rx[r].off + 1 <= rx[r].len
    BY <1>0, <1>4 DEF RxDecryptBlock, Positions, RxType
  <2>4. RxType'
    <3>1. \A c : IsSeq(Append(rx[r].dest, c))
      BY AppendToSeq DEF RxType
    <3>2. /\ rx'[r].off = rx[r].off + 1
          /\ rx'[r].pc \in {"crypt", "join", "verify", "return"}
          /\ IsSeq(rx'[r].dest)
      BY <1>4, <3>1 DEF RxDecryptBlock, RxType
    <3>3. rx'[r].off \in 0..MaxLen
      BY <1>0, <2>3, <3>2
    <3>4. /\ DOMAIN rx' = Readers
          /\ DOMAIN rx'[r] = DOMAIN rx[r]
          /\ rx'[r].w = rx[r].w /\ rx'[r].len = rx[r].len /\ rx'[r].seen = rx[r].seen
          /\ \A q \in Readers \ {r} : rx'[q] = rx[q]
          /\ rx[r].pc # "idle"
      BY <1>4 DEF RxDecryptBlock, RxType
    <3> QED BY <3>2, <3>3, <3>4 DEF RxType
  <2>5. Positions'
    BY <1>0, <1>4, <2>3 DEF RxDecryptBlock, RxType, Positions, history, Frame
  <2> QED BY <2>1, <2>2, <2>4, <2>5
<1>5. CASE RxVerify(r)
  <2>1. EngineType' /\ TxType' /\ ShmType' /\ HistoryType'
    BY <1>5 DEF RxVerify, history, shm, EngineType, TxType, ShmType, HistoryType, Frame
  <2>2. GlobalsType'
    BY <1>0, <1>5 DEF RxVerify, FuseDeactivate, GlobalsType
  <2>3. RxType' /\ Positions'
    BY <1>0, <1>5, ZerosIsSeq DEF RxVerify, RxType, Positions, history, Frame
  <2> QED BY <2>1, <2>2, <2>3
<1>6. CASE RxReturn(r)
  <2>1. GlobalsType' /\ EngineType' /\ TxType' /\ ShmType' /\ HistoryType'
    BY <1>6 DEF RxReturn, globals, history, shm,
                GlobalsType, EngineType, TxType, ShmType, HistoryType, Frame
  <2>2. RxType' /\ Positions'
    BY <1>0, <1>6, ZerosIsSeq DEF RxReturn, RxType, Positions, InitRx, history, Frame
  <2> QED BY <2>1, <2>2
<1> QED BY <1>1, <1>2, <1>3, <1>4, <1>5, <1>6 DEF RxStep

LEMMA StutterTypes ==
  ASSUME ITypes, UNCHANGED vars
  PROVE  ITypes'
BY DEF vars, globals, shm, history, ITypes, TypeOK, GlobalsType, EngineType, TxType,
       RxType, ShmType, HistoryType, Positions, Frame

LEMMA NextTypes == ITypes /\ [Next]_vars => ITypes'
<1> SUFFICES ASSUME ITypes, [Next]_vars PROVE ITypes'
  OBVIOUS
<1>1. CASE \E h \in Handles : Heist(h)
  BY <1>1, HeistTypes
<1>2. CASE \E w \in Writers : (\E n \in Lens : TxSerialize(w, n)) \/ TxStep(w)
  BY <1>2, TxSerializeTypes, TxStepTypes
<1>3. CASE \E r \in Readers : RxStep(r)
  BY <1>3, RxStepTypes
<1>4. CASE Finished \/ UNCHANGED vars
  BY <1>4, StutterTypes DEF Finished
<1> QED BY <1>1, <1>2, <1>3, <1>4 DEF Next

LEMMA TypesInvariant == Spec => []ITypes
BY InitTypes, NextTypes, PTL DEF Spec

\* No step of any thread, in any order, on any number of processes, threads and
\* handles, takes a variable out of its type or a position out of the sample.
THEOREM TypeCorrect == Spec => []TypeOK
<1>1. ITypes => TypeOK
  BY DEF ITypes
<1> QED BY <1>1, TypesInvariant, PTL

-----------------------------------------------------------------------------
(* The fallback.                                                           *)

\* is_ready never falls, so a sample begun armed never reaches the plain copy,
\* and what the plain copy leaves in shared memory is of other samples.
Fallback ==
  /\ \A w \in Writers : \A f \in armed[w] : f <= Frame(w) /\ is_ready[Home[w]]
  /\ \A w \in Writers : tx[w].pc = "copy" => Frame(w) \notin armed[w]
  /\ \A w \in Writers, s \in Slots : chunk[w][s].kind = "raw" =>
       chunk[w][s].pt[2] \in 1..Frame(w) /\ chunk[w][s].pt[2] \notin armed[w]

LEMMA InitFallback == Init => Fallback
BY DEF Init, Fallback, Blank, InitTx

\* Steps that leave the flag's truth, the history and shared memory alone.
LEMMA QuietFallback ==
  ASSUME ITypes, Fallback, UNCHANGED <<sent, armed, chunk>>,
         \A p \in Procs : is_ready[p] => is_ready'[p],
         \A w \in Writers : tx'[w].pc = "copy" => tx[w].pc = "copy"
  PROVE  Fallback'
<1>1. \A w \in Writers : Home[w] \in Procs
  BY HomeType DEF Threads
<1> QED BY <1>1 DEF Fallback, Frame

LEMMA NextFallback == ITypes /\ Fallback /\ [Next]_vars => Fallback'
<1> SUFFICES ASSUME ITypes, Fallback, [Next]_vars PROVE Fallback'
  OBVIOUS
<1>0. /\ \A w \in Writers : Home[w] \in Procs
      /\ \A w \in Writers : Frame(w) \in Nat /\ armed[w] \subseteq Nat
  BY HomeType, SampleType DEF Threads, ITypes, TypeOK, HistoryType
<1>1. ASSUME NEW h \in Handles, Heist(h) PROVE Fallback'
  <2>1. UNCHANGED <<sent, armed, chunk, tx>>
    BY <1>1 DEF Heist, StealKey, StashKeyEnd, StashIv, StashReady, shm, history
  <2>2. \A p \in Procs : is_ready[p] => is_ready'[p]
    BY <1>1 DEF Heist, StealKey, StashKeyEnd, StashIv, StashReady, ITypes, TypeOK, GlobalsType
  <2> QED BY <2>1, <2>2, QuietFallback
<1>2. ASSUME NEW w \in Writers, NEW n \in Lens, TxSerialize(w, n) PROVE Fallback'
  <2>1. /\ UNCHANGED <<chunk, is_ready>>
        /\ Frame(w)' = Frame(w) + 1
        /\ \A v \in Writers \ {w} : Frame(v)' = Frame(v) /\ armed'[v] = armed[v] /\ tx'[v] = tx[v]
        /\ armed'[w] \subseteq armed[w] \cup {Frame(w) + 1}
        /\ Frame(w) + 1 \in armed'[w] => is_ready[Home[w]]
        /\ tx'[w].pc # "copy"
    <3>1. Len(Append(sent[w], n)) = Len(sent[w]) + 1
      BY <1>2, BoundsAssumption, AppendProperties DEF ITypes, TypeOK, HistoryType
    <3>2. \A f \in armed[w] : f <= Frame(w)
      BY DEF Fallback
    <3>3. Frame(w) + 1 \notin armed[w]
      BY <1>0, <3>2
    <3> QED BY <1>2, <3>1, <3>3 DEF TxSerialize, globals, ITypes, TypeOK, HistoryType, TxType, Frame, InitTx
  <2>2. \A v \in Writers : \A f \in armed'[v] : f <= Frame(v)' /\ is_ready'[Home[v]]
    <3> TAKE v \in Writers
    <3>1. CASE v = w
      BY <1>0, <2>1, <3>1 DEF Fallback
    <3>2. CASE v # w
      BY <2>1, <3>2 DEF Fallback
    <3> QED BY <3>1, <3>2
  <2>3. \A v \in Writers : tx'[v].pc = "copy" => Frame(v)' \notin armed'[v]
    BY <2>1 DEF Fallback
  <2>4. \A v \in Writers, s \in Slots : chunk'[v][s].kind = "raw" =>
          chunk'[v][s].pt[2] \in 1..Frame(v)' /\ chunk'[v][s].pt[2] \notin armed'[v]
    BY <1>0, <2>1 DEF Fallback
  <2> QED BY <2>2, <2>3, <2>4 DEF Fallback
<1>3. ASSUME NEW w \in Writers, TxStep(w) PROVE Fallback'
  <2>1. CASE TxIgnite(w)
    <3>1. UNCHANGED <<sent, armed, chunk, is_ready>>
      BY <2>1 DEF TxIgnite, shm, history
    <3>2. tx'[w].pc = "copy" => ~is_ready[Home[w]]
      BY <2>1 DEF TxIgnite, ITypes, TypeOK, TxType
    <3>3. \A v \in Writers \ {w} : tx'[v] = tx[v]
      BY <2>1 DEF TxIgnite, ITypes, TypeOK, TxType
    <3> QED BY <3>1, <3>2, <3>3 DEF Fallback, Frame
  <2>2. CASE TxFuseInit(w)
    <3>1. /\ UNCHANGED <<sent, armed, chunk, is_ready>>
          /\ \A v \in Writers : tx'[v].pc = "copy" => tx[v].pc = "copy"
      BY <2>2 DEF TxFuseInit, shm, ITypes, TypeOK, TxType
    <3> QED BY <3>1, QuietFallback
  <2>3. CASE TxEncryptBlock(w)
    <3>1. /\ UNCHANGED <<sent, armed, is_ready>>
          /\ \A v \in Writers : tx'[v].pc = "copy" => tx[v].pc = "copy"
      BY <2>3 DEF TxEncryptBlock, history, ITypes, TypeOK, TxType
    <3>2. \A v \in Writers, s \in Slots : chunk'[v][s].kind = "raw" => chunk'[v][s] = chunk[v][s]
      BY <2>3 DEF TxEncryptBlock, Ct, ITypes, TypeOK, ShmType
    <3> QED BY <3>1, <3>2 DEF Fallback, Frame
  <2>4. CASE TxFinalize(w)
    <3>1. /\ UNCHANGED <<sent, armed, is_ready>>
          /\ \A v \in Writers : tx'[v].pc = "copy" => tx[v].pc = "copy"
      BY <2>4 DEF TxFinalize, history, ITypes, TypeOK, TxType
    <3>2. \A v \in Writers, s \in Slots : chunk'[v][s].kind = "raw" => chunk'[v][s] = chunk[v][s]
      BY <2>4 DEF TxFinalize, EngineTag, Mac, ITypes, TypeOK, ShmType
    <3> QED BY <3>1, <3>2 DEF Fallback, Frame
  <2>5. CASE TxWriteIv(w)
    <3>1. /\ UNCHANGED <<sent, armed, is_ready>>
          /\ \A v \in Writers : tx'[v].pc = "copy" => tx[v].pc = "copy"
      BY <2>5 DEF TxWriteIv, globals, ITypes, TypeOK, TxType
    <3>2. \A v \in Writers, s \in Slots : chunk'[v][s].kind = "raw" => chunk'[v][s] = chunk[v][s]
      <4>1. tx[w].temp_iv[2].kind = "iv"
        BY <2>5 DEF TxWriteIv, ITypes, TypeOK, TxType, IvCells
      <4>2. \A v \in Writers, s \in Slots :
              chunk'[v][s] = chunk[v][s] \/ chunk'[v][s] = tx[w].temp_iv[2]
        BY <2>5 DEF TxWriteIv, ITypes, TypeOK, ShmType
      <4> QED BY <4>1, <4>2
    <3> QED BY <3>1, <3>2 DEF Fallback, Frame
  <2>6. CASE TxCopyBlock(w)
    <3>1. /\ UNCHANGED <<sent, armed, is_ready>>
          /\ \A v \in Writers : tx'[v].pc = "copy" => tx[v].pc = "copy"
          /\ tx[w].pc = "copy" /\ Frame(w) > 0
      BY <2>6 DEF TxCopyBlock, globals, history, ITypes, TypeOK, TxType, Positions
    <3>2. \A v \in Writers, s \in Slots :
             \/ chunk'[v][s] = chunk[v][s]
             \/ v = w /\ chunk'[v][s] = Raw(Pt(w, Frame(w), tx[w].off + 1))
      BY <2>6 DEF TxCopyBlock, ITypes, TypeOK, ShmType
    <3>3. Raw(Pt(w, Frame(w), tx[w].off + 1)).pt[2] = Frame(w)
      BY DEF Raw, Pt
    <3> QED BY <1>0, <3>1, <3>2, <3>3 DEF Fallback, Frame
  <2>7. CASE TxPublish(w)
    <3>1. /\ UNCHANGED <<sent, armed, chunk, is_ready>>
          /\ \A v \in Writers : tx'[v].pc = "copy" => tx[v].pc = "copy"
      BY <2>7 DEF TxPublish, globals, shm, history, InitTx, ITypes, TypeOK, TxType
    <3> QED BY <3>1, QuietFallback
  <2> QED BY <1>3, <2>1, <2>2, <2>3, <2>4, <2>5, <2>6, <2>7 DEF TxStep
<1>4. ASSUME NEW r \in Readers, RxStep(r) PROVE Fallback'
  <2>1. UNCHANGED <<sent, armed, chunk, is_ready, tx>>
    BY <1>4 DEF RxStep, RxTake, RxIgnite, RxFuseInit, RxDecryptBlock, RxVerify, RxReturn,
                globals, shm, history
  <2> QED BY <2>1, QuietFallback
<1>5. CASE Finished \/ UNCHANGED vars
  BY <1>5, QuietFallback DEF Finished, vars, globals, shm, history
<1> QED BY <1>1, <1>2, <1>3, <1>4, <1>5 DEF Next

\* Whatever the number of threads and of stash calls, and however they
\* interleave, the plain copy of lines 149-154 is never taken by a sample that
\* was begun after the key had been stashed.
THEOREM NoPlaintext == Spec => []NoPlaintextOnceArmed
<1>1. Init => Fallback
  BY InitFallback
<1>2. Fallback => NoPlaintextOnceArmed
  BY DEF Fallback, NoPlaintextOnceArmed
<1> QED BY <1>1, <1>2, NextFallback, TypesInvariant, PTL DEF Spec

-----------------------------------------------------------------------------
(* Nonces.                                                                 *)

\* The handles that can stash into process p, and the sender ids they bring.
Stashers(p)  == {h \in Handles : /\ HandleProc[h] = p
                                 /\ HandleProtected[h]
                                 /\ Len(HandleMaterial[h]) > 0}
SendersOf(p) == {Stolen(h).sender : h \in Stashers(p)}

\* What lines 138-140 rely on: writers of different processes have different
\* sender ids, whatever handles those processes register.
DistinctSenders ==
  \A v, w \in Writers : Home[v] # Home[w] => SendersOf(Home[v]) \cap SendersOf(Home[w]) = {}

\* The stashed sender id is one of this process's handles'.
SenderStashed ==
  /\ \A h \in Handles : heist[h].pc # "return" => h \in Stashers(HandleProc[h])
  /\ \A h \in Handles : heist[h].pc = "ready" =>
       g_zero_copy_ctx[HandleProc[h]].sender \in SendersOf(HandleProc[h])
  /\ \A p \in Procs : is_ready[p] => g_zero_copy_ctx[p].sender \in SendersOf(p)

\* A counter value is with at most one thread, or with one sample, of the
\* process it was taken in, and below the counter.
CountersTaken ==
  /\ \A w \in Writers : tx[w].pc = "init" =>
       /\ tx[w].temp_iv[1] \in SendersOf(Home[w])
       /\ tx[w].temp_iv[2].n < g_tx_iv_counter[Home[w]]
  /\ \A v, w \in Writers : v # w /\ Home[v] = Home[w] /\ tx[v].pc = "init" /\ tx[w].pc = "init"
       => tx[v].temp_iv[2].n # tx[w].temp_iv[2].n
  /\ \A a \in ignitions :
       /\ a.iv[1] \in SendersOf(Home[a.w])
       /\ a.iv[2].n < g_tx_iv_counter[Home[a.w]]
  /\ \A a \in ignitions, w \in Writers : Home[a.w] = Home[w] /\ tx[w].pc = "init"
       => a.iv[2].n # tx[w].temp_iv[2].n
  /\ \A a, b \in ignitions : Home[a.w] = Home[b.w] /\ a.iv[2].n = b.iv[2].n => a = b

INonces == SenderStashed /\ CountersTaken

LEMMA InitNonces == Init => INonces
BY DEF Init, INonces, SenderStashed, CountersTaken, InitTx

LEMMA HeistNonces ==
  ASSUME ITypes, INonces, NEW h \in Handles, Heist(h)
  PROVE  INonces'
<1> USE DEF ITypes, TypeOK, INonces
<1>0. HandleProc[h] \in Procs
  BY HandlesAssumption
<1>1. CountersTaken'
  BY DEF Heist, StealKey, StashKeyEnd, StashIv, StashReady, history, CountersTaken
<1>2. h \in Stashers(HandleProc[h])
  BY DEF Heist, StealKey, StashKeyEnd, StashIv, StashReady, SenderStashed, Stashers
<1>3. CASE StealKey(h) \/ StashKeyEnd(h)
  <2>1. /\ is_ready' = is_ready
        /\ \A p \in Procs : g_zero_copy_ctx'[p].sender = g_zero_copy_ctx[p].sender
        /\ heist'[h].pc \in {"key", "iv"}
        /\ \A g \in Handles \ {h} : heist'[g] = heist[g]
    <3>1. CASE StealKey(h)
      BY <1>0, <3>1 DEF StealKey, GlobalsType
    <3>2. CASE StashKeyEnd(h)
      BY <1>0, <3>2 DEF StashKeyEnd, GlobalsType
    <3> QED BY <1>3, <3>1, <3>2
  <2>2. \A g \in Handles : HandleProc[g] \in Procs
    BY HandlesAssumption
  <2> QED BY <1>1, <1>2, <2>1, <2>2 DEF SenderStashed
<1>4. CASE StashIv(h)
  <2>1. /\ is_ready' = is_ready
        /\ g_zero_copy_ctx'[HandleProc[h]].sender = Stolen(h).sender
        /\ \A p \in Procs \ {HandleProc[h]} : g_zero_copy_ctx'[p] = g_zero_copy_ctx[p]
        /\ \A g \in Handles \ {h} : heist'[g] = heist[g]
    BY <1>0, <1>4 DEF StashIv, GlobalsType
  <2>2. Stolen(h).sender \in SendersOf(HandleProc[h])
    BY <1>2 DEF SendersOf
  <2>3. \A g \in Handles : HandleProc[g] \in Procs
    BY HandlesAssumption
  <2> QED BY <1>1, <1>2, <2>1, <2>2, <2>3 DEF SenderStashed
<1>5. CASE StashReady(h)
  <2>1. /\ g_zero_copy_ctx' = g_zero_copy_ctx
        /\ heist'[h].pc = "return"
        /\ \A g \in Handles \ {h} : heist'[g] = heist[g]
        /\ \A p \in Procs \ {HandleProc[h]} : is_ready'[p] = is_ready[p]
        /\ heist[h].pc = "ready"
    BY <1>0, <1>5 DEF StashReady, GlobalsType
  <2> QED BY <1>1, <2>1 DEF SenderStashed
<1> QED BY <1>3, <1>4, <1>5 DEF Heist

\* Steps that stash nothing, take no counter value and open no engine for a
\* writer.
LEMMA QuietNonces ==
  ASSUME INonces,
         UNCHANGED <<heist, g_zero_copy_ctx, is_ready, g_tx_iv_counter, ignitions>>,
         \A w \in Writers : tx'[w].pc = "init" => tx'[w] = tx[w]
  PROVE  INonces'
BY DEF INonces, SenderStashed, CountersTaken

LEMMA TxNonces ==
  ASSUME ITypes, INonces, NEW w \in Writers, TxStep(w)
  PROVE  INonces'
<1> USE DEF ITypes, TypeOK, INonces
<1>0. /\ \A v \in Writers : Home[v] \in Procs
      /\ g_tx_iv_counter[Home[w]] \in Nat
      /\ \A a \in ignitions : a.w \in Writers /\ a.iv[2].n \in Nat
      /\ \A v \in Writers : tx[v].pc = "init" => tx[v].temp_iv[2].n \in Nat
  BY HomeType DEF Threads, GlobalsType, TxType, HistoryType, Ignitions, IvCells
<1>1. CASE TxIgnite(w)
  <2>1. /\ UNCHANGED <<heist, g_zero_copy_ctx, is_ready, ignitions>>
        /\ \A v \in Writers \ {w} : tx'[v] = tx[v]
    BY <1>1 DEF TxIgnite, history, TxType
  <2>2. CASE g_fuse_active[Home[w]] \/ ~is_ready[Home[w]]
    <3>1. UNCHANGED g_tx_iv_counter /\ tx'[w].pc # "init"
      BY <1>1, <2>2 DEF TxIgnite, TxType
    <3> QED BY <2>1, <3>1, QuietNonces
  <2>3. CASE ~ (g_fuse_active[Home[w]] \/ ~is_ready[Home[w]])
    <3> DEFINE n == g_tx_iv_counter[Home[w]]
    <3>1. /\ g_tx_iv_counter'[Home[w]] = n + 1
          /\ \A p \in Procs \ {Home[w]} : g_tx_iv_counter'[p] = g_tx_iv_counter[p]
          /\ tx'[w].temp_iv = <<g_zero_copy_ctx[Home[w]].sender, IvCell(n)>>
      BY <1>0, <1>1, <2>3 DEF TxIgnite, TakeCounter, TxType, GlobalsType
    <3>2. tx'[w].temp_iv[1] \in SendersOf(Home[w]) /\ tx'[w].temp_iv[2].n = n
      BY <1>0, <2>3, <3>1 DEF SenderStashed, IvCell
    <3>3. SenderStashed'
      BY <2>1 DEF SenderStashed
    <3> HIDE DEF n
    <3>4. \A v \in Writers : tx'[v].pc = "init" =>
            /\ tx'[v].temp_iv[1] \in SendersOf(Home[v])
            /\ tx'[v].temp_iv[2].n < g_tx_iv_counter'[Home[v]]
      BY <1>0, <2>1, <3>1, <3>2 DEF CountersTaken, n
    <3>5. \A v \in Writers : tx[v].pc = "init" /\ Home[v] = Home[w] => tx[v].temp_iv[2].n < n
      BY DEF CountersTaken, n
    <3>6. \A u, v \in Writers :
            u # v /\ Home[u] = Home[v] /\ tx'[u].pc = "init" /\ tx'[v].pc = "init"
              => tx'[u].temp_iv[2].n # tx'[v].temp_iv[2].n
      <4> SUFFICES ASSUME NEW u \in Writers, NEW v \in Writers, u # v, Home[u] = Home[v],
                          tx'[u].pc = "init", tx'[v].pc = "init"
                   PROVE  tx'[u].temp_iv[2].n # tx'[v].temp_iv[2].n
        OBVIOUS
      <4>1. CASE u = w
        BY <1>0, <2>1, <3>2, <3>5, <4>1 DEF n
      <4>2. CASE v = w
        BY <1>0, <2>1, <3>2, <3>5, <4>2 DEF n
      <4>3. CASE u # w /\ v # w
        BY <2>1, <4>3 DEF CountersTaken
      <4> QED BY <4>1, <4>2, <4>3
    <3>7. \A a \in ignitions :
            /\ a.iv[1] \in SendersOf(Home[a.w])
            /\ a.iv[2].n < g_tx_iv_counter'[Home[a.w]]
      BY <1>0, <3>1 DEF CountersTaken, n
    <3>8. \A a \in ignitions, v \in Writers : Home[a.w] = Home[v] /\ tx'[v].pc = "init"
            => a.iv[2].n # tx'[v].temp_iv[2].n
      <4> SUFFICES ASSUME NEW a \in ignitions, NEW v \in Writers, Home[a.w] = Home[v],
                          tx'[v].pc = "init"
                   PROVE  a.iv[2].n # tx'[v].temp_iv[2].n
        OBVIOUS
      <4>1. CASE v = w
        BY <1>0, <3>2, <4>1 DEF CountersTaken, n
      <4>2. CASE v # w
        BY <2>1, <4>2 DEF CountersTaken
      <4> QED BY <4>1, <4>2
    <3>9. \A a, b \in ignitions : Home[a.w] = Home[b.w] /\ a.iv[2].n = b.iv[2].n => a = b
      BY DEF CountersTaken
    <3> QED BY <2>1, <3>3, <3>4, <3>6, <3>7, <3>8, <3>9 DEF CountersTaken
  <2> QED BY <2>2, <2>3
<1>2. CASE TxFuseInit(w)
  <2> DEFINE i == [w |-> w, f |-> Frame(w), key |-> g_zero_copy_ctx[Home[w]].key,
                   iv |-> tx[w].temp_iv]
  <2>1. /\ UNCHANGED <<heist, g_zero_copy_ctx, is_ready, g_tx_iv_counter>>
        /\ \A v \in Writers \ {w} : tx'[v] = tx[v]
        /\ tx[w].pc = "init" /\ tx'[w].pc = "crypt"
        /\ ignitions' = ignitions \cup {i}
    BY <1>2 DEF TxFuseInit, TxType
  <2>2. i.w = w /\ i.iv = tx[w].temp_iv
    OBVIOUS
  <2> HIDE DEF i
  <2>3. SenderStashed'
    BY <2>1 DEF SenderStashed
  <2>4. \A v \in Writers : tx'[v].pc = "init" =>
          /\ tx'[v].temp_iv[1] \in SendersOf(Home[v])
          /\ tx'[v].temp_iv[2].n < g_tx_iv_counter[Home[v]]
    BY <2>1 DEF CountersTaken
  <2>5. \A u, v \in Writers :
          u # v /\ Home[u] = Home[v] /\ tx'[u].pc = "init" /\ tx'[v].pc = "init"
            => tx'[u].temp_iv[2].n # tx'[v].temp_iv[2].n
    BY <2>1 DEF CountersTaken
  <2>6. \A a \in ignitions' :
          /\ a.iv[1] \in SendersOf(Home[a.w])
          /\ a.iv[2].n < g_tx_iv_counter[Home[a.w]]
    BY <2>1, <2>2 DEF CountersTaken
  <2>7. \A a \in ignitions', v \in Writers : Home[a.w] = Home[v] /\ tx'[v].pc = "init"
          => a.iv[2].n # tx'[v].temp_iv[2].n
    BY <2>1, <2>2 DEF CountersTaken
  <2>8. \A a, b \in ignitions' : Home[a.w] = Home[b.w] /\ a.iv[2].n = b.iv[2].n => a = b
    BY <2>1, <2>2 DEF CountersTaken
  <2> QED BY <2>1, <2>3, <2>4, <2>5, <2>6, <2>7, <2>8 DEF CountersTaken
<1>3. CASE TxEncryptBlock(w) \/ TxFinalize(w) \/ TxWriteIv(w) \/ TxCopyBlock(w) \/ TxPublish(w)
  <2>1. /\ UNCHANGED <<heist, g_zero_copy_ctx, is_ready, g_tx_iv_counter, ignitions>>
        /\ \A v \in Writers : tx'[v].pc = "init" => tx'[v] = tx[v]
    BY <1>3 DEF TxEncryptBlock, TxFinalize, TxWriteIv, TxCopyBlock, TxPublish,
                globals, history, InitTx, TxType
  <2> QED BY <2>1, QuietNonces
<1> QED BY <1>1, <1>2, <1>3 DEF TxStep

LEMMA NextNonces == ITypes /\ INonces /\ [Next]_vars => INonces'
<1> SUFFICES ASSUME ITypes, INonces, [Next]_vars PROVE INonces'
  OBVIOUS
<1>1. ASSUME NEW h \in Handles, Heist(h) PROVE INonces'
  BY <1>1, HeistNonces
<1>2. ASSUME NEW w \in Writers, NEW n \in Lens, TxSerialize(w, n) PROVE INonces'
  <2>1. /\ UNCHANGED <<heist, g_zero_copy_ctx, is_ready, g_tx_iv_counter, ignitions>>
        /\ \A v \in Writers : tx'[v].pc = "init" => tx'[v] = tx[v]
    BY <1>2 DEF TxSerialize, globals, InitTx, ITypes, TypeOK, TxType
  <2> QED BY <2>1, QuietNonces
<1>3. ASSUME NEW w \in Writers, TxStep(w) PROVE INonces'
  BY <1>3, TxNonces
<1>4. ASSUME NEW r \in Readers, RxStep(r) PROVE INonces'
  <2>1. UNCHANGED <<heist, g_zero_copy_ctx, is_ready, g_tx_iv_counter, ignitions, tx>>
    BY <1>4 DEF RxStep, RxTake, RxIgnite, RxFuseInit, RxDecryptBlock, RxVerify, RxReturn,
                globals, history
  <2> QED BY <2>1, QuietNonces
<1>5. CASE Finished \/ UNCHANGED vars
  BY <1>5, QuietNonces DEF Finished, vars, globals, history
<1> QED BY <1>1, <1>2, <1>3, <1>4, <1>5 DEF Next

LEMMA NoncesInvariant == Spec => []INonces
BY InitNonces, NextNonces, TypesInvariant, PTL DEF Spec

\* Writers that live in one process share its counter, writers that live in
\* different ones differ in sender id: no key and IV ever open the engine for
\* two samples (lines 131-147), even when the threads of a process race.
THEOREM NonceUniqueness == DistinctSenders => (Spec => []NoncesUnique)
<1> SUFFICES ASSUME DistinctSenders PROVE Spec => []NoncesUnique
  OBVIOUS
<1>1. ITypes /\ INonces => NoncesUnique
  <2> SUFFICES ASSUME ITypes, INonces, NEW a \in ignitions, NEW b \in ignitions, a.iv = b.iv
               PROVE  a = b
    BY DEF NoncesUnique
  <2>1. a.w \in Writers /\ b.w \in Writers
    BY DEF ITypes, TypeOK, HistoryType, Ignitions
  <2>2. a.iv[1] \in SendersOf(Home[a.w]) \cap SendersOf(Home[b.w])
    BY DEF INonces, CountersTaken
  <2>3. Home[a.w] = Home[b.w]
    BY <2>1, <2>2 DEF DistinctSenders
  <2> QED BY <2>3 DEF INonces, CountersTaken
<1> QED BY <1>1, NoncesInvariant, TypesInvariant, PTL
-----------------------------------------------------------------------------
(* Key and sender id.                                                      *)

\* What the stash relies on, whose fields are stored one by one and without a
\* lock: the handles that stash into a process bring the same key material.
OneMaterial == \A p \in Procs : \A g, h \in Stashers(p) : Stolen(g) = Stolen(h)

\* The key and the sender id are the material of one of the process's handles.
Belong(p, key, sender) ==
  \E h \in Stashers(p) : key = <<Stolen(h).key, Stolen(h).key>> /\ sender = Stolen(h).sender

\* What of its material a stash call has stored already.
StashedBy(h) ==
  LET c == g_zero_copy_ctx[HandleProc[h]] IN
    /\ heist[h].pc # "return" => h \in Stashers(HandleProc[h]) /\ c.key[1] = Stolen(h).key
    /\ heist[h].pc \in {"iv", "ready"} => c.key[2] = Stolen(h).key
    /\ heist[h].pc = "ready" => c.sender = Stolen(h).sender

\* From the stash to the engine: what stands in the context once it is ready,
\* what a thread on its way to fuse_init has taken from it, and what the engine
\* runs with.
ICoherent ==
  /\ \A h \in Handles : StashedBy(h)
  /\ \A p \in Procs : is_ready[p] => Belong(p, g_zero_copy_ctx[p].key, g_zero_copy_ctx[p].sender)
  /\ \A w \in Writers : tx[w].pc = "init" =>
       is_ready[Home[w]] /\ Belong(Home[w], g_zero_copy_ctx[Home[w]].key, tx[w].temp_iv[1])
  /\ \A r \in Readers : rx[r].pc = "init" =>
       is_ready[Home[r]] /\ Belong(Home[r], g_zero_copy_ctx[Home[r]].key, rx[r].temp_iv[1])
  /\ \A p \in Procs : g_fuse_active[p] =>
       Belong(p, g_crypto_engine[p].key, g_crypto_engine[p].iv[1])

LEMMA InitCoherent == Init => ICoherent
BY DEF Init, ICoherent, StashedBy, InitTx, InitRx

\* The invariant after a step, part by part.
LEMMA CoherentParts ==
  ASSUME \A h \in Handles : StashedBy(h)',
         \A p \in Procs : is_ready'[p] =>
           Belong(p, g_zero_copy_ctx'[p].key, g_zero_copy_ctx'[p].sender),
         \A w \in Writers : tx'[w].pc = "init" =>
           is_ready'[Home[w]] /\ Belong(Home[w], g_zero_copy_ctx'[Home[w]].key, tx'[w].temp_iv[1]),
         \A r \in Readers : rx'[r].pc = "init" =>
           is_ready'[Home[r]] /\ Belong(Home[r], g_zero_copy_ctx'[Home[r]].key, rx'[r].temp_iv[1]),
         \A p \in Procs : g_fuse_active'[p] =>
           Belong(p, g_crypto_engine'[p].key, g_crypto_engine'[p].iv[1])
  PROVE  ICoherent'
BY DEF ICoherent, Belong

\* Steps that stash nothing leave the first two parts alone.
LEMMA StashKept ==
  ASSUME ICoherent, UNCHANGED <<heist, g_zero_copy_ctx, is_ready>>
  PROVE  /\ \A h \in Handles : StashedBy(h)'
         /\ \A p \in Procs : is_ready'[p] =>
              Belong(p, g_zero_copy_ctx'[p].key, g_zero_copy_ctx'[p].sender)
<1>1. \A h \in Handles : StashedBy(h)'
  BY DEF ICoherent, StashedBy
<1>2. \A p \in Procs : is_ready'[p] =>
        Belong(p, g_zero_copy_ctx'[p].key, g_zero_copy_ctx'[p].sender)
  BY DEF ICoherent
<1> QED BY <1>1, <1>2

\* Under one material, a store of a stash call into a ready context is one of
\* what stands there.
LEMMA HeistCoherent ==
  ASSUME OneMaterial, ITypes, ICoherent, NEW h \in Handles, Heist(h)
  PROVE  ICoherent'
<1> DEFINE p == HandleProc[h]
           m == Stolen(h)
<1> USE DEF ITypes, TypeOK, GlobalsType
<1>0. /\ p \in Procs /\ \A g \in Handles : HandleProc[g] \in Procs
      /\ UNCHANGED <<tx, rx, g_fuse_active, g_crypto_engine>>
      /\ \A t \in Threads : Home[t] \in Procs
      /\ \A g \in Handles \ {h} : heist'[g] = heist[g]
      /\ \A q \in Procs \ {p} : g_zero_copy_ctx'[q] = g_zero_copy_ctx[q] /\ is_ready'[q] = is_ready[q]
  BY HandlesAssumption, HomeType
     DEF Heist, StealKey, StashKeyEnd, StashIv, StashReady
<1>1. h \in Stashers(p)
  BY DEF Heist, StealKey, StashKeyEnd, StashIv, StashReady, ICoherent, StashedBy, Stashers
<1>2. \A g \in Stashers(p) : g \in Handles /\ HandleProc[g] = p /\ Stolen(g) = m
  BY <1>0, <1>1 DEF OneMaterial, Stashers
<1> HIDE DEF p, m
<1>3. Belong(p, <<m.key, m.key>>, m.sender)
  BY <1>1 DEF Belong, m
<1>4. \A key, sender : Belong(p, key, sender) => key = <<m.key, m.key>> /\ sender = m.sender
  BY <1>2 DEF Belong
<1>5. g_zero_copy_ctx[p].key \in [1..2 -> Keys] /\ g_zero_copy_ctx'[p].key \in [1..2 -> Keys]
  <2>1. ITypes'
    BY HeistTypes
  <2> QED BY <1>0, <2>1
\* Each of the four stores, as far as process p goes.
<1>6. /\ \/ heist[h].pc = "return"
            /\ heist'[h].pc = "key" /\ is_ready'[p] = is_ready[p]
            /\ g_zero_copy_ctx'[p].key[1] = m.key
            /\ g_zero_copy_ctx'[p].key[2] = g_zero_copy_ctx[p].key[2]
            /\ g_zero_copy_ctx'[p].sender = g_zero_copy_ctx[p].sender
         \/ heist[h].pc = "key"
            /\ heist'[h].pc = "iv" /\ is_ready'[p] = is_ready[p]
            /\ g_zero_copy_ctx'[p].key[2] = m.key
            /\ g_zero_copy_ctx'[p].key[1] = g_zero_copy_ctx[p].key[1]
            /\ g_zero_copy_ctx'[p].sender = g_zero_copy_ctx[p].sender
         \/ heist[h].pc = "iv"
            /\ heist'[h].pc = "ready" /\ is_ready'[p] = is_ready[p]
            /\ g_zero_copy_ctx'[p].key = g_zero_copy_ctx[p].key
            /\ g_zero_copy_ctx'[p].sender = m.sender
         \/ heist[h].pc = "ready"
            /\ heist'[h].pc = "return" /\ is_ready'[p] = TRUE
            /\ g_zero_copy_ctx'[p] = g_zero_copy_ctx[p]
  <2>1. CASE StealKey(h)
    BY <1>0, <2>1 DEF StealKey, p, m
  <2>2. CASE StashKeyEnd(h)
    BY <1>0, <2>2 DEF StashKeyEnd, p, m
  <2>3. CASE StashIv(h)
    BY <1>0, <2>3 DEF StashIv, p, m
  <2>4. CASE StashReady(h)
    BY <1>0, <2>4 DEF StashReady, p
  <2> QED BY <2>1, <2>2, <2>3, <2>4 DEF Heist
<1>7. \A g \in Handles : StashedBy(g)'
  <2> TAKE g \in Handles
  <2>1. CASE HandleProc[g] # p
    BY <1>0, <2>1 DEF ICoherent, StashedBy, p
  <2>2. CASE g = h
    BY <1>0, <1>1, <1>6, <2>2 DEF ICoherent, StashedBy, p, m
  <2>3. CASE HandleProc[g] = p /\ g # h
    <3>1. CASE heist[g].pc = "return"
      BY <1>0, <2>3, <3>1 DEF StashedBy
    <3>2. CASE heist[g].pc # "return"
      <4>1. g \in Stashers(p) /\ Stolen(g) = m
        BY <1>2, <2>3, <3>2 DEF ICoherent, StashedBy
      <4>2. StashedBy(g)
        BY DEF ICoherent
      <4> QED BY <1>0, <1>6, <2>3, <4>1, <4>2 DEF StashedBy
    <3> QED BY <3>1, <3>2
  <2> QED BY <2>1, <2>2, <2>3
<1>8. is_ready[p] =>
        g_zero_copy_ctx'[p].key = g_zero_copy_ctx[p].key
        /\ g_zero_copy_ctx'[p].sender = g_zero_copy_ctx[p].sender /\ is_ready'[p]
  <2> SUFFICES ASSUME is_ready[p]
               PROVE  g_zero_copy_ctx'[p].key = g_zero_copy_ctx[p].key
                      /\ g_zero_copy_ctx'[p].sender = g_zero_copy_ctx[p].sender /\ is_ready'[p]
    OBVIOUS
  <2>1. g_zero_copy_ctx[p].key = <<m.key, m.key>> /\ g_zero_copy_ctx[p].sender = m.sender
    BY <1>0, <1>4 DEF ICoherent
  <2>2. g_zero_copy_ctx[p].key[1] = m.key /\ g_zero_copy_ctx[p].key[2] = m.key
    BY <2>1
  <2>3. g_zero_copy_ctx'[p].key[1] = m.key
    BY <1>6, <2>2
  <2>4. g_zero_copy_ctx'[p].key[2] = m.key
    BY <1>6, <2>2
  <2>5. g_zero_copy_ctx'[p].sender = m.sender /\ is_ready'[p]
    BY <1>6, <2>1
  <2> QED BY <1>5, <2>1, <2>2, <2>3, <2>4, <2>5
<1>9. is_ready'[p] => Belong(p, g_zero_copy_ctx'[p].key, g_zero_copy_ctx'[p].sender)
  <2>1. CASE is_ready[p]
    BY <1>0, <1>8, <2>1 DEF ICoherent
  <2>2. CASE ~is_ready[p] /\ is_ready'[p]
    <3>1. heist[h].pc = "ready" /\ g_zero_copy_ctx'[p] = g_zero_copy_ctx[p]
      BY <1>6, <2>2
    <3>2. g_zero_copy_ctx[p].key[1] = m.key /\ g_zero_copy_ctx[p].key[2] = m.key
          /\ g_zero_copy_ctx[p].sender = m.sender
      BY <3>1 DEF ICoherent, StashedBy, p, m
    <3>3. g_zero_copy_ctx[p].key = <<m.key, m.key>>
      BY <1>5, <3>2
    <3> QED BY <1>3, <3>1, <3>2, <3>3
  <2> QED BY <2>1, <2>2
<1>10. \A q \in Procs : is_ready[q] => is_ready'[q] /\ g_zero_copy_ctx'[q].key = g_zero_copy_ctx[q].key
  BY <1>0, <1>8
<1>11. \A q \in Procs : is_ready'[q] => Belong(q, g_zero_copy_ctx'[q].key, g_zero_copy_ctx'[q].sender)
  BY <1>0, <1>9 DEF ICoherent
<1>12. /\ \A w \in Writers : tx'[w].pc = "init" =>
            is_ready'[Home[w]] /\ Belong(Home[w], g_zero_copy_ctx'[Home[w]].key, tx'[w].temp_iv[1])
       /\ \A r \in Readers : rx'[r].pc = "init" =>
            is_ready'[Home[r]] /\ Belong(Home[r], g_zero_copy_ctx'[Home[r]].key, rx'[r].temp_iv[1])
       /\ \A q \in Procs : g_fuse_active'[q] =>
            Belong(q, g_crypto_engine'[q].key, g_crypto_engine'[q].iv[1])
  BY <1>0, <1>10 DEF ICoherent, Threads
<1> QED BY <1>7, <1>11, <1>12, CoherentParts

\* Steps that neither stash nor open an engine.
LEMMA QuietCoherent ==
  ASSUME ICoherent, UNCHANGED <<heist, g_zero_copy_ctx, is_ready>>,
         \A p \in Procs : g_fuse_active'[p] =>
           /\ g_fuse_active[p]
           /\ g_crypto_engine'[p].key = g_crypto_engine[p].key
           /\ g_crypto_engine'[p].iv = g_crypto_engine[p].iv,
         \A w \in Writers : tx'[w].pc = "init" => tx'[w] = tx[w],
         \A r \in Readers : rx'[r].pc = "init" =>
           rx[r].pc = "init" /\ rx'[r].temp_iv = rx[r].temp_iv
  PROVE  ICoherent'
<1>1. \A w \in Writers : tx'[w].pc = "init" =>
        is_ready'[Home[w]] /\ Belong(Home[w], g_zero_copy_ctx'[Home[w]].key, tx'[w].temp_iv[1])
  BY DEF ICoherent
<1>2. \A r \in Readers : rx'[r].pc = "init" =>
        is_ready'[Home[r]] /\ Belong(Home[r], g_zero_copy_ctx'[Home[r]].key, rx'[r].temp_iv[1])
  BY DEF ICoherent
<1>3. \A p \in Procs : g_fuse_active'[p] =>
        Belong(p, g_crypto_engine'[p].key, g_crypto_engine'[p].iv[1])
  BY DEF ICoherent
<1> QED BY <1>1, <1>2, <1>3, StashKept, CoherentParts

\* Opening the engine with what a thread has taken from the context.
LEMMA OpensCoherent ==
  ASSUME ITypes, ICoherent, NEW p \in Procs, NEW iv, FuseInit(p, iv),
         Belong(p, g_zero_copy_ctx[p].key, iv[1])
  PROVE  \A q \in Procs : g_fuse_active'[q] =>
           Belong(q, g_crypto_engine'[q].key, g_crypto_engine'[q].iv[1])
<1>1. g_crypto_engine'[p].key = g_zero_copy_ctx[p].key /\ g_crypto_engine'[p].iv = iv
  BY DEF FuseInit, EngineInit, ITypes, TypeOK, EngineType
<1>2. \A q \in Procs \ {p} :
        g_crypto_engine'[q] = g_crypto_engine[q] /\ g_fuse_active'[q] = g_fuse_active[q]
  BY DEF FuseInit, ITypes, TypeOK, EngineType, GlobalsType
<1> QED BY <1>1, <1>2 DEF ICoherent

\* Absorbing a cell changes neither key nor IV.
LEMMA AbsorbKeeps ==
  ASSUME EngineType, NEW p \in Procs, NEW c,
         g_crypto_engine' = [g_crypto_engine EXCEPT ![p] = Absorb(@, c)]
  PROVE  \A q \in Procs : /\ g_crypto_engine'[q].key = g_crypto_engine[q].key
                          /\ g_crypto_engine'[q].iv = g_crypto_engine[q].iv
BY DEF EngineType, Absorb

LEMMA TxCoherent ==
  ASSUME ITypes, ICoherent, NEW w \in Writers, TxStep(w)
  PROVE  ICoherent'
<1> USE DEF ITypes, TypeOK
<1>0. Home[w] \in Procs
  BY HomeType DEF Threads
<1>1. CASE TxIgnite(w)
  <2>1. /\ UNCHANGED <<heist, g_zero_copy_ctx, is_ready, g_fuse_active, g_crypto_engine, rx>>
        /\ \A v \in Writers \ {w} : tx'[v] = tx[v]
        /\ tx'[w].pc = "init" =>
             is_ready[Home[w]] /\ tx'[w].temp_iv[1] = g_zero_copy_ctx[Home[w]].sender
    BY <1>1 DEF TxIgnite, TxType
  <2>2. \A v \in Writers : tx'[v].pc = "init" =>
          is_ready'[Home[v]] /\ Belong(Home[v], g_zero_copy_ctx'[Home[v]].key, tx'[v].temp_iv[1])
    BY <1>0, <2>1 DEF ICoherent
  <2> QED BY <2>1, <2>2, StashKept, CoherentParts DEF ICoherent
<1>2. CASE TxFuseInit(w)
  <2>1. /\ UNCHANGED <<heist, g_zero_copy_ctx, is_ready, rx>>
        /\ \A v \in Writers \ {w} : tx'[v] = tx[v]
        /\ tx[w].pc = "init" /\ tx'[w].pc = "crypt"
        /\ FuseInit(Home[w], tx[w].temp_iv)
    BY <1>2 DEF TxFuseInit, TxType
  <2>2. \A q \in Procs : g_fuse_active'[q] =>
          Belong(q, g_crypto_engine'[q].key, g_crypto_engine'[q].iv[1])
    BY <1>0, <2>1, OpensCoherent DEF ICoherent
  <2>3. \A v \in Writers : tx'[v].pc = "init" =>
          is_ready'[Home[v]] /\ Belong(Home[v], g_zero_copy_ctx'[Home[v]].key, tx'[v].temp_iv[1])
    BY <2>1 DEF ICoherent
  <2>4. \A q \in Readers : rx'[q].pc = "init" =>
          is_ready'[Home[q]] /\ Belong(Home[q], g_zero_copy_ctx'[Home[q]].key, rx'[q].temp_iv[1])
    BY <2>1 DEF ICoherent
  <2> QED BY <2>1, <2>2, <2>3, <2>4, StashKept, CoherentParts
<1>3. CASE TxEncryptBlock(w)
  <2>1. /\ UNCHANGED <<heist, g_zero_copy_ctx, is_ready, g_fuse_active, rx>>
        /\ \A v \in Writers : tx'[v].pc = "init" => tx'[v] = tx[v]
    BY <1>3 DEF TxEncryptBlock, TxType
  <2>2. \A q \in Procs : /\ g_crypto_engine'[q].key = g_crypto_engine[q].key
                         /\ g_crypto_engine'[q].iv = g_crypto_engine[q].iv
    BY <1>0, <1>3, AbsorbKeeps DEF TxEncryptBlock
  <2> QED BY <2>1, <2>2, QuietCoherent
<1>4. CASE TxFinalize(w) \/ TxWriteIv(w) \/ TxCopyBlock(w) \/ TxPublish(w)
  <2>1. /\ UNCHANGED <<heist, g_zero_copy_ctx, is_ready, g_crypto_engine>>
        /\ \A v \in Writers : tx'[v].pc = "init" => tx'[v] = tx[v]
        /\ \A q \in Procs : g_fuse_active'[q] => g_fuse_active[q]
    BY <1>4 DEF TxFinalize, TxWriteIv, TxCopyBlock, TxPublish, FuseDeactivate,
                globals, InitTx, TxType, GlobalsType
  <2>2. \A r \in Readers : rx'[r].pc = rx[r].pc /\ rx'[r].temp_iv = rx[r].temp_iv
    BY <1>4 DEF TxFinalize, TxWriteIv, TxCopyBlock, TxPublish, RxType
  <2> QED BY <2>1, <2>2, QuietCoherent
<1> QED BY <1>1, <1>2, <1>3, <1>4 DEF TxStep

LEMMA RxCoherent ==
  ASSUME ITypes, ICoherent, NEW r \in Readers, RxStep(r)
  PROVE  ICoherent'
<1> USE DEF ITypes, TypeOK
<1>0. Home[r] \in Procs
  BY HomeType DEF Threads
<1>1. CASE RxIgnite(r)
  <2>1. /\ UNCHANGED <<heist, g_zero_copy_ctx, is_ready, g_fuse_active, g_crypto_engine, tx>>
        /\ \A q \in Readers \ {r} : rx'[q] = rx[q]
        /\ rx'[r].pc = "init" =>
             is_ready[Home[r]] /\ rx'[r].temp_iv[1] = g_zero_copy_ctx[Home[r]].sender
    BY <1>1 DEF RxIgnite, RxType, globals
  <2>2. \A q \in Readers : rx'[q].pc = "init" =>
          is_ready'[Home[q]] /\ Belong(Home[q], g_zero_copy_ctx'[Home[q]].key, rx'[q].temp_iv[1])
    BY <1>0, <2>1 DEF ICoherent
  <2> QED BY <2>1, <2>2, StashKept, CoherentParts DEF ICoherent
<1>2. CASE RxFuseInit(r)
  <2>1. /\ UNCHANGED <<heist, g_zero_copy_ctx, is_ready, tx>>
        /\ \A q \in Readers \ {r} : rx'[q] = rx[q]
        /\ rx[r].pc = "init" /\ rx'[r].pc = "crypt"
        /\ FuseInit(Home[r], rx[r].temp_iv)
    BY <1>2 DEF RxFuseInit, RxType
  <2>2. \A q \in Procs : g_fuse_active'[q] =>
          Belong(q, g_crypto_engine'[q].key, g_crypto_engine'[q].iv[1])
    BY <1>0, <2>1, OpensCoherent DEF ICoherent
  <2>3. \A v \in Writers : tx'[v].pc = "init" =>
          is_ready'[Home[v]] /\ Belong(Home[v], g_zero_copy_ctx'[Home[v]].key, tx'[v].temp_iv[1])
    BY <2>1 DEF ICoherent
  <2>4. \A q \in Readers : rx'[q].pc = "init" =>
          is_ready'[Home[q]] /\ Belong(Home[q], g_zero_copy_ctx'[Home[q]].key, rx'[q].temp_iv[1])
    BY <2>1 DEF ICoherent
  <2> QED BY <2>1, <2>2, <2>3, <2>4, StashKept, CoherentParts
<1>3. CASE RxDecryptBlock(r)
  <2>1. /\ UNCHANGED <<heist, g_zero_copy_ctx, is_ready, g_fuse_active, tx>>
        /\ \A q \in Readers : rx'[q].pc = "init" => rx'[q] = rx[q]
    BY <1>3 DEF RxDecryptBlock, RxType
  <2>2. \A q \in Procs : /\ g_crypto_engine'[q].key = g_crypto_engine[q].key
                         /\ g_crypto_engine'[q].iv = g_crypto_engine[q].iv
    BY <1>0, <1>3, AbsorbKeeps DEF RxDecryptBlock
  <2> QED BY <2>1, <2>2, QuietCoherent
<1>4. CASE (\E w \in Writers : RxTake(r, w)) \/ RxVerify(r) \/ RxReturn(r)
  <2>1. /\ UNCHANGED <<heist, g_zero_copy_ctx, is_ready, g_crypto_engine, tx>>
        /\ \A q \in Readers : rx'[q].pc = "init" => rx'[q] = rx[q]
        /\ \A q \in Procs : g_fuse_active'[q] => g_fuse_active[q]
    <3>1. CASE \E w \in Writers : RxTake(r, w)
      BY <3>1 DEF RxTake, globals, InitRx, RxType
    <3>2. CASE RxVerify(r)
      BY <1>0, <3>2 DEF RxVerify, FuseDeactivate, RxType, GlobalsType
    <3>3. CASE RxReturn(r)
      BY <3>3 DEF RxReturn, globals, InitRx, RxType
    <3> QED BY <1>4, <3>1, <3>2, <3>3
  <2> QED BY <2>1, QuietCoherent
<1> QED BY <1>1, <1>2, <1>3, <1>4 DEF RxStep

LEMMA NextCoherent == OneMaterial /\ ITypes /\ ICoherent /\ [Next]_vars => ICoherent'
<1> SUFFICES ASSUME OneMaterial, ITypes, ICoherent, [Next]_vars PROVE ICoherent'
  OBVIOUS
<1>1. ASSUME NEW h \in Handles, Heist(h) PROVE ICoherent'
  BY <1>1, HeistCoherent
<1>2. ASSUME NEW w \in Writers, NEW n \in Lens, TxSerialize(w, n) PROVE ICoherent'
  <2>1. /\ UNCHANGED <<heist, g_zero_copy_ctx, is_ready, g_fuse_active, g_crypto_engine, rx>>
        /\ \A v \in Writers : tx'[v].pc = "init" => tx'[v] = tx[v]
    BY <1>2 DEF TxSerialize, globals, InitTx, ITypes, TypeOK, TxType
  <2> QED BY <2>1, QuietCoherent
<1>3. ASSUME NEW w \in Writers, TxStep(w) PROVE ICoherent'
  BY <1>3, TxCoherent
<1>4. ASSUME NEW r \in Readers, RxStep(r) PROVE ICoherent'
  BY <1>4, RxCoherent
<1>5. CASE Finished \/ UNCHANGED vars
  BY <1>5, QuietCoherent DEF Finished, vars, globals
<1> QED BY <1>1, <1>2, <1>3, <1>4, <1>5 DEF Next

\* The stores of the stash calls and the loads of the threads interleave as they
\* like (lines 77-93, 117-143, 296-312): as long as the handles of a process
\* bring one material, no operation runs with a key and a sender id of different
\* handles, or with half a key.
THEOREM CoherentEngines == OneMaterial => (Spec => []CoherentIgnition)
<1> SUFFICES ASSUME OneMaterial PROVE Spec => []CoherentIgnition
  OBVIOUS
<1>1. ICoherent => CoherentIgnition
  BY DEF ICoherent, CoherentIgnition, Belong, Stashers
<1> QED BY <1>1, InitCoherent, NextCoherent, TypesInvariant, PTL DEF Spec
=============================================================================
