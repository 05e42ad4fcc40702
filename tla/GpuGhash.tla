------------------------------ MODULE GpuGhash ------------------------------
(***************************************************************************)
(* The two kernels of gpu_encryption/parallel_gcm.cu: every thread of the  *)
(* first enciphers a block and the threads of a thread block sum up their  *)
(* leaves by pairs; the second sums up what the thread blocks have left.   *)
(* A thread reads what others have written, in an order that nothing but   *)
(* the barriers fixes, so that each of its accesses is a step.             *)
(*                                                                         *)
(* Values are formal: a cell is a sum of products "ciphertext block times  *)
(* a power of H", a set of pairs <<block, power>>, so that what holds here *)
(* holds for every text and every H.                                       *)
(***************************************************************************)
EXTENDS Integers, FiniteSets, Sequences

CONSTANTS
    PassOneLevels,  \* 8 in the code: 256 threads in a thread block
    PassTwoLevels,  \* 11 in the code: 2048 partial sums
    Sizes           \* the numbers of blocks of text met

ASSUME GpuAssumption ==
    /\ PassOneLevels \in Nat \ {0} /\ PassTwoLevels \in Nat \ {0}
    /\ Sizes \subseteq Nat

\* 1 << n.
Pow2(n) == LET p[i \in 0..n] == IF i = 0 THEN 1 ELSE 2 * p[i - 1] IN p[n]

Threads  == Pow2(PassOneLevels)
Partials == Pow2(PassTwoLevels)

VARIABLES
    size,       \* blocks of text in d_data
    grid,       \* thread blocks of the first kernel that have not run yet
    kernel,     \* what runs: "none", "pass1", "pass2", or "over"
    blockIdx,   \* the thread block that runs
    passed,     \* passed[t]: the barriers thread t has come to
    shm,        \* shared memory
    temp,       \* temp[t]: the product thread t holds, or Empty
    masked,     \* masked[i]: the counters block i of the text was enciphered with
    partial,    \* out_partial
    final_mac

gpuVars == <<size, grid, kernel, blockIdx, passed, shm, temp, masked, partial, final_mac>>

-----------------------------------------------------------------------------
Empty == {}

\* What memory holds that nobody has written: one unknown per cell.
Garbage(i) == {<<-1 - i, 0>>}

Plus(a, b) == (a \ b) \cup (b \ a)

\* precompute_h_powers: each entry is the square of the one before.
h_pow(s) == LET p[i \in 0..s] == IF i = 0 THEN 1 ELSE 2 * p[i - 1] IN p[s]

TimesPower(a, power) == {<<x[1], x[2] + power>> : x \in a}

blocks_pass1(n) == n \div Threads

\* The levels of the tree a kernel reduces, its cells and its threads.
First == IF kernel = "pass1" THEN 0 ELSE PassOneLevels
Levels == IF kernel = "pass1" THEN PassOneLevels ELSE PassTwoLevels
Cells == IF kernel = "pass1" THEN Threads ELSE Partials
ThreadIdx == IF kernel = "pass1" THEN 0..Threads - 1
             ELSE IF kernel = "pass2" THEN 0..(Partials \div 2) - 1 ELSE {}

\* __syncthreads: thread t does what comes behind its last barrier when every
\* thread has come to it.
Synced(t) == \A u \in ThreadIdx : passed[u] >= passed[t]

-----------------------------------------------------------------------------
(* Launching.                                                              *)

Ready == /\ passed' = [t \in 0..Threads + Partials |-> 0]
         /\ temp' = [t \in 0..Threads + Partials |-> Empty]

\* Thread blocks share nothing they write: they run in any order, one at a time.
LaunchPass1(b) ==
    /\ kernel = "none" /\ b \in grid
    /\ kernel' = "pass1" /\ grid' = grid \ {b} /\ blockIdx' = b
    /\ shm' = [i \in 0..Threads - 1 |-> Garbage(i)]
    /\ Ready
    /\ UNCHANGED <<size, masked, partial, final_mac>>

\* The same stream: after the whole of the first kernel.
LaunchPass2 ==
    /\ kernel = "none" /\ grid = {} /\ final_mac = Empty
    /\ kernel' = "pass2" /\ blockIdx' = 0
    /\ shm' = [i \in 0..Partials - 1 |-> Garbage(i)]
    /\ Ready
    /\ UNCHANGED <<size, grid, masked, partial, final_mac>>

-----------------------------------------------------------------------------
(* Before the first barrier.                                               *)

\* Mutant: thread blocks count from zero each.
global_idx_local(t) == t

global_idx(t) == blockIdx * Threads + t

\* A block of text enciphered in place, and its product with H as a leaf.
Encrypt(t) ==
    /\ kernel = "pass1" /\ t \in ThreadIdx /\ passed[t] = 0
    /\ masked' = [masked EXCEPT ![global_idx(t)] = Append(@, 2 + global_idx(t))]
    /\ shm' = [shm EXCEPT ![t] = TimesPower({<<global_idx(t), 0>>}, h_pow(0))]
    /\ passed' = [passed EXCEPT ![t] = 1]
    /\ UNCHANGED <<size, grid, kernel, blockIdx, temp, partial, final_mac>>

\* Two partial sums fetched; there may be none in the memory read.
Fetched(i) == IF i \in DOMAIN partial THEN partial[i] ELSE Garbage(i)
Fetch(t) ==
    /\ kernel = "pass2" /\ t \in ThreadIdx /\ passed[t] = 0
    /\ LET u == t + Partials \div 2 IN
       shm' = [shm EXCEPT ![t] = Fetched(t), ![u] = Fetched(u)]
    /\ passed' = [passed EXCEPT ![t] = 1]
    /\ UNCHANGED <<size, grid, kernel, blockIdx, temp, masked, partial, final_mac>>

-----------------------------------------------------------------------------
(* One level of the tree after another.                                    *)

\* The level behind the barrier thread t has come to, and its pair of cells.
Level(t) == passed[t] - 1
stride(t) == Pow2(Level(t))
index(t) == 2 * stride(t) * t
AtLevel(t) == t \in ThreadIdx /\ passed[t] \in 1..Levels /\ Synced(t)

\* Mutant: the second kernel takes the first powers of H again.
PowerFromH(t) == h_pow(Level(t))

\* "first" of the second kernel is the level at which the first one has ended.
Power(t) == h_pow(First + Level(t))

Multiply(t) ==
    /\ AtLevel(t) /\ index(t) < Cells /\ temp[t] = Empty
    /\ temp' = [temp EXCEPT ![t] = TimesPower(shm[index(t)], Power(t))]
    /\ UNCHANGED <<size, grid, kernel, blockIdx, passed, shm, masked, partial, final_mac>>

WriteBack(t) ==
    /\ AtLevel(t) /\ index(t) < Cells /\ temp[t] # Empty
    /\ shm' = [shm EXCEPT ![index(t)] = Plus(temp[t], shm[index(t) + stride(t)])]
    /\ temp' = [temp EXCEPT ![t] = Empty]
    /\ passed' = [passed EXCEPT ![t] = @ + 1]
    /\ UNCHANGED <<size, grid, kernel, blockIdx, masked, partial, final_mac>>

\* A thread without a pair goes to the next barrier.
StandBy(t) ==
    /\ AtLevel(t) /\ index(t) >= Cells
    /\ passed' = [passed EXCEPT ![t] = @ + 1]
    /\ UNCHANGED <<size, grid, kernel, blockIdx, shm, temp, masked, partial, final_mac>>

\* Behind the last barrier thread 0 writes the result, and the kernel is over.
Exit ==
    /\ 0 \in ThreadIdx /\ passed[0] = Levels + 1 /\ Synced(0)
    /\ IF kernel = "pass1"
       THEN /\ partial' = [partial EXCEPT ![blockIdx] = shm[0]]
            /\ kernel' = "none"
            /\ UNCHANGED final_mac
       ELSE /\ final_mac' = shm[0]
            /\ kernel' = "over"
            /\ UNCHANGED partial
    /\ UNCHANGED <<size, grid, blockIdx, passed, shm, temp, masked>>

-----------------------------------------------------------------------------
GpuInit ==
    /\ size \in Sizes
    /\ grid = 0..blocks_pass1(size) - 1
    /\ kernel = "none" /\ blockIdx = 0
    /\ passed = <<>> /\ shm = <<>> /\ temp = <<>>
    /\ masked = [i \in 0..size - 1 |-> <<>>]
    /\ partial = [b \in 0..blocks_pass1(size) - 1 |-> Garbage(b)]
    /\ final_mac = Empty

Thread(t) == Encrypt(t) \/ Fetch(t) \/ Multiply(t) \/ WriteBack(t) \/ StandBy(t)

GpuNext ==
    \/ \E b \in grid : LaunchPass1(b)
    \/ LaunchPass2
    \/ \E t \in ThreadIdx : Thread(t)
    \/ Exit

GpuSpec == GpuInit /\ [][GpuNext]_gpuVars

-----------------------------------------------------------------------------
(* Properties.                                                             *)

\* GHASH of the first n blocks: block i times H to the n - i.
SerialGhash(n) == {<<i, n - i>> : i \in 0..n - 1}

\* However the threads are interleaved, the result is GHASH of the text if the
\* text fills the tree, and of no other text: what is left over below a thread
\* block or above the last partial sum is missing from it, and with fewer
\* thread blocks than partial sums it takes in memory nobody has written.
TreeIsGhash == kernel = "over" => (final_mac = SerialGhash(size) <=> size = Threads * Partials)

\* No block of text is enciphered twice, no two under one counter, and at the
\* end those of whole thread blocks have all been enciphered.
MaskedOnce ==
    /\ \A i \in DOMAIN masked : masked[i] \in {<<>>, <<i + 2>>}
    /\ kernel = "over" =>
           {i \in DOMAIN masked : masked[i] # <<>>} = 0..Threads * blocks_pass1(size) - 1
=============================================================================
