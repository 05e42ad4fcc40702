------------------------------ MODULE MCGhash ------------------------------
(***************************************************************************)
(* The two engines that compute GHASH by other means than block by block.  *)
(* They do not meet: a behaviour is one of the ARM engine or of the GPU.   *)
(***************************************************************************)
EXTENDS GhashEngine, GpuGhash

\* Blocks with many bits, one per number; AES is one of them per counter.
Scattered(n) == {((i * i * 7 + i * n * 3 + n * n) % 128) : i \in 0..90 + n}
MCAes(h, c) == Xor(Scattered(5 * c + 3), IF 7 \in h THEN {c, 2 * c} ELSE {})

HashKey1 == Scattered(1)
HashKey2 == Scattered(2)

\* 13 blocks and 5 bytes, so that every step fits in several places; a message
\* of additional data and a tail only; one with neither tail nor padding.
Long(hk) == [h |-> hk, aad |-> <<Scattered(11), Scattered(12)>>, aad_len |-> 19,
             text |-> [i \in 1..14 |-> Scattered(20 + i)], text_len |-> 213]
Short(hk) == [h |-> hk, aad |-> <<Scattered(13)>>, aad_len |-> 16,
              text |-> <<Scattered(17)>>, text_len |-> 15]
Wide(hk) == [h |-> hk, aad |-> <<>>, aad_len |-> 0,
             text |-> [i \in 1..12 |-> Scattered(40 + i)], text_len |-> 192]
OneBit(i) == [h |-> {i}, aad |-> <<>>, aad_len |-> 0, text |-> <<{}>>, text_len |-> 16]

\* Keys that stay and keys that change between messages; and all single bits.
MCSchedules ==
    {<<Long(HashKey1), Short(HashKey1)>>, <<Short(HashKey2), Wide(HashKey1)>>}
        \cup {<<OneBit(i)>> : i \in Bits}

CpuIdle ==
    /\ todo = <<>> /\ tx = Unused /\ rx = Unused
    /\ cipher = <<>> /\ plain = <<>> /\ out_tag = NoTag
GpuIdle ==
    /\ size = 0 /\ grid = {} /\ kernel = "unused" /\ blockIdx = 0
    /\ passed = <<>> /\ shm = <<>> /\ temp = <<>>
    /\ masked = <<>> /\ partial = <<>> /\ final_mac = Empty

Init == (CpuInit /\ GpuIdle) \/ (GpuInit /\ CpuIdle)

\* Both have come to their end.
Finished == CpuDone /\ kernel \in {"over", "unused"} /\ UNCHANGED <<cpuVars, gpuVars>>

Next ==
    \/ CpuNext /\ UNCHANGED gpuVars
    \/ GpuNext /\ UNCHANGED cpuVars
    \/ Finished

Spec == Init /\ [][Next]_<<cpuVars, gpuVars>>

\* The product of the narrower engines is not that of GCM: for the hash keys
\* above it differs from it, and the four-way engine hashes four blocks at
\* once to something else than one after another.
ASSUME NarrowDiffers ==
    \A hk \in {HashKey1, HashKey2} :
        /\ gf_mul_narrow(Scattered(3), hk) # Times(Scattered(3), hk)
        /\ LET blocks == [i \in 1..4 |-> Scattered(20 + i)] IN
           process_64bytes_narrow(hk, blocks) # process_16bytes_narrow(hk, blocks)
=============================================================================
