------------------------- MODULE MCSecureTransform -------------------------
(***************************************************************************)
(* Two processes.  A has the writer w of the benchmark's type, protected   *)
(* with one AES-256 key, and a conventional writer v with a key for its    *)
(* submessages and an authenticated-only one for its payloads; B has a     *)
(* reader of each.                                                         *)
(***************************************************************************)
EXTENDS SecureTransform

CONSTANTS A, B, w, v, r, q

MCHome == [e \in {w, v, r, q} |-> IF e \in {w, v} THEN A ELSE B]
MCMatched == {<<w, r>>, <<v, q>>}
MCKinds == [s \in {w, v, r, q, A, B} |->
              CASE s = w -> <<"aes256_gcm">>
                [] s = v -> <<"aes128_gcm", "aes256_gmac">>
                [] s = r -> <<"aes128_gmac">>
                [] s = q -> <<"aes128_gcm">>
                [] s = A -> <<"aes256_gmac">>
                [] s = B -> <<"aes256_gcm">>]
MCIntroduced == {<<r, w>>, <<v, q>>, <<q, v>>, <<A, B>>, <<B, A>>}

\* How often each protects a submessage or an RTPS message.
MCTurns == [s \in {w, v, r, q, A, B} |-> CASE s = w -> 3 [] s = r -> 1 [] s = A -> 3 [] OTHER -> 0]

\* A multiple of four and not; one submessage, and two with padding between.
MCPayloadSizes == {8, 9}
MCBodies == {<<5>>, <<5, 3>>}
=============================================================================
