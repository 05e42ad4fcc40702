------------------------------ MODULE GcmTerms ------------------------------
(***************************************************************************)
(* AES-GCM as the fused engine computes it, with ideal primitives: a       *)
(* ciphertext block names the keystream block it was made with, and a tag  *)
(* names everything GHASH absorbed.  Two terms are equal exactly when the  *)
(* bytes are, so a block opens only under its own key, IV and counter, and *)
(* a tag verifies only over the very blocks it was computed from.          *)
(* Everything that can stand in a 16-byte cell of a shared-memory chunk is *)
(* a record with a "kind".                                                 *)
(***************************************************************************)
EXTENDS Integers, Sequences

CONSTANTS
  Nil,     \* no key, no sender: the zero bytes of a context nobody stashed into
  Zero,    \* sixteen zero bytes, what memset leaves in a sample
  Junk     \* a block decrypted with a keystream it was not made with

\* A cell nothing has been written to.
Blank == [kind |-> "blank"]

\* Sixteen bytes of plaintext copied as they are.
Raw(pt) == [kind |-> "raw", pt |-> pt]

\* The plaintext block pt under the ctr-th keystream block of (key, iv).
Ct(key, iv, ctr, pt) ==
  [kind |-> "ct", key |-> key, iv |-> iv, ctr |-> ctr, pt |-> pt]

\* The tag over the absorbed cells body and the payload length len.
Mac(key, iv, len, body) ==
  [kind |-> "mac", key |-> key, iv |-> iv, len |-> len, body |-> body]

\* The eight bytes of the explicit IV counter.
IvCell(n) == [kind |-> "iv", n |-> n]

\* What XOR with the ctr-th keystream block of (key, iv) makes of a cell.
Decrypt(key, iv, ctr, cell) ==
  IF cell.kind = "ct" /\ cell.key = key /\ cell.iv = iv /\ cell.ctr = ctr
  THEN cell.pt
  ELSE Junk

-----------------------------------------------------------------------------

\* The engine's state: round keys and H (as the key they come from), J0 (as
\* the IV), the next counter block, the cells absorbed so far, and the payload
\* length the wrapper keeps beside it.
IdleEngine == [key |-> <<Nil, Nil>>, iv |-> <<Nil, Blank>>,
               ctr |-> 1, hash |-> << >>, len |-> 0]

\* Mutant: a key found in the cache makes init return before it clears the hash.
EngineInitCached(e, key, iv) ==
  IF e.key = key THEN [e EXCEPT !.iv = iv, !.ctr = 1]
  ELSE [e EXCEPT !.key = key, !.iv = iv, !.ctr = 1, !.hash = << >>]

\* init: key schedule and H of the key, J0 of the IV, counter at its first
\* data block, empty hash.  The payload length belongs to the wrapper.
EngineInit(e, key, iv) ==
  [e EXCEPT !.key = key, !.iv = iv, !.ctr = 1, !.hash = << >>]

\* Mutant: the block is encrypted but not accumulated into the hash.
AbsorbNothing(e, cell) == [e EXCEPT !.ctr = @ + 1, !.len = @ + 1]

\* One ciphertext block absorbed, the counter and the payload length advanced.
Absorb(e, cell) ==
  [e EXCEPT !.ctr = @ + 1, !.hash = Append(@, cell), !.len = @ + 1]

\* finalize: the tag of what has been absorbed.
EngineTag(e) == Mac(e.key, e.iv, e.len, e.hash)
=============================================================================
