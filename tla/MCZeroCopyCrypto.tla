-------------------------- MODULE MCZeroCopyCrypto --------------------------
(***************************************************************************)
(* The benchmark of the data-sharing module: a publisher process with one  *)
(* DataWriter and a subscriber process with one DataReader.  The publisher *)
(* registers two writer handles: the payload-protected one, and one whose  *)
(* payload is not protected; the subscriber registers the remote writer.   *)
(***************************************************************************)
EXTENDS ZeroCopyCrypto, TLC

CONSTANTS pub, sub, w1, r1, hTx, hOpen, hRx, kEntity, kPayload, kOpen, sEntity, sPayload, sOpen

MCHome    == w1 :> pub @@ r1 :> sub
MCMatched == r1 :> {w1}

\* A protected writer's key materials: the entity's, then the payload's.
OfW1   == <<[key |-> kEntity, sender |-> sEntity], [key |-> kPayload, sender |-> sPayload]>>
OfOpen == <<[key |-> kOpen, sender |-> sOpen]>>

MCHandleProc      == hTx :> pub @@ hOpen :> pub @@ hRx :> sub
MCHandleMaterial  == hTx :> OfW1 @@ hOpen :> OfOpen @@ hRx :> OfW1
MCHandleProtected == hTx :> TRUE @@ hOpen :> FALSE @@ hRx :> TRUE
MCStashCalls      == hTx :> 2 @@ hOpen :> 1 @@ hRx :> 1
=============================================================================
