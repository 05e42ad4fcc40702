---------------------------- MODULE MCTopologies ----------------------------
(***************************************************************************)
(* Ways to place DataWriters and DataReaders in processes other than the   *)
(* benchmark's.  Each writer has a protected handle in its own process     *)
(* (h1, h2), and one where it is a remote writer (h1At, h2At).             *)
(***************************************************************************)
EXTENDS ZeroCopyCrypto, TLC

CONSTANTS
  pA, pB, pC,          \* processes
  w1, w2, r1,          \* threads
  h1, h2, h1At, h2At,  \* the writers' handles at home, and where they are remote
  k1, k2, s1, s2       \* their keys and sender ids

Of(k, s) == <<[key |-> k, sender |-> s]>>

Once(hs)      == [h \in hs |-> 1]
Protected(hs) == [h \in hs |-> TRUE]
Local         == h1 :> Of(k1, s1) @@ h2 :> Of(k2, s2)

\* One application with two DataWriters and so two threads that write.
TwoWritersHome       == w1 :> pA @@ w2 :> pA
TwoWritersHandleProc == h1 :> pA @@ h2 :> pA
TwoWritersMatched    == << >>
TwoWritersMaterial   == Local
TwoWritersProtected  == Protected({h1, h2})
TwoWritersOnce       == Once({h1, h2})

\* Two publisher processes, and a subscriber process that reads from both.
TwoPublishersHome       == w1 :> pA @@ w2 :> pB @@ r1 :> pC
TwoPublishersHandleProc == h1 :> pA @@ h2 :> pB @@ h1At :> pC @@ h2At :> pC
TwoPublishersMatched    == r1 :> {w1, w2}
TwoPublishersMaterial   == Local @@ h1At :> Of(k1, s1) @@ h2At :> Of(k2, s2)
TwoPublishersProtected  == Protected({h1, h2, h1At, h2At})
TwoPublishersOnce       == Once({h1, h2, h1At, h2At})

\* Process A writes with w1 and also reads what process B writes with w2.
BothWaysHome       == w1 :> pA @@ w2 :> pB @@ r1 :> pA
BothWaysHandleProc == h1 :> pA @@ h2 :> pB @@ h2At :> pA
BothWaysMatched    == r1 :> {w2}
BothWaysMaterial   == Local @@ h2At :> Of(k2, s2)
BothWaysProtected  == Protected({h1, h2, h2At})
BothWaysOnce       == Once({h1, h2, h2At})

\* The subscriber registers two remote writers; only the first one writes.
TwoRemotesHome       == w1 :> pA @@ r1 :> pC
TwoRemotesHandleProc == h1 :> pA @@ h1At :> pC @@ h2At :> pC
TwoRemotesMatched    == r1 :> {w1}
TwoRemotesMaterial   == h1 :> Of(k1, s1) @@ h1At :> Of(k1, s1) @@ h2At :> Of(k2, s2)
TwoRemotesProtected  == Protected({h1, h1At, h2At})
TwoRemotesOnce       == Once({h1, h1At, h2At})
=============================================================================
