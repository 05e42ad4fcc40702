CONSTANTS
  Nil = Nil
  Zero = Zero
  Junk = Junk
  pA = pA
  pB = pB
  pC = pC
  w1 = w1
  w2 = w2
  r1 = r1
  h1 = h1
  h2 = h2
  h1At = h1At
  h2At = h2At
  k1 = k1
  k2 = k2
  s1 = s1
  s2 = s2
  Procs = {pA, pC}
  Writers = {w1}
  Readers = {r1}
  Handles = {h1, h1At, h2At}
  Home <- TwoRemotesHome
  Matched <- TwoRemotesMatched
  HandleProc <- TwoRemotesHandleProc
  HandleMaterial <- TwoRemotesMaterial
  HandleProtected <- TwoRemotesProtected
  StashCalls <- TwoRemotesOnce
  Lens = {1}
  MaxLen = 1
  MaxFrames = 1
SPECIFICATION FairSpec
PROPERTY LastSampleArrives
