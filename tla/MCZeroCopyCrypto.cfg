CONSTANTS
  Nil = Nil
  Zero = Zero
  Junk = Junk
  pub = pub
  sub = sub
  w1 = w1
  r1 = r1
  hTx = hTx
  hOpen = hOpen
  hRx = hRx
  kEntity = kEntity
  kPayload = kPayload
  kOpen = kOpen
  sEntity = sEntity
  sPayload = sPayload
  sOpen = sOpen
  Procs = {pub, sub}
  Writers = {w1}
  Readers = {r1}
  Handles = {hTx, hOpen, hRx}
  Home <- MCHome
  Matched <- MCMatched
  HandleProc <- MCHandleProc
  HandleMaterial <- MCHandleMaterial
  HandleProtected <- MCHandleProtected
  StashCalls <- MCStashCalls
  Lens = {0, 1, 2}
  MaxLen = 2
  MaxFrames = 2
SPECIFICATION FairSpec
INVARIANTS
  TypeOK
  DeliveredCurrent
  NoncesUnique
  SealedAtRest
  NoPlaintextOnceArmed
  CoherentIgnition
PROPERTIES
  ImplementsChannel
  LastSampleArrives
