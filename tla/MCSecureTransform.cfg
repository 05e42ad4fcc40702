CONSTANTS
  Nil = Nil
  Zero = Zero
  Junk = Junk
  A = A
  B = B
  w = w
  v = v
  r = r
  q = q
  Participants = {A, B}
  Writers = {w, v}
  Readers = {r, q}
  Home <- MCHome
  Matched <- MCMatched
  Kinds <- MCKinds
  OriginAuth = {w, v, r, A, B}
  Thunked = {w}
  max_blocks_per_session = 2
  Pieces = 2
  PayloadSizes <- MCPayloadSizes
  Bodies <- MCBodies
  OneThread = TRUE
  Turns <- MCTurns
  Introduced <- MCIntroduced
  MaxPayloads = 2
  MaxMessages = 4
  MaxVersions = 2
SPECIFICATION Spec
INVARIANTS
  TypeOK
  SessionBlocks
  MacsCurrent
  Opens
  AcceptedIsGenuine
  Routed
  SentAsWritten
  NothingRefused
