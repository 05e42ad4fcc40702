CONSTANTS
  Nil = Nil
  Zero = Zero
  Junk = Junk
  A = A
  B = B
  w = w
  v = v
  r = r
  q = q
  Participants = {A, B}
  Writers = {w, v}
  Readers = {r, q}
  Home <- MCHome
  Matched <- MCMatched
  Kinds <- MCKinds
  OriginAuth = {w, v, r, A, B}
  Thunked = {w}
  max_blocks_per_session = 2
  Pieces = 2
  PayloadSizes <- MCPayloadSizes
  Bodies <- MCBodies
  OneThread = FALSE
  Turns <- MCTurns
  Introduced <- MCIntroduced
  MaxPayloads = 2
  MaxMessages = 2
  MaxVersions = 2
SPECIFICATION Spec
INVARIANT ControlStaysPlain
