CONSTANTS
  Schedules <- MCSchedules
  Aes <- MCAes
  PassOneLevels = 2
  PassTwoLevels = 3
  Sizes = {3, 13, 32, 33, 36}
SPECIFICATION Spec
INVARIANTS
  HashIsGhash
  OpensInAnySteps
  ProductsAgree
  TreeIsGhash
  MaskedOnce
