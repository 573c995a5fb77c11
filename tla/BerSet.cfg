CONSTANTS
  SizeBits = 24
  Tags <- MCTags
  Elements <- MCElements
  FirstExt = 2
  Alphabet <- MCAlphabet
  MaxInput = 7
SPECIFICATION SetSpec
CONSTRAINT UndecidedButOne
INVARIANT SetTypeOK
INVARIANT MandatoryPresent
PROPERTY ChunkIndependence
PROPERTY CallMakesProgress
PROPERTY NeverOverwritten
CHECK_DEADLOCK FALSE
