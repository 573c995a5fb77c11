CONSTANTS
  SizeBits = 24
  Tags <- MCTags
  Elements <- MCElements
  FirstExt = 2
  Alphabet <- MCAlphabet
  MaxInput = 10
SPECIFICATION Spec
CONSTRAINT UndecidedButOne
CONSTRAINT FewLengths
CONSTRAINT NoRestartBetweenTags
INVARIANT TypeOK
INVARIANT LengthsExact
INVARIANT MandatoryPresent
PROPERTY ChunkIndependence
PROPERTY CallMakesProgress
PROPERTY FrameNeverMoves
CHECK_DEADLOCK FALSE
