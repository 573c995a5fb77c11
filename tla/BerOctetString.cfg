CONSTANTS
  SizeBits = 24
  Tags <- MCTags
  AllTags <- MCTags
  Subvariant = "BIT"
  Alphabet <- MCAlphabet
  MaxInput = 8
SPECIFICATION Spec
CONSTRAINT EndsWhenDecided
CONSTRAINT FewLengths
INVARIANT TypeOK
INVARIANT FramesNest
INVARIANT GotIsConsumed
PROPERTY ChunkIndependence
PROPERTY CallMakesProgress
CHECK_DEADLOCK FALSE
