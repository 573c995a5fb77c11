CONSTANTS
  FirstBuffer = 16
  FixedSizes <- MCFixedSizes
  Elements <- MCElements
  FirstExt = 3
SPECIFICATION Spec
INVARIANT TypeOK
INVARIANT SelfDescribing
INVARIANT EncodedIsProduced
INVARIANT BufferIsPrefix
INVARIANT NewBufferIsWhole
CHECK_DEADLOCK FALSE
