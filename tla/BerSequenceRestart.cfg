CONSTANTS
  SizeBits = 24
  Tags <- MCTags
  Elements <- MCElementsClosed
  FirstExt <- MCNotExtensible
  Alphabet <- MCAlphabet
  MaxInput = 6
SPECIFICATION Spec
INVARIANT RestartAcceptsTheSame
CHECK_DEADLOCK FALSE
