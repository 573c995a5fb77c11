CONSTANTS
  CHAR_BIT = 3
  MaxFragments = 1
  SmallBits = 2
  Root <- MCRoot
  Additions <- MCAdditions
  MaxMessages = 2
  MaxBeforeCut = 0
SPECIFICATION Spec
INVARIANT TypeOK
INVARIANT InStep
PROPERTY Understanding
PROPERTY AllReceived
CHECK_DEADLOCK FALSE
