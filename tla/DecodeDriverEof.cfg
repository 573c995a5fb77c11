CONSTANTS
  Syntaxes = {"ber", "per"}
  BufSizes = {1, 2}
  CHAR_BIT = 3
  MaxFile = 4
  MaxFiles = 1
SPECIFICATION Spec
INVARIANT EofOnlyAtEnd
CHECK_DEADLOCK FALSE
