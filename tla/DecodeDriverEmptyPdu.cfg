CONSTANTS
  Syntaxes = {"oer"}
  BufSizes = {1}
  CHAR_BIT = 3
  MaxFile = 2
  MaxFiles = 2
SPECIFICATION FairSpec
PROPERTY FilesInTurn
CHECK_DEADLOCK FALSE
