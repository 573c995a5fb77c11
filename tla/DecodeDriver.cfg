CONSTANTS
  Syntaxes = {"ber", "oer", "xer", "per", "nopad"}
  BufSizes = {1, 2}
  CHAR_BIT = 3
  MaxFile = 6
  MaxFiles = 2
SPECIFICATION FairSpec
INVARIANT TypeOK
INVARIANT ContentIntact
INVARIANT WithinAllocation
INVARIANT NeverAhead
PROPERTY Terminates
CHECK_DEADLOCK FALSE
