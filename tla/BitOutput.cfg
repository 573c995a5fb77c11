CONSTANTS
  TmpSpace = 5
  Few <- MCFew
  Many <- MCMany
  MaxStream = 90
SPECIFICATION Spec
INVARIANT TypeOK
INVARIANT WithinSpace
PROPERTY KeepsTheStream
CHECK_DEADLOCK FALSE
