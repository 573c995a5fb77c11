CONSTANTS
  FirstBuffer = 16
  FixedSizes <- MCFixedSizes
  Elements <- MCElements
  FirstExt = 3
SPECIFICATION Spec
INVARIANT FailureAbortsTheMission
CHECK_DEADLOCK FALSE
