SPECIFICATION Spec
CONSTANTS
  MaxRequests = 2
INVARIANT ResetIsSilent
CHECK_DEADLOCK FALSE
