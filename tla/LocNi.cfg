SPECIFICATION FairSpec
CONSTANTS
  MaxRequests = 2
INVARIANTS OneOwner SilenceMeansEmergency AwaitsUser
PROPERTIES NoLeak ThreadsExit
CHECK_DEADLOCK FALSE
