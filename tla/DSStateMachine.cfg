SPECIFICATION FairSpec
CONSTANTS
  Ids = {a, b, c}
  Stays = {c}
  Results = {"SUCCESS", "BUSY", "UNSUPPORTED", "OTHER"}
  MaxRetries = 4
  MaxInbox = 3
  MaxTimers = 2
  a = a
  b = b
  c = c
INVARIANTS CallMatchesMachine OpenIsServed
PROPERTY Answered
CHECK_DEADLOCK FALSE
