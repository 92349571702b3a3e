SPECIFICATION TimerFairSpec
CONSTANTS
  Stoppers = {"s1", "s2"}
INVARIANTS RecordIsSafe EarlyStopIsSilent
PROPERTY FiresUnlessStopped
CHECK_DEADLOCK FALSE
