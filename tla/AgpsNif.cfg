\* Three subscribers of agnss_nif or internet_nif, two of wifi_nif.
SPECIFICATION NFairSpec
CONSTANTS
  Ids = {"atl1", "atl2", "bit", "msapm", "quipc"}
  Waiters = {"msapm", "quipc"}
  MaxOutbox = 4
  MaxInFlight = 4
INVARIANTS ReleasedIsEmpty NobodyIsForgotten WaitIsAnswered AcquiredIsLeased
PROPERTIES ReleaseWhenUnused KeepsPromise Answered
