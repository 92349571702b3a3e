SPECIFICATION Spec
CONSTANTS
  Adapters = {a, b, c}
  Events = {"position", "nmea", "status"}
  mExcludedMask = {"status"}
  MAX_ADAPTERS = 2
  Restarts = 2
  MaxInbox = 2
  a = a
  b = b
  c = c
SYMMETRY Symmetry
INVARIANT HandleMatchesTable
PROPERTY OnlyDeletedLeave
