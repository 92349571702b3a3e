\* Sessions for one fix.
SPECIFICATION Spec
CONSTANTS
  Recurrences = {"single"}
  Modes = {"STANDALONE"}
  Fixes = {"intermediate", "final"}
  Results = {"SUCCESS"}
  Aids = {"ephemeris"}
  AcceptIntermediate = TRUE
  Restarts = 0
  Mutes = FALSE
  MaxInbox = 4
  MaxBefore = 1
INVARIANT AutonomousIsSaid
