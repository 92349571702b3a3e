SPECIFICATION Spec
CONSTANTS
  Recurrences = {"single", "periodic"}
  Modes = {"STANDALONE"}
  Fixes = {"intermediate", "coarse", "final", "cell", "failure"}
  Results = {"SUCCESS", "OFFLINE", "GENERAL"}
  Aids = {"ephemeris"}
  AcceptIntermediate = TRUE
  Restarts = 2
  Mutes = TRUE
  MaxInbox = 4
  MaxBefore = 1
INVARIANTS FrameworkAgrees MutedForSession DeletedWhenOff ModemAgrees NmeaAgrees
