\* One of the two modes, which are treated alike, and one name of a server.
SPECIFICATION Spec
CONSTANTS
  None = None
  Modes = {"MSB"}
  Servers = {"supl"}
  Targets = {"msm", "qca1530"}
  MaxCalls = 3
  MaxInbox = 2
  Restarts = 1
INVARIANTS ModemIsConfigured UlpAgrees OwnIsKept
CHECK_DEADLOCK FALSE
