SPECIFICATION DmnFairSpec
CONSTANTS
  Daemons = {"QUIPC", "GPSONE_DAEMON"}
  MaxRequests = 3
INVARIANT LaunchIsSound
PROPERTIES LaunchReturns StopsAndJoins RequestsAreServed
\* The server may wait for ever, or both threads be done.
CHECK_DEADLOCK FALSE
