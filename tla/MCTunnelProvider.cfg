SPECIFICATION FairSpec
CONSTANTS
  Assertions = TRUE
  MaxStops = 2
INVARIANTS StopIsAnswered TunnelIsWatched
PROPERTIES StartIsAnswered StopEndsTunnel
CHECK_DEADLOCK FALSE
