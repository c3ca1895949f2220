CONSTANTS
  Conns = {c1, c2}
  Limit = 2
  MaxResults = 3
SPECIFICATION FairSpec
INVARIANTS Operations RemovedIsCleared EventIsHeeded
PROPERTY TurnEnds
CHECK_DEADLOCK FALSE
