SPECIFICATION FairSpec
CONSTANTS
  Flows = {f1, f2, f3}
  None = none
  MTU = 1
  packet_weight = 1
  MaxTime = 5
  Word = 8
INVARIANTS TypeOK LagBounded
PROPERTIES OrderKept NoStarvation
