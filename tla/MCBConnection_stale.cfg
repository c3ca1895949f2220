CONSTANTS
  Conns = {c1, c2}
  Limit = 2
  MaxResults = 3
SPECIFICATION Spec
INVARIANT DispatchedIsActive
CHECK_DEADLOCK FALSE
