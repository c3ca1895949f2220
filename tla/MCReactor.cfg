SPECIFICATION FairSpec
CONSTANTS
  t1 = t1
  t2 = t2
  Jobs = {a, b}
  Marks = {m1, m2}
  Event = event
  MaxDepth = 3
  Timers = {t1, t2}
  Interval <- MCInterval
  MaxResults = 1
  MaxAdjusted = 1
INVARIANTS WellNested TimersKeepTime
PROPERTIES SyncRunsAll TimersFire
