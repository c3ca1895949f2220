SPECIFICATION FairSpec
CONSTANTS
  l1 = l1
  l2 = l2
  r1 = r1
  r2 = r2
  Traffic <- MCTraffic
  Lengths <- MCLengths
  MaxBatch = 3
  Capacity = 6
  PipeBuf = 3
  MTU = 3
  Locals = {l1, l2}
  Remotes = {r1, r2}
  MaxAnswers = 2
  Nobody = nobody
INVARIANTS FramesIntact AnswerToLastSender
PROPERTIES AllReceived LoopGoesOn AnswersAreWritten
