SPECIFICATION MCSpec
CONSTANTS
  Threads = {t1, t2}
  MaxChanges = 1
  MaxBatch = 5
  MaxCount = 4
  Slots = 2
  MaxPublished = 5
  MaxFails = 2
INVARIANTS
  OneAtATime
  AnswerMatchesPolicy
  ResultTellsTheRing
  EveryEventIsAccountedFor
PROPERTY EveryCallReturns
