SPECIFICATION Spec
CONSTANTS
  w1 = w1
  w2 = w2
  m1 = m1
  m2 = m2
  Workers = {w1, w2}
  Masters = {m1, m2}
  nBatchSize = 2
  Batches <- AllBatches
  NoThread = NoThread
  NoResult = NoResult
  MaxSessions = 2
  MaxChecks = 4
INVARIANTS
  CompleteIsExact
  TodoIsPending
  CountsAreThreads
PROPERTIES
  CompleteReturns
  DestructorReturns
