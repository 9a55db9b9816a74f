CONSTANTS
  t1 = t1
  t2 = t2
  t3 = t3
  NULL = NULL
  Tasks <- MCTasks
  num_workers = 2
  Wrappers <- NoWrappers
  Wrapped <- None
  Entry <- OneEntry
  Feeds <- OneFeeds
  InOrder = TRUE
  StopEarly = FALSE
  Budget <- B201
SPECIFICATION FairSpec
INVARIANTS
  OneThreadPerStack
  StateAsExpected
  NoTaskLost
  OneRequestPerWorker
  WorkConserving
PROPERTIES
  ImplementsPark
  Shutdown
