CONSTANTS
  t1 = t1
  t2 = t2
  t3 = t3
  NULL = NULL
  Tasks <- MCTasks
  num_workers = 2
  Wrappers <- TwoWrappers
  Wrapped <- TwoWrapped
  Entry <- None
  Feeds <- NoFeeds
  InOrder = FALSE
  StopEarly = FALSE
  Budget <- B111
SPECIFICATION Spec
INVARIANTS
  FreeWrapperIdle
