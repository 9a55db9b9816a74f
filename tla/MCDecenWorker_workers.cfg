CONSTANTS
  t1 = t1
  t2 = t2
  t3 = t3
  NULL = NULL
  Tasks <- MCTasks
  num_workers = 2
  Wrappers <- MCWrappers
  Home <- WrapperHome
  Prio <- MCPrio
  NumPrio = 2
  Mechanisms = {"none"}
  Budget = 1
  StopEarly = TRUE
SPECIFICATION FairSpec
INVARIANTS
  OneThreadPerStack
  WokenTaskIsBlocked
  NoTaskLost
  NothingLeftBehind
PROPERTIES
  ImplementsPark
  Shutdown
