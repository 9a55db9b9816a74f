CONSTANTS
  t1 = t1
  t2 = t2
  t3 = t3
  NULL = NULL
  Tasks <- MCTasks
  num_workers = 2
  Wrappers <- NoWrappers
  Home <- SharedHome
  Prio <- MCPrio
  NumPrio = 2
  Mechanisms = {"rand", "wait_prop"}
  Budget = 1
  StopEarly = FALSE
SPECIFICATION Spec
INVARIANTS
  Accounted
