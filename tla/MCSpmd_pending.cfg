CONSTANTS
  t1 = t1
  t2 = t2
  t3 = t3
  NULL = NULL
  Tasks <- ThreeTasks
  Home <- SharedHomes
  num_workers = 2
  Budget = 1
SPECIFICATION Spec
INVARIANT NeverAborts
