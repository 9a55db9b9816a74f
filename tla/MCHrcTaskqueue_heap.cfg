CONSTANTS
  a = a
  b = b
  c = c
  d = d
  Tasks <- MCTasks
  Entry <- MCEntry
  Exit <- MCExit
  Location <- MCLocation
  Random <- MCRandom
  Confs <- MCConfs
  MaxRec = 2
  Unit = 36
  DBL_MAX = 100000
  INT_MAX = 1000
SPECIFICATION Spec
INVARIANTS
  HoldsEachOnce
  ValidHead
  PeekIsHighest
