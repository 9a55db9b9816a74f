CONSTANTS
  d1 = d1
  d2 = d2
  d3 = d3
  d4 = d4
  t1 = t1
  t2 = t2
  t3 = t3
  NULL = NULL
  NIL = NIL
  Descs <- MCDescs
  Tasks <- MCTasks
SPECIFICATION Spec
INVARIANTS
  RingHoldsSet
  VisitsEach
  LinksHoldQueue
