CONSTANTS
  t1 = t1
  t2 = t2
  t3 = t3
  s1 = s1
  s2 = s2
  Tasks <- MCTasks
  Streams <- MCStreams
  Producer <- PollProducer
  Consumer <- PollConsumer
  Size <- PollSize
  Last <- PollLast
SPECIFICATION FairSpec
INVARIANTS
  ItemsInOrder
  NoLostWakeup
  PollReturnsReady
  NoUseAfterDestroy
PROPERTIES
  ImplementsPark
  WaiterServed
