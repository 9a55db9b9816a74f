CONSTANTS
  Prod = Prod
  Relay = Relay
  Coll = Coll
  x = x
  y = y
  z = z
  px = px
  rx = rx
  ry = ry
  cy = cy
  d5 = d5
  d6 = d6
  w1 = w1
  NULL = NULL
  Streams <- MCStreams
  Descs <- MCDescs
  Workers <- OneWorker
  Size = 1
  Last <- MCLast
  Sources <- EitherSource
SPECIFICATION FairSpec
INVARIANTS
  ItemsInOrder
  InUse
  EntryBounded
PROPERTIES
  ImplementsPark
  WaiterServed
