CONSTANTS
  a = a
  b = b
  n1 = n1
  n2 = n2
  n3 = n3
  n4 = n4
  NULL = NULL
  Senders <- TwoSenders
  Nodes <- FourNodes
  Count = 2
SPECIFICATION FairSpec
INVARIANTS
  OneOwner
  NothingLeaks
  FetchNeverWaits
PROPERTIES
  ImplementsQueue
