SPECIFICATION FairSpec
CONSTANTS
  QueueSize = 2
  MaxItemIndex = 1
  MaxRun = 2
  MaxCall = 3
INVARIANTS
  InOrder
  NewestKept
PROPERTIES
  OfferKeepsRun
  NewestWritten
  CallsReturn
