SPECIFICATION Spec
CONSTANTS
  a = a
  b = b
  Item <- MCItem
  BatchMax = 2
  BatchInput <- MCBatchInput
  Ttl = 2
  MaxRef = 3
  MaxTime = 3
PROPERTIES
  DraftIsReplayable
