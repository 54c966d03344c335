SPECIFICATION Spec
CONSTANTS
  a = a
  b = b
  Item <- MCItem
  BatchMax = 2
  BatchInput <- MCBatchInput
  Ttl = 1
  MaxRef = 2
  MaxTime = 0
INVARIANTS
  AmendsOwnSplit
