SPECIFICATION Spec
CONSTANTS
  a = a
  b = b
  c = c
  Item <- MCItem
  BatchMax = 3
  BatchInput <- MCBatchInput
  Ttl = 1
  MaxRef = 3
  MaxTime = 2
SYMMETRY MCSymmetry
INVARIANTS
  OneBundlePerItem
  BundleNeedsNoneFit
  RejectedNeverDrafted
  QueueInOrder
  DecisionsKept
  ReplayNeverShadows
  AmendmentIsSafe
  CorrectionOrder
  Inductive
PROPERTIES
  WritesInTime
  GateSpec
