SPECIFICATION FairSpec
CONSTANTS
  MaxHalf = 9
CHECK_DEADLOCK FALSE
INVARIANTS
  ShownOrQueued
PROPERTIES
  ReadIsShown
  EndsWithChild
