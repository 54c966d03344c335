SPECIFICATION Spec
CONSTANTS
  bare = bare
  canonical = canonical
  s = s
  t = t
  Ticket <- MCTicket
  Canonical <- MCCanonical
  Text <- MCText
  MaxCalls = 2
  MaxMinted = 1
  MaxExternal = 1
  MaxDeaths = 0
SYMMETRY MCSymmetry
CHECK_DEADLOCK FALSE
PROPERTIES
  ReviewedTextIsApproved
