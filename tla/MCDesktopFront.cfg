SPECIFICATION Spec
CONSTANTS
  bare = bare
  canonical = canonical
  s = s
  t = t
  Ticket <- MCTicket
  Canonical <- MCCanonical
  Text <- MCText
  MaxCalls = 3
  MaxMinted = 2
  MaxExternal = 1
  MaxDeaths = 1
SYMMETRY MCSymmetry
CHECK_DEADLOCK FALSE
INVARIANTS
  AnnouncedIsComplete
  OneBundlePerComparison
  SessionIsPending
PROPERTIES
  ReviewIsVouched
