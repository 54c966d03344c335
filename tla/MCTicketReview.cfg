SPECIFICATION Spec
CONSTANTS
  Families = {"plain", "cited", "copies", "two", "broken"}
  Sentences <- SentenceSet
  About <- AboutTable
  Words <- WordSet
  Ellipsis = "..."
  MaxExcerpt = 3
  MaxExcerpts = 4
  MaxTotal = 12
  MaxRanked = 4
  MaxHits = 2
  AnchorScore = 2
  MaxCandidates = 2
  MaxObservations = 2
  Commands = {"run"}
  Gap = "gap"
  Reusable = {"A", "B", "C", "F"}
  Names <- NamesTable
  Confirming = {"helped"}
  Negating = {"sorry"}
  MaxShown = 3
  PerArticle = 2
  Tickets <- TicketSet
  Proposals <- Submitted
  Readiness = {"ready", "unreachable", "invalid", "cold"}
  ExactAnswers <- ExactSet
  SearchAnswers <- SearchSet
  Outcomes = {"reuse", "update", "none_fit", "need_more_evidence"}
INVARIANTS
  EligibleTurnsComplete
  LabelledNotDisplaced
  EntryNotSupportOnly
  SetAsideIsDuplicate
  DisplayedOnceEach
  NamedIsOnTicket
CHECK_DEADLOCK FALSE
