SPECIFICATION Spec
CONSTANTS
  Families = {"plain"}
  Sentences <- SentenceSet
  About <- AboutTable
  Words <- WordSet
  Ellipsis = "..."
  MaxExcerpt = 3
  MaxExcerpts = 4
  MaxTotal = 12
  MaxRanked = 4
  MaxHits = 2
  AnchorScore = 2
  MaxCandidates = 2
  MaxObservations = 2
  Commands = {"run"}
  Gap = "gap"
  Reusable = {"A", "B", "C", "F"}
  Names <- NamesTable
  Confirming = {"helped"}
  Negating = {"sorry"}
  MaxShown = 3
  PerArticle = 2
  Tickets <- TicketSet
  Proposals <- Submitted
  Readiness = {"ready"}
  ExactAnswers <- ExactSet
  SearchAnswers <- SearchSet
  Outcomes = {"reuse", "update", "none_fit", "need_more_evidence"}
INVARIANT NamedArticleFirst
CHECK_DEADLOCK FALSE
