SPECIFICATION Spec
CONSTANTS
  Texts = {"cause", "fix", "other", "steps"}
  NoText = "no text"
  Inherit = "inherit"
  MaxListItems = 3
  ItemIds = {"a", "b", "spaced"}
  StepsText = "steps"
  CliInputs <- MCCliInputs
  Items <- MCItems
  Answers <- MCAnswers
  Summaries <- MCSummaries
  NoReuse <- Searched
INVARIANTS
  ArticleIsGrounded
  RunPacketConsistent
  SplitAgreesWithAlone
  StepsKept
  BestMatchChosen
  NothingExcludedIsPublished
CHECK_DEADLOCK FALSE
