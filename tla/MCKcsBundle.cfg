SPECIFICATION Spec
CONSTANTS
  Texts = {"cause", "fix"}
  NoText = "no text"
  Inherit = "inherit"
  MaxListItems = 3
  Refs = {1, 2}
  MaxEdits = 1
  MaxRemakes = 2
  MaxBundles = 2
  Evidences <- MCEvidences
  ReuseResults <- MCReuse
  Htmls <- MCHtmls
  SmokeConfigs <- MCSmokeConfigs
  Clients = {"fake_provider", "direct_http", ""}
INVARIANTS
  DraftIsForReadyArticle
  ManifestOwnsItsFiles
  SmokeAgreesWithSubmit
PROPERTIES
  BundledDraftIsReady
  WriteIsAllOrNothing
CHECK_DEADLOCK FALSE
