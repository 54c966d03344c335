SPECIFICATION Spec
CONSTANTS
  Texts = {"cause", "fix"}
  NoText = "no text"
  Inherit = "inherit"
  MaxListItems = 3
  Refs = {1, 2}
  MaxEdits = 1
  MaxRemakes = 1
  MaxBundles = 2
  Evidences <- MCEvidences
  ReuseResults <- MCReuse
  Htmls <- MCHtmls
  SmokeConfigs <- MCSmokeConfigs
  Clients = {"fake_provider", "direct_http", ""}
PROPERTIES
  ReadyBundleIsValid
CHECK_DEADLOCK FALSE
