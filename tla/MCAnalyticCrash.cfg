SPECIFICATION MCSpec
CONSTANTS
  Calls = {1, 2}
  Claims <- MCClaims
  Family <- MCFamily
  Offered = {"c1"}
  MaxLen = 48
  MaxSteps = 20
  Odds = {"low", "high"}
  Target = "high"
  Outcomes = {"RESOLVED_FALSE", "WITHDRAWN"}
  Rules = {"CLAIM_PREDICATE", "EVENT_OCCURRED", "HUMAN_JUDGMENT"}
  Sources = {"s1"}
  Indicators <- MCThree
  Absence = {"i2"}
  Apply = {"i1"}
  ThemeIds = {"t", "u", "part"}
  Parent <- MCParent
  Parts <- MCParts
  Statements = {"n", "m"}
  Time <- MCTime
  Wording <- MCWording
  Forms <- MCForms
  Assessed = {"e"}
  Offers <- MCOffers
  Attributable = {"c1"}
  Caveats = {"k"}
  Influences <- MCInfluences
  Objectives <- MCObjectives
  Assumptions <- MCAssumptions
  Paths <- MCPaths
  ResponseOptions <- MCOptions
  Band <- MCBand
  Pressure = "DISTANT"
  Watched = {"o"}
  Episodes <- MCEpisodes
  Situations <- MCSituations
  MinMatches = 2
  RaiseAlerts = TRUE
  Played = {"spread"}
INVARIANT HistoryCompletes
CHECK_DEADLOCK FALSE
