SPECIFICATION MCSpec
CONSTANTS
  Calls = {1, 2}
  Claims <- MCClaims
  Family <- MCFamily
  Offered = {"c1"}
  MaxLen = 48
  MaxSteps = 20
  Odds = {"low", "high"}
  Target = "high"
  Outcomes = {"RESOLVED_FALSE", "WITHDRAWN"}
  Rules = {"CLAIM_PREDICATE", "EVENT_OCCURRED", "HUMAN_JUDGMENT"}
  Sources = {"s1"}
  Indicators <- MCThree
  Absence = {"i2"}
  Apply = {"i1"}
  ThemeIds = {"t", "u", "part"}
  Parent <- MCParent
  Parts <- MCParts
  Statements = {"n", "m"}
  Time <- MCTime
  Wording <- MCWording
  Forms <- MCForms
  Assessed = {"e"}
  Offers <- MCOffers
  Attributable = {"c1"}
  Caveats = {"k"}
  Influences <- MCInfluences
  Objectives <- MCObjectives
  Assumptions <- MCAssumptions
  Paths <- MCPaths
  ResponseOptions <- MCOptions
  Band <- MCBand
  Pressure = "DISTANT"
  Watched = {"o"}
  Episodes <- MCEpisodes
  Situations <- MCSituations
  MinMatches = 2
  RaiseAlerts = TRUE
  Played = {"made", "refolded", "moved", "settled", "occurred", "present", "absent", "themed", "ended", "told", "varied", "adopted", "judged", "assessed", "position", "influence", "assumed", "reheld", "fallen", "warned", "compared", "spread", "raced"}
INVARIANTS
  SettledStands
  MovesAreAuthorized
  SilenceIsNotFalse
  FiringsAreComplete
  JudgmentStands
  RecordsHold
  InvalidationReaches
  PropagationReaches
CHECK_DEADLOCK FALSE
