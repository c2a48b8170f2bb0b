CONSTANTS
  ann = ann
  agent = agent
  c1 = c1
  c2 = c2
  d1 = d1
  Humans <- OneHuman
  Services <- OneService
  Qualified <- OneHuman
  Decisions <- OneDecision
  Calls <- TwoCalls
  Moves = {"ACKNOWLEDGED", "RESOLVED"}
  Outcomes = {"ACCEPTED", "REJECTED"}
  Affected = {obj1}
  Requests = {q1}
  Tasks = {t1}
  Requirement = req1
  Priorities = {1, 2}
  MaxLen = 5
  MissionLen = 4
SPECIFICATION MCSpec
SYMMETRY Symmetries
INVARIANTS
  RaisedOnce
  EffectsAreDecided
  OnlyReportsReplace
  PathsHold
  FoldsKeepEverything
CHECK_DEADLOCK FALSE
