CONSTANTS
  ann = ann
  bob = bob
  agent = agent
  c1 = c1
  c2 = c2
  d1 = d1
  d2 = d2
  Humans <- OneHuman
  Services <- OneService
  Qualified <- OnlyAnn
  Decisions = {}
  Calls <- TwoCalls
  Moves = {"ACKNOWLEDGED", "RESOLVED"}
  Outcomes = {}
  MaxLen = 5
SPECIFICATION Spec
SYMMETRY Symmetries
INVARIANTS
  OnlyHumansAcknowledge
CHECK_DEADLOCK FALSE
