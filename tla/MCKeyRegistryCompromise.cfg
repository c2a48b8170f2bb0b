CONSTANTS
  ann = ann
  bob = bob
  human = human
  service = service
  k1 = k1
  k2 = k2
  k3 = k3
  c1 = c1
  c2 = c2
  NoKey = NoKey
  Calls <- TwoCalls
  Actors <- OneActor
  Kinds <- OneKind
  Keys <- TwoKeys
  MaxActive = 2
  MaxTime = 0
  MaxLen = 5
SPECIFICATION Spec
SYMMETRY Symmetries
INVARIANTS
  ReportedCompromiseCounts
CHECK_DEADLOCK FALSE
