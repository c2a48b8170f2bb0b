CONSTANTS
  ann = ann
  bob = bob
  agent = agent
  c1 = c1
  c2 = c2
  n1 = n1
  d1 = d1
  Humans <- TwoHumans
  Services <- OneService
  Cleared <- OnlyAnn
  Calls <- TwoCalls
  Nonces <- OneNonce
  Notes <- OneNote
  Citations = {TRUE, FALSE}
  MaxVersion = 4
  MaxNoteVersion = 2
SPECIFICATION MCSpec
SYMMETRY CallSymmetry
INVARIANTS
  SeparationOfDuties
  ApprovedAsReviewed
  ReferentsFirst
  EffectsAreSingle
  StandingObjectionsCount
CHECK_DEADLOCK FALSE
