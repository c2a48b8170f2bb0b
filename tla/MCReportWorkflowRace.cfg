CONSTANTS
  ann = ann
  bob = bob
  agent = agent
  c1 = c1
  c2 = c2
  n1 = n1
  d1 = d1
  Humans <- TwoHumans
  Services = {}
  Cleared <- OnlyAnn
  Calls <- TwoCalls
  Nonces = {}
  Notes <- OneNote
  Citations = {TRUE}
  MaxVersion = 3
  MaxNoteVersion = 2
SPECIFICATION MCSpec
SYMMETRY CallSymmetry
INVARIANTS
  OpenDissentBlocksPlainApproval
CHECK_DEADLOCK FALSE
