CONSTANTS
  ann = ann
  bob = bob
  human = human
  service = service
  k1 = k1
  k2 = k2
  k3 = k3
  c1 = c1
  c2 = c2
  NoKey = NoKey
  Calls <- TwoCalls
  Actors <- TwoActors
  Kinds <- TwoKinds
  Keys <- ThreeKeys
  MaxActive = 2
  MaxTime = 2
  MaxLen = 3
  Nonces <- ThreeKeys
  Ids <- ThreeKeys
  MaxPending = 2
  MaxSessions = 2
  ChallengeTtl = 1
  SessionTtl = 1
  MaxWait = 1
  MaxClock = 2
  b1 = b1
  agency = agency
  partner = partner
  alpha = alpha
  public = public
  staff = staff
  Seal = Seal
  analyst = analyst
  visitor = visitor
  Authorities <- Organisations
  Compartments <- OneCompartment
  Groups <- TwoGroups
  system = system
  Records <- ThreeKeys
  MaxCited = 1
  MaxRecords = 3
SPECIFICATION MCSpec
SYMMETRY Symmetries
INVARIANTS
  OneOwner
  ActiveBounded
  NoResurrection
  SuccessorFirst
  SingleUse
  NoWriteDown
PROPERTIES
  HistoryStands
  NothingIsTaken
CHECK_DEADLOCK FALSE
