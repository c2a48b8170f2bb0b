CONSTANTS
  h1 = h1
  h2 = h2
  a = a
  NoHandle = NoHandle
  Handles <- TwoHandles
  Ids <- OneId
  RecordKinds = {"version", "ingestion", "alert"}
  MaxTime = 2
  MaxLen = 2
  MaxSuffix = 2
SPECIFICATION MCSpec
INVARIANTS
  VersionsLinear
  IngestedOnce
  AckedIsDurable
  PayloadBeforeEvent
  DeltaIsAtomic
PROPERTIES
  TornTailIsFenced
  ImplementsDurableLog
  CallsReturn
CHECK_DEADLOCK FALSE
