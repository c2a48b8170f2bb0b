SPECIFICATION MCSpec
CONSTANTS
  Calls = {1, 2}
  MaxLen = 60
  MaxSteps = 30
  Things <- MCThings
  Window = 4
  Speed = 1
  Readings <- MCReadings
  Topics <- MCTopics
  TopicOrder <- MCTopicOrder
  SubjectOrder <- MCSubjects
  MaxAttempts = 2
  MaxRecords = 2
  Retrievable <- MCRetrievable
  Hypotheses <- MCHypotheses
  Questions <- MCQuestions
  Sources <- MCSources
  SourceOrder <- MCSourceOrder
  Web <- MCWeb
  Watches <- MCWatches
  Queries <- MCQueries
  Needs <- MCNeeds
  MaxSources = 2
  MaxRequests = 2
  MaxFound = 1
  Played = {"capture"}
INVARIANT LatestStands
CHECK_DEADLOCK FALSE
