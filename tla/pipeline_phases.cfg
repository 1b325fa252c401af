CONSTANTS
  Pipelines <- MCPipelines
  FanoutOptions <- MCFanoutOptions
  Tries = 2
  MaxIterations = 2
  MaxQueue = 2
  MaxAttempts = 1
  MaxLives = 2
  Keys = {"k1", "k2"}
  Scopes = {{"k1"}}
  Callers = {"c1", "c2", "c3"}
  MayClear = TRUE
  MayThrow = FALSE
  MaxFetches = 3
  Direct = Direct
  None = None
SPECIFICATION Spec
INVARIANT ResolvesHonestly
INVARIANT CheckpointsTruthful
INVARIANT ResumeCovers
INVARIANT StopHalts
INVARIANT QuietAtEnd
INVARIANT OneFetchPerKey
PROPERTY ImplementsBatch
PROPERTY PipelineEnds
CHECK_DEADLOCK FALSE
