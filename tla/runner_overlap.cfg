CONSTANTS
  j1 = j1
  j2 = j2
  n1 = n1
  r1 = r1
  r2 = r2
  Jobs <- TwoJobs
  Names <- MCNames
  JobName <- TwoJobsName
  Owners <- TwoRuns
  RunJob <- OwnJob
  Runner <- TwoRunners
  HeartbeatOf <- FirstHeartbeats
  NoOwner = NoOwner
  NoTime = NoTime
  TicksPerSecond = 1
  MaxTime = 2
  MaxEvents = 0
  MaxYields = 0
  MaxFaults = 0
  StaleAfter = 1
SPECIFICATION Spec
INVARIANT NoOverlap
CHECK_DEADLOCK FALSE
