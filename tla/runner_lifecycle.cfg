CONSTANTS
  j1 = j1
  j2 = j2
  n1 = n1
  r1 = r1
  r2 = r2
  Jobs <- OneJob
  Names <- MCNames
  JobName <- OneJobName
  Owners <- TwoRuns
  RunJob <- SameJob
  Runner <- TwoRunners
  HeartbeatOf <- FirstHeartbeats
  NoOwner = NoOwner
  NoTime = NoTime
  TicksPerSecond = 1
  MaxTime = 2
  MaxEvents = 0
  MaxYields = 1
  MaxFaults = 1
  StaleAfter = 1
SPECIFICATION Spec
INVARIANT NeverExecutedTwice
INVARIANT CancelHonoured
INVARIANT RequestPrecedesCancelled
INVARIANT DrainedBeforeEnd
INVARIANT ResolvedIffCompleted
CHECK_DEADLOCK FALSE
CONSTRAINT FaultBeforeClock
