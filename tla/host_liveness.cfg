CONSTANTS
  j1 = j1
  n1 = n1
  r1 = r1
  Jobs <- OneJob
  Names <- OneName
  JobName <- OneJobName
  Owners <- OneRun
  RunJob <- OneRunJob
  Runner <- OneRunner
  HeartbeatOf <- OneHeartbeat
  NoOwner = NoOwner
  NoTime = NoTime
  TicksPerSecond = 1
  MaxTime = 3
  MaxEvents = 0
  MaxYields = 0
  MaxFaults = 1
  StaleAfter = 1
  Placements = {{"runner", "reconciler"}, {}}
  MaxRows = 4
  MaxBuffer = 3
SPECIFICATION HostSpec
INVARIANT FramesAscend
INVARIANT NoGap
PROPERTY StreamEnds
PROPERTY RunReturns
PROPERTY OrphanRecovered
CHECK_DEADLOCK FALSE
