CONSTANTS
  j1 = j1
  j2 = j2
  n1 = n1
  o1 = o1
  o2 = o2
  p1 = p1
  p2 = p2
  p3 = p3
  Jobs <- MCJobs
  Names <- MCNames
  JobName <- MCJobName
  Owners <- MCOwners
  NoOwner = NoOwner
  NoTime = NoTime
  TicksPerSecond = 2
  MaxTime = 2
  MaxEvents = 1
  Openers <- MCOpeners
  Latest <- MCLatest
  ExclusivityVersion = 2
  MaxEdits = 1
SPECIFICATION Spec
SYMMETRY MCSymmetry
INVARIANT TerminalEventAgrees
INVARIANT ExplainedFailures
PROPERTY FirstTerminalWins
PROPERTY ImplementsSlots
PROPERTY RecoveredNeverAbandoned
PROPERTY ReadyOnCurrent
CHECK_DEADLOCK FALSE
