CONSTANTS
  FireImmediately = TRUE
  MaxEvents = 3
  MaxRequests = 2
  Options <- MCOptions
  Servers = {"older"}
SPECIFICATION AllFairSpec
INVARIANT CapRespected
INVARIANT OnlyLastMissed
INVARIANT EarlyCancelHonoured
PROPERTY DispatchedOnce
PROPERTY WaitingGetsSlot
PROPERTY ShutdownEndsAll
PROPERTY RequestAnswered
CHECK_DEADLOCK FALSE
