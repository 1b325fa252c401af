CONSTANTS
  FireImmediately = TRUE
  MaxEvents = 3
  MaxRequests = 2
  Options <- MCOptions
  Servers = {"older", "newer"}
SPECIFICATION AllFairSpec
PROPERTY ServerOutlivesRoutes
CHECK_DEADLOCK FALSE
