CONSTANTS
  Kinds = {"anthropic", "codex"}
  Wrapped = {}
  MaxEvents = 3
  MaxCalls = 2
  Capacity = 2
  Observers = {"o1", "o2"}
  MaxBarriers = 2
  MaxFollowUps = 1
  Conversations <- MCConversations
  MaxToolRounds = 2
  MaxRetries = 1
  ProtectFirst = 1
  ProtectLast = 1
  RoundCalls = 2
SPECIFICATION FairSpec
INVARIANT ResultKeepsPromise
CHECK_DEADLOCK FALSE
