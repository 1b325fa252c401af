CONSTANTS
  Placements = {{"runner"}}
  MaxRows = 3
  MaxBuffer = 3
SPECIFICATION SseFairSpec
PROPERTY StreamEnds
CHECK_DEADLOCK FALSE
