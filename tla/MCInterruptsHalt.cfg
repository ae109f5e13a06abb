CONSTANTS
  WIDTH64 = 8
  WIDTH32 = 4
  MaxDepth = 3
SPECIFICATION FairSpec
CHECK_DEADLOCK FALSE
PROPERTIES
  HaltWakes
