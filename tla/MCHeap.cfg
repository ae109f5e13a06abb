CONSTANTS
  PAGE_SIZE = 10
  MIN_ALLOC = 10
  HDR = 2
  ALIGN = 2
  SLACK = 2
  WORD = 64
  BASE = 10
  HeapLimit = 30
  Requests = {0, 1, 3, 8}
  CallocArgs <- MCCallocArgs
SPECIFICATION Spec
INVARIANTS
  TypeOK
  Tiling
  OwnersServed
  Aligned
  LiveDisjoint
PROPERTY AllocatorSpec
CHECK_DEADLOCK FALSE
