CONSTANTS
  PAGE_SIZE = 10
  MIN_ALLOC = 10
  HDR = 2
  ALIGN = 2
  SLACK = 2
  WORD = 64
  BASE = 10
  HeapLimit = 50
  Requests = {4, 8}
  CallocArgs <- MCCallocArgs
  Indices = {0, 1, 2}
  Pages <- MCPages
  Frames = {1000}
SPECIFICATION MemorySpec
INVARIANT MemoryApart
PROPERTY MapsJustThat
CHECK_DEADLOCK FALSE
