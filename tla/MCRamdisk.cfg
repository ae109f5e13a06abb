CONSTANTS
  BLOCK_SIZE = 2
  TOTAL_BLOCKS = 3
  MAX_FILES = 2
  WIDTH32 = 64
  Names = {"a", "b", "c", "long"}
  LongNames = {"long"}
  Writes <- MCWrites
  Bytes = {1, 2}
  MaxBlocks = 4
SPECIFICATION Spec
CHECK_DEADLOCK FALSE
INVARIANTS
  TypeOK
  TableConsistent
  DisjointUntilRegrown
  ReadsBackUntilRegrown
