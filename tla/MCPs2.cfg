CONSTANTS
  XMAX = 5
  YMAX = 1
  X0 = 1
  Y0 = 0
  Motions <- MCMotions
  MaxAcks = 3
SPECIFICATION Spec
INVARIANTS
  TypeOK
  NoStuckByte
PROPERTIES
  AlignmentKept
  MovesAsSent
