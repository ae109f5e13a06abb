CONSTANTS
  MAX_WINDOWS = 3
  TITLE_HEIGHT = 2
  CLOSE_LEFT = 2
  CLOSE_RIGHT = 1
  CLOSE_TOP = 1
  CLOSE_BOTTOM = 2
  COORD = 16
  BUFFER_SIZE = 2
  a1 = a1
  a2 = a2
  a3 = a3
  a4 = a4
  Addrs <- MCAddrs
  Shapes <- MCShapes
  Points <- MCPoints
SPECIFICATION Spec
SYMMETRY AnyAddress
INVARIANTS
  DragsExistingWindow
