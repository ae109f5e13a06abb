CONSTANTS
  NUM_COLS = 2
  NUM_ROWS = 2
  Characters <- MCCharacters
  TextLimit = 6
  MAX_PATH_LEN = 7
  Numbers <- MCNumbers
SPECIFICATION ConsoleSpec
INVARIANT ShowsText
INVARIANT NormalisesAbsolute
INVARIANT NormalisesInPlace
INVARIANT MovesOverlapping
 
CHECK_DEADLOCK FALSE
