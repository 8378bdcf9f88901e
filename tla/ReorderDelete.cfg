SPECIFICATION Spec
CONSTANTS
  MaxItems = 3
  MaxFiles = 3
  SizeT = 16
  Buttons = {}
  Turned = {1}
  Leftover = FALSE
  MaxRuns = 1
  MaxShows = 1
CHECK_DEADLOCK FALSE
INVARIANT ReorderAndDeleteSafe
