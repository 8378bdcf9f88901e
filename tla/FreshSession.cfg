SPECIFICATION Spec
CONSTANTS
  MaxItems = 3
  MaxFiles = 3
  SizeT = 16
  Buttons = {}
  Turned = {1}
  Leftover = FALSE
  MaxRuns = 2
  MaxShows = 2
CHECK_DEADLOCK FALSE
INVARIANT UnsavedPagesRestorable
