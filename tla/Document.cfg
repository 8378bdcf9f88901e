SPECIFICATION Spec
CONSTANTS
  MaxItems = 3
  MaxFiles = 3
  SizeT = 16
  Buttons = {"mirror"}
  Turned = {1}
  Leftover = TRUE
  MaxRuns = 2
  MaxShows = 2
CHECK_DEADLOCK FALSE
INVARIANTS TypeOK EveryPageShownOnce SessionHoldsDocument SessionRestoresOrder UnaskedQuitIsSaved
PROPERTIES NumberingSpoiledOnly ArrowMovesItsPage KilledRunLosesOnly
